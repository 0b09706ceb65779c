------------------------ MODULE PasswordResetProofs ------------------------
(***************************************************************************)
(* Proofs about PasswordReset for any accounts, passwords and codes, any   *)
(* life of a code and any number of requests served at once.               *)
(***************************************************************************)
EXTENDS PasswordReset, FiniteSetTheorems, TLAPS

LEMMA IdleType == Idle \in RequestState /\ Idle.pc = "idle"
BY DEF Idle, RequestState, OrNull

\* A set within one that is within the bound is within the bound.
LEMMA Within ==
  ASSUME NEW S, IsFiniteSet(S), Cardinality(S) <= MaxInFlight, NEW T \in SUBSET S
  PROVE  IsFiniteSet(T) /\ Cardinality(T) <= MaxInFlight
<1>1. IsFiniteSet(T) /\ Cardinality(T) <= Cardinality(S)
  BY FS_Subset
<1>2. Cardinality(T) \in Nat /\ Cardinality(S) \in Nat
  BY <1>1, FS_CardinalityType
<1> QED BY <1>1, <1>2, ConstantsAssumption

LEMMA EmptyWithin == IsFiniteSet({}) /\ Cardinality({}) = 0 /\ 0 <= MaxInFlight
BY FS_EmptySet, ConstantsAssumption

LEMMA InitInv == Init => Inv
<1> SUFFICES ASSUME Init PROVE Inv
  OBVIOUS
<1>1. TypeOK
  BY IdleType, ConstantsAssumption DEF Init, TypeOK, TokenRow, NoToken, OrNull
<1>2. RowsFit
  BY IdleType DEF Init, RowsFit, NoToken
<1>3. InFlight = {}
  BY IdleType DEF Init, InFlight
<1>4. \A a \in Accounts : ValidOf(a) \cup Storing(a) = {}
  BY IdleType DEF Init, ValidOf, Storing, Valid, NoToken
<1>5. \A t \in Requests : Presenting(t) = {} /\ uses[t] = 0
  BY IdleType DEF Init, Presenting
<1>6. FlightIsBounded
  BY <1>3, EmptyWithin DEF FlightIsBounded
<1>7. CodesAreBounded
  BY <1>4, EmptyWithin DEF CodesAreBounded
<1>8. UsesAreBounded
  BY <1>5, EmptyWithin DEF UsesAreBounded
<1> QED BY <1>1, <1>2, <1>6, <1>7, <1>8 DEF Inv

-----------------------------------------------------------------------------
(***************************************************************************)
(* What a request is after its step.                                       *)
(***************************************************************************)
LEMMA ReqType ==
  ASSUME TypeOK, NEW r \in Requests, NEW q \in RequestState, Proceed(r, q)
  PROVE  req' \in [Requests -> RequestState] /\ req' = [req EXCEPT ![r] = q]
BY DEF TypeOK, Proceed

LEMMA FinishType ==
  ASSUME TypeOK, NEW r \in Requests, Finish(r)
  PROVE  req' \in [Requests -> RequestState] /\ req' = [req EXCEPT ![r] = Idle]
BY IdleType, ReqType DEF Finish

LEMMA SpentType ==
  ASSUME TypeOK, NEW r \in Requests, FinishSpent(r)
  PROVE  /\ req' \in [Requests -> RequestState]
         /\ req' = [req EXCEPT ![r] = [Idle EXCEPT !.pc = "spent"]]
<1>1. [Idle EXCEPT !.pc = "spent"] \in RequestState
  BY DEF Idle, RequestState, OrNull
<1> QED BY <1>1, ReqType DEF FinishSpent

\* An initiation that has found its account.
LEMMA InitiateGetUserStep ==
  ASSUME TypeOK, NEW r \in Requests, InitiateGetUser(r)
  PROVE  \E q \in RequestState :
           /\ q.pc = "invalidate" /\ q.account \in Accounts
           /\ req' = [req EXCEPT ![r] = q] /\ req' \in [Requests -> RequestState]
<1>1. PICK a \in Accounts : Proceed(r, [Idle EXCEPT !.pc = "invalidate", !.account = a])
  BY DEF InitiateGetUser
<1> DEFINE q == [Idle EXCEPT !.pc = "invalidate", !.account = a]
<1>2. q \in RequestState /\ q.pc = "invalidate" /\ q.account \in Accounts
  BY DEF Idle, RequestState, OrNull
<1> QED BY <1>1, <1>2, ReqType

\* A reset that has found its token valid.
LEMMA ResetGetTokenStep ==
  ASSUME TypeOK, NEW r \in Requests, ResetGetToken(r)
  PROVE  \E q \in RequestState :
           /\ q.pc = "reset" /\ q.token \in Requests /\ Valid(q.token)
           /\ q.account = tokens[q.token].account /\ q.new \in Passwords
           /\ req' = [req EXCEPT ![r] = q] /\ req' \in [Requests -> RequestState]
<1>1. PICK t \in known, p \in Passwords :
        /\ Valid(t)
        /\ Proceed(r, [pc |-> "reset", account |-> tokens[t].account, token |-> t, new |-> p])
  BY DEF ResetGetToken
<1> DEFINE q == [pc |-> "reset", account |-> tokens[t].account, token |-> t, new |-> p]
<1>2. q \in RequestState
  BY DEF TypeOK, RequestState, TokenRow, OrNull
<1>3. t \in Requests
  BY DEF TypeOK
<1> QED BY <1>1, <1>2, <1>3, ReqType

\* A change that has verified the old password.
LEMMA ChangeGetUserStep ==
  ASSUME TypeOK, NEW r \in Requests, ChangeGetUser(r)
  PROVE  \E q \in RequestState :
           /\ q.pc = "change" /\ q.account \in Accounts /\ q.new \in Passwords
           /\ req' = [req EXCEPT ![r] = q] /\ req' \in [Requests -> RequestState]
<1>1. PICK a \in Accounts, p \in Passwords :
        Proceed(r, [Idle EXCEPT !.pc = "change", !.account = a, !.new = p])
  BY DEF ChangeGetUser
<1> DEFINE q == [Idle EXCEPT !.pc = "change", !.account = a, !.new = p]
<1>2. q \in RequestState /\ q.pc = "change" /\ q.account \in Accounts /\ q.new \in Passwords
  BY DEF Idle, RequestState, OrNull
<1> QED BY <1>1, <1>2, ReqType

\* An initiation that has invalidated the tokens of its account.
LEMMA InitiateInvalidateStep ==
  ASSUME TypeOK, NEW r \in Requests, InitiateInvalidate(r)
  PROVE  /\ req[r].pc = "invalidate"
         /\ req' = [req EXCEPT ![r] = [req[r] EXCEPT !.pc = "store"]]
         /\ req' \in [Requests -> RequestState]
         /\ tokens' \in [Requests -> TokenRow]
         /\ \A t \in Requests :
              /\ tokens'[t].account = tokens[t].account
              /\ tokens'[t].code = tokens[t].code
              /\ tokens'[t].expires = tokens[t].expires
              /\ tokens'[t].used = (tokens[t].used \/ tokens[t].account = req[r].account)
<1>1. [req[r] EXCEPT !.pc = "store"] \in RequestState
  BY DEF TypeOK, RequestState
<1>2. req' = [req EXCEPT ![r] = [req[r] EXCEPT !.pc = "store"]]
      /\ req' \in [Requests -> RequestState]
  BY <1>1, ReqType DEF InitiateInvalidate
<1> DEFINE row(t) == [tokens[t] EXCEPT !.used = @ \/ tokens[t].account = req[r].account]
<1>3. ASSUME NEW t \in Requests
      PROVE  /\ row(t) \in TokenRow
             /\ row(t).account = tokens[t].account
             /\ row(t).code = tokens[t].code
             /\ row(t).expires = tokens[t].expires
             /\ row(t).used = (tokens[t].used \/ tokens[t].account = req[r].account)
  BY DEF TypeOK, TokenRow
<1> HIDE DEF row
<1>4. tokens' = [t \in Requests |-> row(t)]
  BY DEF InitiateInvalidate, row
<1>5. tokens' \in [Requests -> TokenRow] /\ \A t \in Requests : tokens'[t] = row(t)
  BY <1>3, <1>4
<1>6. req[r].pc = "invalidate"
  BY DEF InitiateInvalidate
<1> QED BY <1>2, <1>3, <1>5, <1>6, Zenon

\* An initiation that has stored its row: the row was free, for its name was.
LEMMA InitiateStoreStep ==
  ASSUME TypeOK, RowsFit, NEW r \in Requests, InitiateStore(r)
  PROVE  /\ req[r].pc = "store"
         /\ req' = [req EXCEPT ![r] = [Idle EXCEPT !.pc = "spent"]]
         /\ req' \in [Requests -> RequestState]
         /\ mailed' \subseteq Accounts \X Codes
         /\ tokens[r].account = NULL
         /\ \E row \in TokenRow :
              /\ tokens' = [tokens EXCEPT ![r] = row]
              /\ row.account = req[r].account /\ row.account \in Accounts /\ ~row.used
<1>1. req[r].pc = "store" /\ FinishSpent(r)
  BY DEF InitiateStore
<1>2. req[r].account \in Accounts /\ tokens[r].account = NULL
  BY <1>1 DEF RowsFit
<1>3. PICK c \in Codes, sent \in BOOLEAN :
        /\ tokens' = [tokens EXCEPT ![r] = [account |-> req[r].account, code |-> c,
                                            used |-> FALSE, expires |-> clock + CodeLife]]
        /\ mailed' = IF sent THEN mailed \cup {<<req[r].account, c>>} ELSE mailed
  BY DEF InitiateStore
<1> DEFINE row == [account |-> req[r].account, code |-> c,
                   used |-> FALSE, expires |-> clock + CodeLife]
<1>4. row \in TokenRow
  BY <1>2, ConstantsAssumption DEF TypeOK, TokenRow, OrNull
<1>5. mailed' \subseteq Accounts \X Codes
  BY <1>2, <1>3 DEF TypeOK
<1> QED BY <1>1, <1>2, <1>3, <1>4, <1>5, SpentType

\* A reset that has written both its rows.
LEMMA ResetWriteStep ==
  ASSUME TypeOK, RowsFit, NEW r \in Requests, ResetWrite(r)
  PROVE  \E k \in Requests :
           /\ req[r].pc = "reset" /\ req[r].token = k
           /\ req' = [req EXCEPT ![r] = Idle] /\ req' \in [Requests -> RequestState]
           /\ \E row \in TokenRow :
                /\ tokens' = [tokens EXCEPT ![k] = row]
                /\ row.account = tokens[k].account /\ row.account # NULL /\ row.used
                /\ row.code = tokens[k].code /\ row.expires = tokens[k].expires
           /\ tokens' \in [Requests -> TokenRow]
           /\ uses' = [uses EXCEPT ![k] = uses[k] + 1] /\ uses' \in [Requests -> Nat]
<1> DEFINE k == req[r].token
           row == [tokens[k] EXCEPT !.used = TRUE]
<1>1. /\ req[r].pc = "reset" /\ Finish(r)
      /\ tokens' = [tokens EXCEPT ![k] = row]
      /\ uses' = [uses EXCEPT ![k] = uses[k] + 1]
  BY DEF ResetWrite
<1>2. k \in Requests /\ tokens[k].account # NULL
  BY <1>1 DEF RowsFit
<1>3. tokens[k] \in TokenRow
  BY <1>2 DEF TypeOK
<1>4. /\ row \in TokenRow /\ row.account = tokens[k].account /\ row.used
      /\ row.code = tokens[k].code /\ row.expires = tokens[k].expires
  BY <1>3 DEF TokenRow
<1> HIDE DEF k, row
<1>5. tokens' \in [Requests -> TokenRow] /\ uses' \in [Requests -> Nat]
  BY <1>1, <1>2, <1>4 DEF TypeOK
<1>6. req[r].token = k
  BY DEF k
<1> QED BY <1>1, <1>2, <1>4, <1>5, <1>6, FinishType

-----------------------------------------------------------------------------
(***************************************************************************)
(* Every step preserves the types, and what requests and rows refer to.    *)
(***************************************************************************)
LEMMA TypeStep ==
  ASSUME Inv, [Next]_vars
  PROVE  TypeOK'
<1> USE DEF Inv, TypeOK
<1>1. CASE UNCHANGED vars
  BY <1>1 DEF vars
<1>2. ASSUME NEW r \in Requests, InitiateGetUser(r)
      PROVE  TypeOK'
  BY <1>2, InitiateGetUserStep DEF InitiateGetUser
<1>3. ASSUME NEW r \in Requests, InitiateInvalidate(r)
      PROVE  TypeOK'
  BY <1>3, InitiateInvalidateStep DEF InitiateInvalidate
<1>4. ASSUME NEW r \in Requests, InitiateStore(r)
      PROVE  TypeOK'
  <2>1. tokens' \in [Requests -> TokenRow]
    BY <1>4, InitiateStoreStep
  <2> QED BY <1>4, <2>1, InitiateStoreStep DEF InitiateStore
<1>5. CASE VerifyCode
  <2>1. known' \subseteq Requests
    BY <1>5 DEF VerifyCode
  <2> QED BY <1>5, <2>1 DEF VerifyCode
<1>6. ASSUME NEW r \in Requests, ResetGetToken(r)
      PROVE  TypeOK'
  BY <1>6, ResetGetTokenStep DEF ResetGetToken
<1>7. ASSUME NEW r \in Requests, ResetWrite(r)
      PROVE  TypeOK'
  <2>1. password' \in [Accounts -> Passwords]
    BY <1>7 DEF ResetWrite, RowsFit
  <2> QED BY <1>7, <2>1, ResetWriteStep DEF ResetWrite
<1>8. ASSUME NEW r \in Requests, ChangeGetUser(r)
      PROVE  TypeOK'
  BY <1>8, ChangeGetUserStep DEF ChangeGetUser
<1>9. ASSUME NEW r \in Requests, ChangeWrite(r)
      PROVE  TypeOK'
  <2>1. password' \in [Accounts -> Passwords]
    BY <1>9 DEF ChangeWrite, RowsFit
  <2> QED BY <1>9, <2>1, FinishType DEF ChangeWrite
<1>10. ASSUME NEW r \in Requests, Crash(r)
       PROVE  TypeOK'
  BY <1>10, FinishType DEF Crash
<1>11. CASE Tick
  BY <1>11, ConstantsAssumption DEF Tick
<1> QED
  BY <1>1, <1>2, <1>3, <1>4, <1>5, <1>6, <1>7, <1>8, <1>9, <1>10, <1>11 DEF Next, Serve

LEMMA RowsStep ==
  ASSUME Inv, [Next]_vars
  PROVE  RowsFit'
<1> USE IdleType DEF Inv, RowsFit
<1>1. CASE UNCHANGED vars
  BY <1>1 DEF vars
<1>2. ASSUME NEW r \in Requests, InitiateGetUser(r)
      PROVE  RowsFit'
  <2>1. req[r].pc = "idle" /\ UNCHANGED <<tokens, uses>>
    BY <1>2 DEF InitiateGetUser, Begins
  <2> QED BY <1>2, <2>1, InitiateGetUserStep DEF TypeOK
<1>3. ASSUME NEW r \in Requests, InitiateInvalidate(r)
      PROVE  RowsFit'
  <2>1. /\ req'[r].pc = "store" /\ req'[r].account = req[r].account
        /\ \A x \in Requests \ {r} : req'[x] = req[x]
    BY <1>3, InitiateInvalidateStep DEF TypeOK, RequestState
  <2>2. \A t \in Requests : tokens'[t].account = tokens[t].account /\ (tokens[t].used => tokens'[t].used)
    BY <1>3, InitiateInvalidateStep
  <2>3. uses' = uses /\ req[r].pc = "invalidate"
    BY <1>3 DEF InitiateInvalidate
  <2> QED BY <2>1, <2>2, <2>3
<1>4. ASSUME NEW r \in Requests, InitiateStore(r)
      PROVE  RowsFit'
  <2>1. PICK row \in TokenRow :
          /\ tokens' = [tokens EXCEPT ![r] = row]
          /\ row.account \in Accounts
    BY <1>4, InitiateStoreStep
  <2>2. row.account # NULL /\ tokens[r].account = NULL /\ req[r].pc = "store" /\ uses' = uses
    BY <1>4, <2>1, InitiateStoreStep, ConstantsAssumption DEF InitiateStore
  <2>3. /\ req' = [req EXCEPT ![r] = [Idle EXCEPT !.pc = "spent"]]
        /\ [Idle EXCEPT !.pc = "spent"].pc = "spent"
    BY <1>4, InitiateStoreStep DEF Idle
  <2>4. req'[r].pc = "spent" /\ \A x \in Requests \ {r} : req'[x] = req[x]
    BY <2>3 DEF TypeOK
  <2>5. \A t \in Requests : tokens[t].account # NULL => tokens'[t] = tokens[t]
    BY <2>1, <2>2 DEF TypeOK
  <2>6. \A t \in Requests : t # r => tokens'[t] = tokens[t]
    BY <2>1 DEF TypeOK
  <2> QED BY <2>2, <2>4, <2>5, <2>6
<1>5. CASE VerifyCode
  BY <1>5 DEF VerifyCode
<1>6. ASSUME NEW r \in Requests, ResetGetToken(r)
      PROVE  RowsFit'
  <2>1. req[r].pc = "idle" /\ UNCHANGED <<tokens, uses>>
    BY <1>6 DEF ResetGetToken, Begins
  <2>2. PICK q \in RequestState :
           /\ q.pc = "reset" /\ q.token \in Requests /\ Valid(q.token)
           /\ q.account = tokens[q.token].account /\ q.new \in Passwords
           /\ req' = [req EXCEPT ![r] = q]
    BY <1>6, ResetGetTokenStep
  <2>3. tokens[q.token].account # NULL /\ q.account \in Accounts
    BY <2>2 DEF Valid, TypeOK, TokenRow, OrNull
  <2>4. req'[r] = q /\ \A x \in Requests \ {r} : req'[x] = req[x]
    BY <2>2 DEF TypeOK
  <2> QED BY <2>1, <2>2, <2>3, <2>4
<1>7. ASSUME NEW r \in Requests, ResetWrite(r)
      PROVE  RowsFit'
  <2>1. PICK k \in Requests :
          /\ req[r].pc = "reset" /\ req[r].token = k /\ req' = [req EXCEPT ![r] = Idle]
          /\ \E row \in TokenRow :
               tokens' = [tokens EXCEPT ![k] = row] /\ row.account # NULL /\ row.used
          /\ uses' = [uses EXCEPT ![k] = uses[k] + 1]
    BY <1>7, ResetWriteStep
  <2>2. req'[r].pc = "idle" /\ \A x \in Requests \ {r} : req'[x] = req[x]
    BY <2>1 DEF TypeOK
  <2>3. \A t \in Requests : t # k => tokens'[t] = tokens[t] /\ uses'[t] = uses[t]
    BY <2>1 DEF TypeOK
  <2>4. tokens'[k].account # NULL /\ tokens'[k].used
    BY <2>1 DEF TypeOK
  <2>5. req[r].token = k /\ tokens[k].account # NULL
    BY <2>1
  <2> QED BY <2>1, <2>2, <2>3, <2>4, <2>5
<1>8. ASSUME NEW r \in Requests, ChangeGetUser(r)
      PROVE  RowsFit'
  <2>1. req[r].pc = "idle" /\ UNCHANGED <<tokens, uses>>
    BY <1>8 DEF ChangeGetUser, Begins
  <2> QED BY <1>8, <2>1, ChangeGetUserStep DEF TypeOK
<1>9. ASSUME NEW r \in Requests, ChangeWrite(r) \/ Crash(r)
      PROVE  RowsFit'
  <2>1. req[r].pc # "spent" /\ Finish(r) /\ UNCHANGED <<tokens, uses>>
    BY <1>9 DEF ChangeWrite, Crash, InFlight
  <2> QED BY <2>1, FinishType DEF TypeOK
<1>10. CASE Tick
  BY <1>10 DEF Tick
<1> QED
  BY <1>1, <1>2, <1>3, <1>4, <1>5, <1>6, <1>7, <1>8, <1>9, <1>10 DEF Next, Serve

-----------------------------------------------------------------------------
(***************************************************************************)
(* No step disturbs a row that is stored, but to mark it used.  A step     *)
(* outside the module's writers of tokens leaves the whole table alone.    *)
(***************************************************************************)
LEMMA StoredStays ==
  ASSUME Inv, [Next]_vars, NEW t \in Requests, tokens[t].account # NULL
  PROVE  /\ tokens'[t].account = tokens[t].account
         /\ tokens'[t].code = tokens[t].code
         /\ tokens[t].used => tokens'[t].used
<1> USE DEF Inv
<1>1. CASE UNCHANGED tokens
  BY <1>1
<1>2. ASSUME NEW r \in Requests, InitiateInvalidate(r)
      PROVE  /\ tokens'[t].account = tokens[t].account
             /\ tokens'[t].code = tokens[t].code
             /\ tokens[t].used => tokens'[t].used
  BY <1>2, InitiateInvalidateStep
<1>3. ASSUME NEW r \in Requests, InitiateStore(r)
      PROVE  UNCHANGED tokens[t]
  BY <1>3, InitiateStoreStep DEF TypeOK
<1>4. ASSUME NEW r \in Requests, ResetWrite(r)
      PROVE  /\ tokens'[t].account = tokens[t].account
             /\ tokens'[t].code = tokens[t].code
             /\ tokens[t].used => tokens'[t].used
  BY <1>4, ResetWriteStep DEF TypeOK
<1> QED
  BY <1>1, <1>2, <1>3, <1>4
  DEF Next, Serve, vars, InitiateGetUser, VerifyCode, ResetGetToken, ChangeGetUser,
      ChangeWrite, Crash, Tick

-----------------------------------------------------------------------------
(***************************************************************************)
(* Every step keeps the requests in flight within their bound.             *)
(***************************************************************************)
LEMMA FlightStep ==
  ASSUME Inv, [Next]_vars
  PROVE  FlightIsBounded'
<1> USE DEF Inv, FlightIsBounded
<1>1. ASSUME InFlight' \subseteq InFlight
      PROVE  FlightIsBounded'
  BY <1>1, Within
<1>2. ASSUME NEW r \in Requests, HasRoom, InFlight' \subseteq InFlight \cup {r}
      PROVE  FlightIsBounded'
  <2>1. /\ IsFiniteSet(InFlight \cup {r})
        /\ Cardinality(InFlight \cup {r})
             = IF r \in InFlight THEN Cardinality(InFlight) ELSE Cardinality(InFlight) + 1
    BY FS_AddElement
  <2>2. Cardinality(InFlight) < MaxInFlight /\ Cardinality(InFlight) \in Nat
    BY <1>2, FS_CardinalityType DEF HasRoom
  <2>3. Cardinality(InFlight \cup {r}) \in Nat
    BY <2>1, FS_CardinalityType
  <2>4. Cardinality(InFlight \cup {r}) <= MaxInFlight
    BY <2>1, <2>2, <2>3, ConstantsAssumption
  <2> QED BY <1>2, <2>1, <2>4, Within
<1>3. ASSUME NEW r \in Requests, InitiateGetUser(r) \/ ResetGetToken(r) \/ ChangeGetUser(r)
      PROVE  FlightIsBounded'
  <2>1. HasRoom
    BY <1>3 DEF InitiateGetUser, ResetGetToken, ChangeGetUser, Begins
  <2>2. \E q \in RequestState : req' = [req EXCEPT ![r] = q]
    BY <1>3, InitiateGetUserStep, ResetGetTokenStep, ChangeGetUserStep
  <2>3. InFlight' \subseteq InFlight \cup {r}
    BY <2>2 DEF InFlight, TypeOK
  <2> QED BY <1>2, <2>1, <2>3
<1>4. ASSUME NEW r \in Requests, InitiateInvalidate(r)
      PROVE  FlightIsBounded'
  <2>1. req[r].pc = "invalidate" /\ \A x \in Requests \ {r} : req'[x] = req[x]
    BY <1>4, InitiateInvalidateStep DEF TypeOK
  <2>2. InFlight' \subseteq InFlight
    BY <2>1 DEF InFlight
  <2> QED BY <1>1, <2>2
<1>5. ASSUME NEW r \in Requests, InitiateStore(r)
      PROVE  FlightIsBounded'
  <2>1. req[r].pc = "store" /\ \A x \in Requests \ {r} : req'[x] = req[x]
    BY <1>5, InitiateStoreStep DEF TypeOK
  <2>2. InFlight' \subseteq InFlight
    BY <2>1 DEF InFlight
  <2> QED BY <1>1, <2>2
<1>6. ASSUME NEW r \in Requests, Finish(r)
      PROVE  FlightIsBounded'
  <2>1. InFlight' \subseteq InFlight
    BY <1>6, FinishType, IdleType DEF InFlight, TypeOK
  <2> QED BY <1>1, <2>1
<1>7. ASSUME UNCHANGED req
      PROVE  FlightIsBounded'
  BY <1>1, <1>7 DEF InFlight
<1> QED
  BY <1>3, <1>4, <1>5, <1>6, <1>7
  DEF Next, Serve, vars, VerifyCode, Tick, ResetWrite, ChangeWrite, Crash

-----------------------------------------------------------------------------
(***************************************************************************)
(* The codes that are valid or about to be stored are at most as many as   *)
(* the requests in flight were when the account's codes last all ended: an *)
(* invalidation leaves those about to be stored, a store turns one into    *)
(* the other, and nothing else adds to either.                             *)
(***************************************************************************)
LEMMA CodesStep ==
  ASSUME Inv, [Next]_vars
  PROVE  CodesAreBounded'
<1> USE DEF Inv
<1> SUFFICES ASSUME NEW a \in Accounts
             PROVE  /\ IsFiniteSet((ValidOf(a) \cup Storing(a))')
                    /\ Cardinality((ValidOf(a) \cup Storing(a))') <= MaxInFlight
  BY DEF CodesAreBounded
<1> DEFINE Live == ValidOf(a) \cup Storing(a)
<1>1. ASSUME Live' \subseteq Live
      PROVE  IsFiniteSet(Live') /\ Cardinality(Live') <= MaxInFlight
  BY <1>1, Within DEF CodesAreBounded
<1>2. ASSUME Live' \subseteq InFlight'
      PROVE  IsFiniteSet(Live') /\ Cardinality(Live') <= MaxInFlight
  BY <1>2, Within, FlightStep DEF FlightIsBounded
<1>3. ASSUME UNCHANGED tokens, clock' \in Nat, clock' >= clock, Storing(a)' \subseteq Storing(a)
      PROVE  Live' \subseteq Live
  <2>1. \A t \in Requests : tokens[t].expires \in Nat
    BY DEF TypeOK, TokenRow
  <2>2. clock \in Nat
    BY ConstantsAssumption DEF TypeOK
  <2>3. ValidOf(a)' \subseteq ValidOf(a)
    BY <1>3, <2>1, <2>2 DEF ValidOf, Valid
  <2> QED BY <1>3, <2>3
<1>4. clock \in Nat /\ clock + 1 \in Nat /\ clock + 1 >= clock /\ clock >= clock
  BY ConstantsAssumption DEF TypeOK
<1>5. ASSUME NEW r \in Requests, NEW q, req' = [req EXCEPT ![r] = q], q.pc # "store"
      PROVE  Storing(a)' \subseteq Storing(a) \ {r}
  BY <1>5 DEF Storing, TypeOK
<1>6. ASSUME NEW r \in Requests, InitiateInvalidate(r)
      PROVE  IsFiniteSet(Live') /\ Cardinality(Live') <= MaxInFlight
  <2>1. /\ req[r].pc = "invalidate"
        /\ req'[r].pc = "store" /\ req'[r].account = req[r].account
        /\ \A x \in Requests \ {r} : req'[x] = req[x]
    BY <1>6, InitiateInvalidateStep DEF TypeOK, RequestState
  <2>2. clock' = clock
    BY <1>6 DEF InitiateInvalidate
  <2>3. CASE req[r].account = a
    <3>0. \A t \in Requests :
            /\ tokens'[t].account = tokens[t].account
            /\ tokens'[t].used = (tokens[t].used \/ tokens[t].account = req[r].account)
      BY <1>6, InitiateInvalidateStep, Zenon
    <3>1. \A t \in Requests : tokens'[t].account = a => tokens'[t].used
      BY <2>3, <3>0, Zenon
    <3>2. ValidOf(a)' = {}
      BY <3>1 DEF ValidOf, Valid
    <3>3. Storing(a)' \subseteq InFlight'
      BY DEF Storing, InFlight
    <3> QED BY <1>2, <3>2, <3>3
  <2>4. CASE req[r].account # a
    <3>1. Storing(a)' \subseteq Storing(a)
      BY <2>1, <2>4 DEF Storing
    <3>2. \A t \in Requests : /\ tokens'[t].account = tokens[t].account
                              /\ tokens'[t].expires = tokens[t].expires
                              /\ tokens[t].used => tokens'[t].used
      BY <1>6, InitiateInvalidateStep
    <3>3. ValidOf(a)' \subseteq ValidOf(a)
      BY <2>2, <3>2 DEF ValidOf, Valid
    <3> QED BY <1>1, <3>1, <3>3
  <2> QED BY <2>3, <2>4
<1>7. ASSUME NEW r \in Requests, InitiateStore(r)
      PROVE  IsFiniteSet(Live') /\ Cardinality(Live') <= MaxInFlight
  <2>1. PICK row \in TokenRow :
          tokens' = [tokens EXCEPT ![r] = row] /\ row.account = req[r].account
    BY <1>7, InitiateStoreStep
  <2>2. req[r].pc = "store" /\ clock' = clock
    BY <1>7 DEF InitiateStore
  <2>3. Storing(a)' \subseteq Storing(a)
    <3>1. [Idle EXCEPT !.pc = "spent"].pc = "spent"
      BY DEF Idle
    <3> QED BY <1>5, <1>7, <3>1, InitiateStoreStep
  <2>4. \A t \in Requests \ {r} : tokens'[t] = tokens[t]
    BY <2>1 DEF TypeOK
  <2>5. tokens'[r].account = req[r].account
    BY <2>1 DEF TypeOK
  <2>6. ValidOf(a)' \subseteq ValidOf(a) \cup Storing(a)
    BY <2>2, <2>4, <2>5 DEF ValidOf, Valid, Storing
  <2> QED BY <1>1, <2>3, <2>6
<1>8. ASSUME NEW r \in Requests, ResetWrite(r)
      PROVE  IsFiniteSet(Live') /\ Cardinality(Live') <= MaxInFlight
  <2>1. PICK k \in Requests :
          /\ req' = [req EXCEPT ![r] = Idle]
          /\ \E row \in TokenRow : tokens' = [tokens EXCEPT ![k] = row] /\ row.used
    BY <1>8, ResetWriteStep
  <2>2. Storing(a)' \subseteq Storing(a)
    BY <1>5, <2>1, IdleType
  <2>3. /\ \A t \in Requests \ {k} : tokens'[t] = tokens[t]
        /\ tokens'[k].used /\ clock' = clock
    BY <1>8, <2>1 DEF TypeOK, ResetWrite
  <2>4. ValidOf(a)' \subseteq ValidOf(a)
    BY <2>3 DEF ValidOf, Valid
  <2> QED BY <1>1, <2>2, <2>4
<1>9. ASSUME NEW r \in Requests, InitiateGetUser(r) \/ ResetGetToken(r) \/ ChangeGetUser(r)
      PROVE  IsFiniteSet(Live') /\ Cardinality(Live') <= MaxInFlight
  <2>1. \E q \in RequestState : q.pc # "store" /\ req' = [req EXCEPT ![r] = q]
    BY <1>9, InitiateGetUserStep, ResetGetTokenStep, ChangeGetUserStep
  <2>2. UNCHANGED <<tokens, clock>>
    BY <1>9 DEF InitiateGetUser, ResetGetToken, ChangeGetUser
  <2>3. Storing(a)' \subseteq Storing(a)
    BY <1>5, <2>1
  <2> QED BY <1>1, <1>3, <1>4, <2>2, <2>3
<1>10. ASSUME NEW r \in Requests, ChangeWrite(r) \/ Crash(r)
       PROVE  IsFiniteSet(Live') /\ Cardinality(Live') <= MaxInFlight
  <2>1. UNCHANGED <<tokens, clock>> /\ Finish(r)
    BY <1>10 DEF ChangeWrite, Crash
  <2>2. Storing(a)' \subseteq Storing(a)
    BY <1>5, <2>1, FinishType, IdleType
  <2> QED BY <1>1, <1>3, <1>4, <2>1, <2>2
<1>11. ASSUME UNCHANGED vars \/ VerifyCode \/ Tick
       PROVE  IsFiniteSet(Live') /\ Cardinality(Live') <= MaxInFlight
  <2>1. UNCHANGED <<tokens, req>> /\ clock' \in Nat /\ clock' >= clock
    BY <1>4, <1>11 DEF vars, VerifyCode, Tick
  <2>2. Storing(a)' \subseteq Storing(a)
    BY <2>1 DEF Storing
  <2> QED BY <1>1, <1>3, <2>1, <2>2
<1> QED
  BY <1>6, <1>7, <1>8, <1>9, <1>10, <1>11 DEF Next, Serve

-----------------------------------------------------------------------------
(***************************************************************************)
(* A token that is presented while it is unused has no use yet, and from   *)
(* its first use on nobody else starts presenting it: each use takes one   *)
(* of the requests that were presenting it.                                *)
(***************************************************************************)
LEMMA UsesStep ==
  ASSUME Inv, [Next]_vars
  PROVE  UsesAreBounded'
<1> USE DEF Inv
<1> SUFFICES ASSUME NEW t \in Requests
             PROVE  /\ IsFiniteSet(Presenting(t)')
                    /\ uses'[t] + Cardinality(Presenting(t)') <= MaxInFlight
  BY DEF UsesAreBounded
<1>0. /\ uses[t] \in Nat /\ IsFiniteSet(Presenting(t))
      /\ uses[t] + Cardinality(Presenting(t)) <= MaxInFlight
  BY DEF UsesAreBounded, TypeOK
<1>1. ASSUME uses'[t] = uses[t], Presenting(t)' \subseteq Presenting(t)
      PROVE  /\ IsFiniteSet(Presenting(t)')
             /\ uses'[t] + Cardinality(Presenting(t)') <= MaxInFlight
  <2>1. IsFiniteSet(Presenting(t)') /\ Cardinality(Presenting(t)') <= Cardinality(Presenting(t))
    BY <1>0, <1>1, FS_Subset
  <2>2. Cardinality(Presenting(t)) \in Nat /\ Cardinality(Presenting(t)') \in Nat
    BY <1>0, <2>1, FS_CardinalityType
  <2> QED BY <1>0, <1>1, <2>1, <2>2, ConstantsAssumption
<1>2. ASSUME NEW r \in Requests, NEW q, req' = [req EXCEPT ![r] = q],
             q.pc # "reset" \/ q.token # t
      PROVE  Presenting(t)' \subseteq Presenting(t) \ {r}
  BY <1>2 DEF Presenting, TypeOK
<1>3. ASSUME NEW r \in Requests, ResetGetToken(r)
      PROVE  /\ IsFiniteSet(Presenting(t)')
             /\ uses'[t] + Cardinality(Presenting(t)') <= MaxInFlight
  <2>1. PICK q \in RequestState :
          q.token \in Requests /\ Valid(q.token) /\ req' = [req EXCEPT ![r] = q]
    BY <1>3, ResetGetTokenStep
  <2>2. uses' = uses
    BY <1>3 DEF ResetGetToken
  <2>3. CASE q.token = t
    <3>1. ~ (uses[t] > 0)
      BY <2>1, <2>3, Zenon DEF RowsFit, Valid
    <3>2. uses'[t] = 0
      BY <1>0, <2>2, <3>1
    <3>3. Presenting(t)' \subseteq InFlight'
      BY DEF Presenting, InFlight
    <3>4. IsFiniteSet(Presenting(t)') /\ Cardinality(Presenting(t)') <= MaxInFlight
      BY <3>3, FlightStep, Within DEF FlightIsBounded
    <3> QED BY <3>2, <3>4, FS_CardinalityType
  <2>4. CASE q.token # t
    BY <1>1, <1>2, <2>1, <2>2, <2>4
  <2> QED BY <2>3, <2>4
<1>4. ASSUME NEW r \in Requests, ResetWrite(r)
      PROVE  /\ IsFiniteSet(Presenting(t)')
             /\ uses'[t] + Cardinality(Presenting(t)') <= MaxInFlight
  <2>1. PICK k \in Requests :
          /\ req[r].pc = "reset" /\ req[r].token = k /\ req' = [req EXCEPT ![r] = Idle]
          /\ uses' = [uses EXCEPT ![k] = uses[k] + 1]
    BY <1>4, ResetWriteStep
  <2>2. Presenting(t)' \subseteq Presenting(t) \ {r}
    BY <1>2, <2>1, IdleType
  <2>3. CASE k = t
    <3>1. r \in Presenting(t)
      BY <2>1, <2>3 DEF Presenting
    <3>2. /\ IsFiniteSet(Presenting(t) \ {r})
          /\ Cardinality(Presenting(t) \ {r}) = Cardinality(Presenting(t)) - 1
      BY <1>0, <3>1, FS_RemoveElement
    <3>3. /\ IsFiniteSet(Presenting(t)')
          /\ Cardinality(Presenting(t)') <= Cardinality(Presenting(t) \ {r})
      BY <2>2, <3>2, FS_Subset
    <3>4. Cardinality(Presenting(t)) \in Nat /\ Cardinality(Presenting(t)') \in Nat
      BY <1>0, <3>3, FS_CardinalityType
    <3>5. uses'[t] = uses[t] + 1
      BY <2>1, <2>3 DEF TypeOK
    <3> QED BY <1>0, <3>2, <3>3, <3>4, <3>5, ConstantsAssumption
  <2>4. CASE k # t
    <3>1. uses'[t] = uses[t]
      BY <2>1, <2>4 DEF TypeOK
    <3> QED BY <1>1, <2>2, <3>1
  <2> QED BY <2>3, <2>4
<1>5. ASSUME NEW r \in Requests,
             InitiateGetUser(r) \/ InitiateInvalidate(r) \/ InitiateStore(r) \/ ChangeGetUser(r)
      PROVE  /\ IsFiniteSet(Presenting(t)')
             /\ uses'[t] + Cardinality(Presenting(t)') <= MaxInFlight
  <2>1. ASSUME InitiateInvalidate(r)
        PROVE  Presenting(t)' \subseteq Presenting(t)
    <3>1. [req[r] EXCEPT !.pc = "store"].pc = "store"
      BY DEF TypeOK, RequestState
    <3>2. req' = [req EXCEPT ![r] = [req[r] EXCEPT !.pc = "store"]]
      BY <2>1, InitiateInvalidateStep
    <3> QED BY <1>2, <3>1, <3>2
  <2>2. ASSUME InitiateStore(r)
        PROVE  Presenting(t)' \subseteq Presenting(t)
    <3>1. [Idle EXCEPT !.pc = "spent"].pc = "spent"
      BY DEF Idle
    <3>2. req' = [req EXCEPT ![r] = [Idle EXCEPT !.pc = "spent"]]
      BY <2>2, InitiateStoreStep
    <3> QED BY <1>2, <3>1, <3>2
  <2>3. ASSUME InitiateGetUser(r) \/ ChangeGetUser(r)
        PROVE  Presenting(t)' \subseteq Presenting(t)
    <3>1. \E q \in RequestState : q.pc # "reset" /\ req' = [req EXCEPT ![r] = q]
      BY <2>3, InitiateGetUserStep, ChangeGetUserStep
    <3> QED BY <1>2, <3>1
  <2>4. uses' = uses
    BY <1>5 DEF InitiateGetUser, InitiateInvalidate, InitiateStore, ChangeGetUser
  <2>5. Presenting(t)' \subseteq Presenting(t)
    BY <1>5, <2>1, <2>2, <2>3
  <2> QED BY <1>1, <2>4, <2>5
<1>6. ASSUME NEW r \in Requests, ChangeWrite(r) \/ Crash(r)
      PROVE  /\ IsFiniteSet(Presenting(t)')
             /\ uses'[t] + Cardinality(Presenting(t)') <= MaxInFlight
  <2>1. uses' = uses /\ req' = [req EXCEPT ![r] = Idle]
    BY <1>6, FinishType DEF ChangeWrite, Crash
  <2> QED BY <1>1, <1>2, <2>1, IdleType
<1>7. ASSUME UNCHANGED vars \/ VerifyCode \/ Tick
      PROVE  /\ IsFiniteSet(Presenting(t)')
             /\ uses'[t] + Cardinality(Presenting(t)') <= MaxInFlight
  <2>1. UNCHANGED <<uses, req>>
    BY <1>7 DEF vars, VerifyCode, Tick
  <2>2. Presenting(t)' \subseteq Presenting(t)
    BY <2>1 DEF Presenting
  <2> QED BY <1>1, <2>1, <2>2
<1> QED
  BY <1>3, <1>4, <1>5, <1>6, <1>7 DEF Next, Serve

-----------------------------------------------------------------------------
(***************************************************************************)
(* The theorems.                                                           *)
(***************************************************************************)

\* Inv holds at all times: the codes that are valid or about to be stored, and the
\* uses of a token that are past or still to come, never exceed the requests that
\* password_service.py serves at once.
THEOREM Invariance == Spec => []Inv
<1>1. ASSUME Inv, [Next]_vars
      PROVE  Inv'
  BY <1>1, TypeStep, RowsStep, FlightStep, CodesStep, UsesStep DEF Inv
<1> QED BY InitInv, <1>1, PTL DEF Spec

LEMMA InvBoundsCodes == Inv => ValidCodesAreBounded
<1> SUFFICES ASSUME Inv, NEW a \in Accounts
             PROVE  Cardinality(ValidOf(a)) <= MaxInFlight
  BY DEF ValidCodesAreBounded
<1>1. /\ IsFiniteSet(ValidOf(a) \cup Storing(a))
      /\ Cardinality(ValidOf(a) \cup Storing(a)) <= MaxInFlight
  BY DEF Inv, CodesAreBounded
<1>2. ValidOf(a) \subseteq ValidOf(a) \cup Storing(a)
  OBVIOUS
<1> QED BY <1>1, <1>2, Within

LEMMA InvBoundsUses == Inv => TokenUsesAreBounded
<1> SUFFICES ASSUME Inv, NEW t \in Requests
             PROVE  uses[t] <= MaxInFlight
  BY DEF TokenUsesAreBounded
<1>1. IsFiniteSet(Presenting(t)) /\ uses[t] + Cardinality(Presenting(t)) <= MaxInFlight
  BY DEF Inv, UsesAreBounded
<1>2. uses[t] \in Nat /\ Cardinality(Presenting(t)) \in Nat
  BY <1>1, FS_CardinalityType DEF Inv, TypeOK
<1> QED BY <1>1, <1>2, ConstantsAssumption

\* An account never has more valid codes than requests that are served at once
\* (initiate_password_reset of password_service.py).
THEOREM CodesBounded == Spec => []ValidCodesAreBounded
BY Invariance, InvBoundsCodes, PTL

\* A token resets no more passwords than requests that are served at once
\* (reset_password of password_service.py).
THEOREM UsesBounded == Spec => []TokenUsesAreBounded
BY Invariance, InvBoundsUses, PTL

\* Of a server that serves one request after the other, a token resets one password,
\* as reset_password of password_service.py means it to.
THEOREM SingleUse ==
  ASSUME MaxInFlight = 1
  PROVE  Spec => []TokenUsedOnce
<1>1. Inv => TokenUsedOnce
  <2> SUFFICES ASSUME Inv, NEW t \in Requests
               PROVE  uses[t] <= 1
    BY DEF TokenUsedOnce
  <2> QED BY InvBoundsUses DEF TokenUsesAreBounded
<1> QED BY Invariance, <1>1, PTL

\* No request of password_service.py brings a used or invalidated token back, or
\* moves a token to another account or code.
THEOREM UsedForGood == Spec => TokensStayUsed
<1>1. Inv /\ [Next]_vars
        => [\A t \in Requests :
              tokens[t].account # NULL =>
                /\ tokens'[t].account = tokens[t].account /\ tokens'[t].code = tokens[t].code
                /\ tokens[t].used => tokens'[t].used]_vars
  BY StoredStays
<1> QED BY Invariance, <1>1, PTL DEF Spec, TokensStayUsed

=============================================================================
