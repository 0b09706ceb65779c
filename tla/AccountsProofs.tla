--------------------------- MODULE AccountsProofs ---------------------------
(***************************************************************************)
(* Proofs about Accounts for any accounts, numbers and workloads and any   *)
(* finite number of requests served at once.                               *)
(***************************************************************************)
EXTENDS Accounts, FiniteSetTheorems, TLAPS

LEMMA IdleType == Idle \in RequestState /\ Idle.pc = "idle" /\ Idle.op = "none"
BY ConstantsAssumption DEF Idle, RequestState, NoUser, UserRow, OrNull, Kinds

LEMMA Empty == IsFiniteSet({}) /\ Cardinality({}) = 0
BY FS_EmptySet

\* The requests that register with a number are some of the requests.
LEMMA Registering ==
  ASSUME NEW S \in SUBSET Requests
  PROVE  /\ IsFiniteSet(S) /\ Cardinality(S) \in Nat
         /\ Cardinality(Requests) \in Nat /\ Cardinality(S) <= Cardinality(Requests)
<1>1. IsFiniteSet(Requests)
  BY ConstantsAssumption
<1> QED BY <1>1, FS_Subset, FS_CardinalityType

LEMMA InitInv == Init => Inv
<1> SUFFICES ASSUME Init PROVE Inv
  OBVIOUS
<1>1. TypeOK
  <2>1. NoUser \in UserRow
    BY ConstantsAssumption DEF NoUser, UserRow, OrNull, Kinds
  <2> QED BY <2>1, IdleType DEF Init, TypeOK, ProfileState
<1>2. RequestsFit
  BY IdleType DEF Init, RequestsFit, Fits
<1>3. AbsentAreEmpty /\ ScriptAdministratorsStand /\ AccountsAreWhole
  BY DEF Init, AbsentAreEmpty, ScriptAdministratorsStand, AccountsAreWhole, NoUser, Kinds
<1>4. ASSUME NEW p \in Phones
      PROVE  RegisteredWith(p) = {} /\ RegisteringWith(p) = {}
  BY IdleType DEF Init, RegisteredWith, RegisteringWith, NoUser, Kinds
<1>5. NumbersAreBounded
  <2>1. {} \subseteq Requests
    OBVIOUS
  <2>2. Cardinality(Requests) \in Nat
    BY <2>1, Registering
  <2> QED BY <1>4, <2>2, Empty DEF NumbersAreBounded
<1> QED BY <1>1, <1>2, <1>3, <1>5 DEF Inv

-----------------------------------------------------------------------------
(***************************************************************************)
(* Requests.                                                               *)
(***************************************************************************)
LEMMA ReqType ==
  ASSUME TypeOK, NEW r \in Requests, NEW q \in RequestState, Proceed(r, q)
  PROVE  /\ req' \in [Requests -> RequestState] /\ req'[r] = q
         /\ \A x \in Requests \ {r} : req'[x] = req[x]
BY DEF TypeOK, Proceed

\* Requests still fit when rows keep their origin.
LEMMA FitStep ==
  ASSUME Inv, NEW r \in Requests, NEW q \in RequestState, Proceed(r, q), Fits(q)',
         \A a \in Accounts : Exists(a) => users'[a].origin = users[a].origin
  PROVE  RequestsFit'
<1> SUFFICES ASSUME NEW x \in Requests PROVE Fits(req[x])'
  BY DEF RequestsFit
<1>1. CASE x = r
  BY <1>1, ReqType DEF Inv, Fits, Exists
<1>2. CASE x # r
  <2>1. req'[x] = req[x] /\ Fits(req[x])
    BY <1>2, ReqType DEF Inv, RequestsFit
  <2> QED BY <2>1 DEF Fits, Exists, LeavesStatus
<1> QED BY <1>1, <1>2

\* A step that writes no table.
LEMMA ReadStep ==
  ASSUME Inv, NEW r \in Requests, NEW q \in RequestState, Proceed(r, q), Fits(q),
         UNCHANGED <<workload, Tables>>,
         q.op = "register" /\ q.pc \in {"role", "insert"} /\ q.phone \in Phones =>
           r \in RegisteringWith(q.phone) \/ RegisteredWith(q.phone) = {}
  PROVE  Inv'
<1> USE DEF Tables
<1>1. TypeOK'
  BY ReqType DEF Inv, TypeOK
<1>2. RequestsFit'
  BY FitStep DEF Fits, Exists, LeavesStatus
<1>3. AbsentAreEmpty' /\ ScriptAdministratorsStand' /\ AccountsAreWhole'
  BY DEF Inv, AbsentAreEmpty, Exists, ScriptAdministratorsStand, AccountsAreWhole
<1>4. ASSUME NEW p \in Phones
      PROVE  /\ IsFiniteSet(RegisteredWith(p)')
             /\ Cardinality(RegisteredWith(p)') + Cardinality(RegisteringWith(p)')
                  <= Cardinality(Requests)
  <2>1. RegisteredWith(p)' = RegisteredWith(p) /\ IsFiniteSet(RegisteredWith(p))
    BY DEF RegisteredWith, Inv, NumbersAreBounded
  <2>2. Cardinality(RegisteredWith(p)) \in Nat
    BY <2>1, FS_CardinalityType
  <2>3. RegisteringWith(p) \subseteq Requests /\ RegisteringWith(p)' \subseteq Requests
    BY DEF RegisteringWith
  <2>4. CASE RegisteredWith(p) = {}
    BY <2>1, <2>3, <2>4, Empty, Registering
  <2>5. CASE RegisteredWith(p) # {}
    <3>1. RegisteringWith(p)' \subseteq RegisteringWith(p)
      BY <2>5, ReqType DEF RegisteringWith, Inv
    <3>2. Cardinality(RegisteringWith(p)') <= Cardinality(RegisteringWith(p))
      BY <2>3, <3>1, Registering, FS_Subset
    <3>3. Cardinality(RegisteredWith(p)) + Cardinality(RegisteringWith(p))
            <= Cardinality(Requests)
      BY DEF Inv, NumbersAreBounded
    <3> QED BY <2>1, <2>2, <2>3, <3>2, <3>3, Registering
  <2> QED BY <2>4, <2>5
<1>5. NumbersAreBounded'
  BY <1>4 DEF NumbersAreBounded
<1> QED BY <1>1, <1>2, <1>3, <1>5 DEF Inv

-----------------------------------------------------------------------------
(***************************************************************************)
(* The requests that only look.                                            *)
(***************************************************************************)
LEMMA FinishStep ==
  ASSUME Inv, NEW r \in Requests, Finish(r), UNCHANGED <<workload, Tables>>
  PROVE  Inv'
<1>1. Fits(Idle)
  BY IdleType DEF Fits
<1> QED BY <1>1, IdleType, ReadStep DEF Finish

\* A request as it is with another program counter.
LEMMA GotoType ==
  ASSUME Inv, NEW r \in Requests,
         NEW pc \in {"role", "insert", "assign", "create", "fill"}, Goto(r, pc)
  PROVE  /\ [req[r] EXCEPT !.pc = pc] \in RequestState
         /\ Proceed(r, [req[r] EXCEPT !.pc = pc])
         /\ [req[r] EXCEPT !.pc = pc].pc = pc
BY DEF Inv, TypeOK, RequestState, Goto

LEMMA WorkloadType ==
  ASSUME Inv
  PROVE  /\ workload.accounts \subseteq Accounts
         /\ workload.kinds \subseteq Kinds
         /\ workload.phones \subseteq Phones
BY ConstantsAssumption DEF Inv, TypeOK

LEMMA RegisterGetEmailStep ==
  ASSUME Inv, NEW r \in Requests, RegisterGetEmail(r)
  PROVE  Inv'
<1>1. PICK a \in Accounts, k \in Kinds, p \in OrNull(Phones) :
        Proceed(r, [Idle EXCEPT !.pc = IF p = NULL THEN "role" ELSE "phone",
                                !.op = "register", !.account = a, !.kind = k, !.phone = p])
  BY WorkloadType DEF RegisterGetEmail, OrNull
<1> DEFINE q == [Idle EXCEPT !.pc = IF p = NULL THEN "role" ELSE "phone",
                             !.op = "register", !.account = a, !.kind = k, !.phone = p]
<1>2. /\ q.pc = IF p = NULL THEN "role" ELSE "phone"
      /\ q.op = "register" /\ q.account = a /\ q.kind = k /\ q.phone = p
  BY DEF Idle
<1>3. q \in RequestState
  BY <1>2, IdleType DEF RequestState, Operations, OrNull, Idle
<1>4. Fits(q)
  BY <1>2, ConstantsAssumption DEF Fits, OrNull
<1>5. ~(q.pc \in {"role", "insert"} /\ q.phone \in Phones)
  BY <1>2, ConstantsAssumption
<1>6. UNCHANGED <<workload, Tables>>
  BY DEF RegisterGetEmail
<1>7. Proceed(r, q)
  BY <1>1
<1> HIDE DEF q
<1> QED BY <1>3, <1>4, <1>5, <1>6, <1>7, ReadStep

LEMMA RegisterGetPhoneStep ==
  ASSUME Inv, NEW r \in Requests, RegisterGetPhone(r)
  PROVE  Inv'
<1>1. UNCHANGED <<workload, Tables>>
  BY DEF RegisterGetPhone
<1>2. CASE \E a \in Accounts : users[a].phone = req[r].phone
  BY <1>1, <1>2, FinishStep DEF RegisterGetPhone
<1>3. CASE ~\E a \in Accounts : users[a].phone = req[r].phone
  <2> DEFINE q == [req[r] EXCEPT !.pc = "role"]
  <2>1. Goto(r, "role")
    BY <1>3 DEF RegisterGetPhone
  <2>2. q \in RequestState /\ Proceed(r, q)
    BY <2>1, GotoType
  <2>3. req[r].pc = "phone" /\ Fits(req[r]) /\ req[r] \in RequestState
    BY DEF RegisterGetPhone, Inv, RequestsFit, TypeOK
  <2>4. q.pc = "role" /\ q.op = req[r].op /\ q.account = req[r].account
        /\ q.kind = req[r].kind /\ q.phone = req[r].phone
    BY <2>3 DEF RequestState
  <2>5. Fits(q)
    BY <2>3, <2>4 DEF Fits
  <2>6. RegisteredWith(q.phone) = {}
    BY <1>3, <2>4 DEF RegisteredWith
  <2> HIDE DEF q
  <2> QED BY <1>1, <2>2, <2>5, <2>6, ReadStep
<1> QED BY <1>2, <1>3

LEMMA RegisterGetRoleStep ==
  ASSUME Inv, NEW r \in Requests, RegisterGetRole(r)
  PROVE  Inv'
<1>1. UNCHANGED <<workload, Tables>>
  BY DEF RegisterGetRole
<1>2. CASE req[r].kind \notin roles
  BY <1>1, <1>2, FinishStep DEF RegisterGetRole
<1>3. CASE req[r].kind \in roles
  <2> DEFINE q == [req[r] EXCEPT !.pc = "insert"]
  <2>1. Goto(r, "insert")
    BY <1>3 DEF RegisterGetRole
  <2>2. q \in RequestState /\ Proceed(r, q)
    BY <2>1, GotoType
  <2>3. req[r].pc = "role" /\ Fits(req[r]) /\ req[r] \in RequestState
    BY DEF RegisterGetRole, Inv, RequestsFit, TypeOK
  <2>4. q.pc = "insert" /\ q.op = req[r].op /\ q.account = req[r].account
        /\ q.kind = req[r].kind /\ q.phone = req[r].phone
    BY <2>3 DEF RequestState
  <2>5. Fits(q)
    BY <2>3, <2>4 DEF Fits
  <2>6. q.phone \in Phones => r \in RegisteringWith(q.phone)
    BY <2>3, <2>4 DEF RegisteringWith, Fits
  <2> HIDE DEF q
  <2> QED BY <1>1, <2>2, <2>5, <2>6, ReadStep
<1> QED BY <1>2, <1>3

LEMMA ScriptGetEmailStep ==
  ASSUME Inv, NEW r \in Requests, ScriptGetEmail(r)
  PROVE  Inv'
<1>1. PICK op \in {"create_admin", "seed_data"}, a \in Accounts, p \in OrNull(Phones) :
        Proceed(r, [Idle EXCEPT !.pc = "insert", !.op = op, !.account = a, !.phone = p])
  BY WorkloadType DEF ScriptGetEmail, OrNull
<1> DEFINE q == [Idle EXCEPT !.pc = "insert", !.op = op, !.account = a, !.phone = p]
<1>2. q \in RequestState /\ q.pc = "insert" /\ q.op = op /\ q.account = a
  BY IdleType DEF RequestState, Operations, OrNull, Idle
<1>3. Fits(q)
  BY <1>2 DEF Fits
<1>4. UNCHANGED <<workload, Tables>> /\ Proceed(r, q)
  BY <1>1 DEF ScriptGetEmail
<1> HIDE DEF q
<1> QED BY <1>2, <1>3, <1>4, ReadStep

LEMMA Loadable ==
  ASSUME Inv, NEW a \in Accounts
  PROVE  users[a] \in UserRow /\ (users[a].active => Exists(a))
<1>1. users[a] \in UserRow
  BY DEF Inv, TypeOK
<1>2. ~Exists(a) => users[a] = NoUser
  BY DEF Inv, AbsentAreEmpty
<1> QED BY <1>1, <1>2 DEF NoUser

LEMMA ProfileGetUserStep ==
  ASSUME Inv, NEW r \in Requests, ProfileGetUser(r)
  PROVE  Inv'
<1>1. PICK op \in {"get_profile", "save_profile"}, a \in Accounts, k \in Kinds :
        /\ users[a].active
        /\ Proceed(r, [Idle EXCEPT !.pc = "select", !.op = op, !.account = a, !.kind = k])
  BY WorkloadType DEF ProfileGetUser
<1> DEFINE q == [Idle EXCEPT !.pc = "select", !.op = op, !.account = a, !.kind = k]
<1>2. q \in RequestState /\ q.pc = "select" /\ q.op = op /\ q.account = a /\ q.kind = k
  BY IdleType DEF RequestState, Operations, OrNull, Idle
<1>3. Fits(q)
  BY <1>1, <1>2, Loadable DEF Fits
<1>4. UNCHANGED <<workload, Tables>> /\ Proceed(r, q)
  BY <1>1 DEF ProfileGetUser
<1> HIDE DEF q
<1> QED BY <1>2, <1>3, <1>4, ReadStep

\* An update that has loaded its row.
LEMMA LoadStep ==
  ASSUME Inv, NEW r \in Requests, NEW q \in RequestState, Proceed(r, q),
         q.pc = "write", q.op # "register", q.account \in Accounts, Exists(q.account),
         q.seen = users[q.account],
         users[q.account].role = "administrator" => LeavesStatus(q),
         UNCHANGED <<workload, Tables>>
  PROVE  Inv'
<1>1. Fits(q)
  BY DEF Inv, Fits, ScriptAdministratorsStand
<1> QED BY <1>1, ReadStep

LEMMA InfoLoadStep ==
  ASSUME Inv, NEW r \in Requests, InfoLoad(r)
  PROVE  Inv'
<1>1. PICK a \in Accounts, p \in Phones :
        /\ users[a].active
        /\ Proceed(r, [Idle EXCEPT !.pc = "write", !.op = "info", !.account = a,
                                   !.seen = users[a], !.phone = p])
  BY WorkloadType DEF InfoLoad
<1> DEFINE q == [Idle EXCEPT !.pc = "write", !.op = "info", !.account = a,
                             !.seen = users[a], !.phone = p]
<1>2. Exists(a) /\ users[a] \in UserRow
  BY <1>1, Loadable
<1>3. /\ q \in RequestState /\ q.pc = "write" /\ q.op = "info" /\ q.account = a
      /\ q.seen = users[a] /\ LeavesStatus(q)
  BY <1>2, IdleType DEF RequestState, Operations, OrNull, Idle, LeavesStatus
<1>4. UNCHANGED <<workload, Tables>> /\ Proceed(r, q)
  BY <1>1 DEF InfoLoad
<1> HIDE DEF q
<1> QED BY <1>2, <1>3, <1>4, LoadStep

LEMMA StatusLoadStep ==
  ASSUME Inv, NEW r \in Requests, StatusLoad(r)
  PROVE  Inv'
<1>1. PICK a \in Accounts, active \in OrNull(BOOLEAN), verified \in OrNull(BOOLEAN) :
        /\ Exists(a) /\ users[a].role # "administrator"
        /\ Proceed(r, [Idle EXCEPT !.pc = "write", !.op = "status", !.account = a,
                          !.seen = users[a], !.active = active, !.verified = verified])
  BY WorkloadType DEF StatusLoad
<1> DEFINE q == [Idle EXCEPT !.pc = "write", !.op = "status", !.account = a,
                   !.seen = users[a], !.active = active, !.verified = verified]
<1>2. users[a] \in UserRow
  BY Loadable
<1>3. /\ q \in RequestState /\ q.pc = "write" /\ q.op = "status" /\ q.account = a
      /\ q.seen = users[a]
  BY <1>2, IdleType DEF RequestState, Operations, OrNull, Idle
<1>4. UNCHANGED <<workload, Tables>> /\ Proceed(r, q)
  BY <1>1 DEF StatusLoad
<1> HIDE DEF q
<1> QED BY <1>1, <1>3, <1>4, LoadStep

LEMMA VerificationLoadStep ==
  ASSUME Inv, NEW r \in Requests, VerificationLoad(r)
  PROVE  Inv'
<1>1. PICK a \in Accounts, verified \in BOOLEAN :
        /\ Exists(a) /\ users[a].role = "operator"
        /\ Proceed(r, [Idle EXCEPT !.pc = "write", !.op = "verification", !.account = a,
                                   !.seen = users[a], !.verified = verified])
  BY WorkloadType DEF VerificationLoad
<1> DEFINE q == [Idle EXCEPT !.pc = "write", !.op = "verification", !.account = a,
                             !.seen = users[a], !.verified = verified]
<1>2. users[a] \in UserRow
  BY Loadable
<1>3. /\ q \in RequestState /\ q.pc = "write" /\ q.op = "verification" /\ q.account = a
      /\ q.seen = users[a]
  BY <1>2, IdleType DEF RequestState, Operations, OrNull, Idle
<1>4. UNCHANGED <<workload, Tables>> /\ Proceed(r, q)
  BY <1>1 DEF VerificationLoad
<1> HIDE DEF q
<1> QED BY <1>1, <1>3, <1>4, LoadStep

LEMMA RoleLoadStep ==
  ASSUME Inv, NEW r \in Requests, RoleLoad(r)
  PROVE  Inv'
<1>1. PICK a \in Accounts, role \in UserRoles :
        /\ Exists(a) /\ users[a].role # "administrator"
        /\ Proceed(r, [Idle EXCEPT !.pc = "write", !.op = "role", !.account = a,
                                   !.seen = users[a], !.role = role])
  BY WorkloadType DEF RoleLoad
<1> DEFINE q == [Idle EXCEPT !.pc = "write", !.op = "role", !.account = a,
                             !.seen = users[a], !.role = role]
<1>2. users[a] \in UserRow
  BY Loadable
<1>3. /\ q \in RequestState /\ q.pc = "write" /\ q.op = "role" /\ q.account = a
      /\ q.seen = users[a]
  BY <1>2, IdleType DEF RequestState, Operations, OrNull, Idle
<1>4. UNCHANGED <<workload, Tables>> /\ Proceed(r, q)
  BY <1>1 DEF RoleLoad
<1> HIDE DEF q
<1> QED BY <1>1, <1>3, <1>4, LoadStep

-----------------------------------------------------------------------------
(***************************************************************************)
(* The requests that write.                                                *)
(***************************************************************************)

\* Numbers stay bounded when neither their holders nor those who are about to
\* become one are more.
LEMMA FewerNumbers ==
  ASSUME Inv,
         \A p \in Phones : /\ RegisteredWith(p)' \subseteq RegisteredWith(p)
                           /\ RegisteringWith(p)' \subseteq RegisteringWith(p)
  PROVE  NumbersAreBounded'
<1> SUFFICES ASSUME NEW p \in Phones
             PROVE  /\ IsFiniteSet(RegisteredWith(p)')
                    /\ Cardinality(RegisteredWith(p)') + Cardinality(RegisteringWith(p)')
                         <= Cardinality(Requests)
  BY DEF NumbersAreBounded
<1>1. /\ IsFiniteSet(RegisteredWith(p))
      /\ Cardinality(RegisteredWith(p)) + Cardinality(RegisteringWith(p))
           <= Cardinality(Requests)
  BY DEF Inv, NumbersAreBounded
<1>2. RegisteringWith(p) \subseteq Requests
  BY DEF RegisteringWith
<1>3. /\ IsFiniteSet(RegisteredWith(p)')
      /\ Cardinality(RegisteredWith(p)') <= Cardinality(RegisteredWith(p))
      /\ Cardinality(RegisteringWith(p)') <= Cardinality(RegisteringWith(p))
  BY <1>1, <1>2, Registering, FS_Subset
<1>4. /\ Cardinality(RegisteredWith(p)) \in Nat /\ Cardinality(RegisteredWith(p)') \in Nat
      /\ Cardinality(RegisteringWith(p)) \in Nat /\ Cardinality(RegisteringWith(p)') \in Nat
      /\ Cardinality(Requests) \in Nat
  BY <1>1, <1>2, <1>3, Registering, FS_CardinalityType
<1> QED BY <1>1, <1>3, <1>4

LEMMA ProfileSelectStep ==
  ASSUME Inv, NEW r \in Requests, ProfileSelect(r)
  PROVE  Inv'
<1>1. UNCHANGED <<workload, Tables>>
  BY DEF ProfileSelect
<1>2. req[r].pc = "select" /\ Fits(req[r]) /\ req[r] \in RequestState
  BY DEF ProfileSelect, Inv, RequestsFit, TypeOK
<1>3. ASSUME NEW pc \in {"create", "fill"}, Goto(r, pc)
      PROVE  Inv'
  <2> DEFINE q == [req[r] EXCEPT !.pc = pc]
  <2>1. q \in RequestState /\ Proceed(r, q) /\ q.pc = pc
    BY <1>3, GotoType
  <2>2. q.op = req[r].op /\ q.account = req[r].account /\ q.kind = req[r].kind
    BY <1>2 DEF RequestState
  <2>3. Fits(q)
    BY <1>2, <2>1, <2>2 DEF Fits
  <2> HIDE DEF q
  <2> QED BY <1>1, <2>1, <2>3, ReadStep
<1>4. Finish(r) \/ Goto(r, "create") \/ Goto(r, "fill")
  BY DEF ProfileSelect, Got
<1> QED BY <1>1, <1>3, <1>4, FinishStep

LEMMA WriteStep ==
  ASSUME Inv, NEW r \in Requests, NEW q \in RequestState, Proceed(r, q), Fits(q)',
         workload' = workload, roles' \subseteq RoleCodes,
         users' \in [Accounts -> UserRow],
         profiles' \in [Accounts -> [Kinds -> ProfileState]], entered' \subseteq Accounts,
         \A a \in Accounts : Exists(a) => users'[a].origin = users[a].origin,
         AbsentAreEmpty', NumbersAreBounded', ScriptAdministratorsStand', AccountsAreWhole'
  PROVE  Inv'
<1>1. TypeOK'
  BY ReqType DEF Inv, TypeOK
<1>2. RequestsFit'
  BY FitStep
<1> QED BY <1>1, <1>2 DEF Inv

\* A request that ends, or goes on without registering, adds to no number.
LEMMA NotRegistering ==
  ASSUME Inv, NEW r \in Requests, NEW q \in RequestState, Proceed(r, q),
         q.op # "register" \/ q.pc \notin {"role", "insert"}, NEW p
  PROVE  RegisteringWith(p)' \subseteq RegisteringWith(p) \ {r}
BY ReqType DEF Inv, RegisteringWith

LEMMA RegisterInsertStep ==
  ASSUME Inv, NEW r \in Requests, RegisterInsert(r)
  PROVE  Inv'
<1> DEFINE a == req[r].account
           k == req[r].kind
           row == [origin |-> k, phone |-> req[r].phone, role |-> k, active |-> TRUE,
                   verified |-> k = "tourist", assigned |-> {k}]
<1>1. Finish(r) /\ workload' = workload /\ roles' = roles /\ entered' = entered
  BY DEF RegisterInsert
<1>2. CASE ~(~Exists(a) /\ k \in roles)
  <2>1. UNCHANGED <<workload, Tables>>
    BY <1>1, <1>2 DEF RegisterInsert, Tables
  <2> QED BY <1>1, <2>1, FinishStep
<1>3. CASE ~Exists(a) /\ k \in roles
  <2>1. /\ req[r] \in RequestState /\ req[r].pc = "insert" /\ req[r].op = "register"
        /\ a \in Accounts /\ k \in Kinds
    BY DEF Inv, TypeOK, RequestsFit, Fits, RegisterInsert
  <2>2. /\ users' = [users EXCEPT ![a] = row]
        /\ profiles' = [profiles EXCEPT ![a][k] = "blank"]
    BY <1>3 DEF RegisterInsert
  <2>3. row \in UserRow
    BY <2>1, ConstantsAssumption DEF UserRow, RequestState, RoleCodes, Kinds
  <2> HIDE DEF row
  <2>4. users' \in [Accounts -> UserRow] /\ users'[a] = row
        /\ \A b \in Accounts \ {a} : users'[b] = users[b]
    BY <2>1, <2>2, <2>3 DEF Inv, TypeOK
  <2>5. profiles' \in [Accounts -> [Kinds -> ProfileState]] /\ profiles'[a][k] = "blank"
        /\ \A b \in Accounts \ {a} : profiles'[b] = profiles[b]
    BY <2>1, <2>2 DEF Inv, TypeOK, ProfileState
  <2>6. /\ row.origin = k /\ row.phone = req[r].phone /\ row.assigned = {k}
        /\ row.origin \notin {"absent", "script"}
    BY <2>1 DEF row, Kinds
  <2>7. \A b \in Accounts : Exists(b) => users'[b].origin = users[b].origin
    BY <1>3, <2>4
  <2>8. AbsentAreEmpty'
    BY <2>4, <2>6 DEF Inv, AbsentAreEmpty, Exists
  <2>9. ScriptAdministratorsStand'
    BY <2>4, <2>6 DEF Inv, ScriptAdministratorsStand
  <2>10. AccountsAreWhole'
    BY <1>1, <1>3, <2>1, <2>4, <2>5, <2>6 DEF Inv, AccountsAreWhole, Exists
  <2>11. ASSUME NEW p \in Phones
         PROVE  /\ IsFiniteSet(RegisteredWith(p)')
                /\ Cardinality(RegisteredWith(p)') + Cardinality(RegisteringWith(p)')
                     <= Cardinality(Requests)
    <3>1. /\ IsFiniteSet(RegisteredWith(p))
          /\ Cardinality(RegisteredWith(p)) + Cardinality(RegisteringWith(p))
               <= Cardinality(Requests)
      BY DEF Inv, NumbersAreBounded
    <3>2. RegisteringWith(p)' \subseteq RegisteringWith(p) \ {r}
      BY <1>1, IdleType, NotRegistering DEF Finish
    <3>3. RegisteringWith(p) \subseteq Requests
      BY DEF RegisteringWith
    <3>4. CASE req[r].phone = p
      <4>1. r \in RegisteringWith(p)
        BY <2>1, <3>4 DEF RegisteringWith
      <4>2. Cardinality(RegisteringWith(p) \ {r}) = Cardinality(RegisteringWith(p)) - 1
        BY <3>3, <4>1, Registering, FS_RemoveElement
      <4>3. Cardinality(RegisteringWith(p)') <= Cardinality(RegisteringWith(p)) - 1
        BY <3>2, <3>3, <4>2, Registering, FS_Subset
      <4>4. RegisteredWith(p)' \subseteq RegisteredWith(p) \cup {a}
        BY <1>1, <2>4 DEF RegisteredWith
      <4>5. a \notin RegisteredWith(p)
        BY <1>3 DEF RegisteredWith, Exists, Kinds
      <4>6. /\ IsFiniteSet(RegisteredWith(p) \cup {a})
            /\ Cardinality(RegisteredWith(p) \cup {a}) = Cardinality(RegisteredWith(p)) + 1
        BY <3>1, <4>5, FS_AddElement
      <4>7. /\ IsFiniteSet(RegisteredWith(p)')
            /\ Cardinality(RegisteredWith(p)') <= Cardinality(RegisteredWith(p)) + 1
        BY <4>4, <4>6, FS_Subset
      <4>8. /\ Cardinality(RegisteredWith(p)) \in Nat /\ Cardinality(RegisteredWith(p)') \in Nat
            /\ Cardinality(RegisteringWith(p)) \in Nat
            /\ Cardinality(RegisteringWith(p)') \in Nat /\ Cardinality(Requests) \in Nat
        BY <3>1, <3>2, <3>3, <4>7, Registering, FS_CardinalityType
      <4> QED BY <3>1, <4>3, <4>7, <4>8
    <3>5. CASE req[r].phone # p
      <4>1. RegisteredWith(p)' \subseteq RegisteredWith(p)
        BY <1>1, <2>4, <2>6, <3>5 DEF RegisteredWith
      <4>2. /\ IsFiniteSet(RegisteredWith(p)')
            /\ Cardinality(RegisteredWith(p)') <= Cardinality(RegisteredWith(p))
            /\ Cardinality(RegisteringWith(p)') <= Cardinality(RegisteringWith(p))
        BY <3>1, <3>2, <3>3, <4>1, Registering, FS_Subset
      <4>3. /\ Cardinality(RegisteredWith(p)) \in Nat /\ Cardinality(RegisteredWith(p)') \in Nat
            /\ Cardinality(RegisteringWith(p)) \in Nat
            /\ Cardinality(RegisteringWith(p)') \in Nat /\ Cardinality(Requests) \in Nat
        BY <3>1, <3>2, <3>3, <4>2, Registering, FS_CardinalityType
      <4> QED BY <3>1, <4>2, <4>3
    <3> QED BY <3>4, <3>5
  <2>12. NumbersAreBounded'
    BY <2>11 DEF NumbersAreBounded
  <2>13. Fits(Idle)' /\ roles' \subseteq RoleCodes /\ entered' \subseteq Accounts
    BY <1>1, IdleType DEF Fits, Inv, TypeOK
  <2> QED BY <1>1, <2>4, <2>5, <2>7, <2>8, <2>9, <2>10, <2>12, <2>13, IdleType, WriteStep DEF Finish
<1> QED BY <1>2, <1>3

LEMMA ScriptInsertStep ==
  ASSUME Inv, NEW r \in Requests, ScriptInsert(r)
  PROVE  Inv'
<1> DEFINE a == req[r].account
           row == [origin |-> "script", phone |-> req[r].phone, role |-> "administrator",
                   active |-> TRUE, verified |-> TRUE, assigned |-> {}]
<1>1. /\ req[r] \in RequestState /\ req[r].pc = "insert" /\ req[r].op # "register"
      /\ a \in Accounts /\ Fits(req[r])
  BY DEF Inv, TypeOK, RequestsFit, Fits, ScriptInsert
<1>2. UNCHANGED <<workload, roles, profiles, entered>>
  BY DEF ScriptInsert
<1>3. CASE Exists(a)
  BY <1>2, <1>3, FinishStep DEF ScriptInsert, Tables
<1>4. CASE ~Exists(a)
  <2>1. users' = [users EXCEPT ![a] = row] /\ (Goto(r, "assign") \/ Finish(r))
    BY <1>4 DEF ScriptInsert
  <2>2. row \in UserRow
    BY <1>1, ConstantsAssumption DEF UserRow, RequestState
  <2>3. row.origin = "script" /\ row.role = "administrator" /\ row.active /\ row.verified
        /\ row.assigned = {}
    OBVIOUS
  <2> HIDE DEF row
  <2>4. users' \in [Accounts -> UserRow] /\ users'[a] = row
        /\ \A b \in Accounts \ {a} : users'[b] = users[b]
    BY <1>1, <2>1, <2>2 DEF Inv, TypeOK
  <2>5. PICK q \in RequestState :
          /\ Proceed(r, q) /\ q.pc \notin {"role", "insert"}
          /\ Fits(q)'
    <3>1. CASE Finish(r)
      <4>1. Fits(Idle)'
        BY IdleType DEF Fits
      <4> QED BY <3>1, <4>1, IdleType DEF Finish
    <3>2. CASE Goto(r, "assign")
      <4>1. PICK q \in RequestState : /\ Proceed(r, q) /\ q.pc = "assign"
                                      /\ q = [req[r] EXCEPT !.pc = "assign"]
        BY <3>2, GotoType
      <4>2. q.op = req[r].op /\ q.account = a
        BY <1>1, <4>1 DEF RequestState
      <4>3. Fits(q)'
        BY <1>1, <2>3, <2>4, <4>1, <4>2 DEF Fits
      <4> QED BY <4>1, <4>3
    <3> QED BY <2>1, <3>1, <3>2
  <2>6. \A b \in Accounts : Exists(b) => users'[b].origin = users[b].origin
    BY <1>4, <2>4
  <2>7. AbsentAreEmpty' /\ ScriptAdministratorsStand' /\ AccountsAreWhole'
    BY <1>2, <1>4, <2>3, <2>4
    DEF Inv, AbsentAreEmpty, Exists, ScriptAdministratorsStand, AccountsAreWhole, Kinds
  <2>8. \A p \in Phones : /\ RegisteredWith(p)' \subseteq RegisteredWith(p)
                          /\ RegisteringWith(p)' \subseteq RegisteringWith(p)
    BY <1>2, <2>3, <2>4, <2>5, NotRegistering DEF RegisteredWith, Kinds
  <2>9. NumbersAreBounded'
    BY <2>8, FewerNumbers
  <2> QED BY <1>2, <2>4, <2>5, <2>6, <2>7, <2>9, WriteStep DEF Inv, TypeOK
<1> QED BY <1>3, <1>4

\* A request that ends with a write that keeps origins and adds nobody to a number.
LEMMA LastStep ==
  ASSUME Inv, NEW r \in Requests, NEW q \in RequestState, Proceed(r, q),
         q.pc \notin {"role", "insert"}, Fits(q)',
         workload' = workload, roles' \subseteq RoleCodes,
         users' \in [Accounts -> UserRow],
         profiles' \in [Accounts -> [Kinds -> ProfileState]], entered' \subseteq Accounts,
         \A a \in Accounts : users'[a].origin = users[a].origin,
         \A a \in Accounts : users'[a].phone = users[a].phone \/ a \in entered',
         entered \subseteq entered',
         AbsentAreEmpty', ScriptAdministratorsStand', AccountsAreWhole'
  PROVE  Inv'
<1>1. \A p \in Phones : /\ RegisteredWith(p)' \subseteq RegisteredWith(p)
                        /\ RegisteringWith(p)' \subseteq RegisteringWith(p)
  BY NotRegistering DEF RegisteredWith
<1>2. NumbersAreBounded'
  BY <1>1, FewerNumbers
<1> QED BY <1>2, WriteStep

LEMMA ScriptAssignStep ==
  ASSUME Inv, NEW r \in Requests, ScriptAssign(r)
  PROVE  Inv'
<1> DEFINE a == req[r].account
           codes == users[a].assigned \cup ({"super_admin"} \cap roles)
<1>1. /\ Fits(req[r]) /\ a \in Accounts /\ users[a].origin = "script"
  BY DEF Inv, RequestsFit, Fits, ScriptAssign
<1>2. /\ UNCHANGED <<workload, roles, profiles, entered>> /\ Finish(r)
      /\ users' = [users EXCEPT ![a].assigned = codes]
  BY DEF ScriptAssign
<1>3. users[a] \in UserRow /\ codes \subseteq RoleCodes
  BY <1>1 DEF Inv, TypeOK, UserRow
<1>4. codes \subseteq roles /\ codes \subseteq {users[a].origin, "super_admin"}
  BY <1>1 DEF Inv, AccountsAreWhole, Exists
<1> HIDE DEF codes
<1>5. /\ users' \in [Accounts -> UserRow]
      /\ \A b \in Accounts \ {a} : users'[b] = users[b]
      /\ users'[a].origin = users[a].origin /\ users'[a].phone = users[a].phone
      /\ users'[a].role = users[a].role /\ users'[a].active = users[a].active
      /\ users'[a].verified = users[a].verified /\ users'[a].assigned = codes
  BY <1>1, <1>2, <1>3 DEF Inv, TypeOK, UserRow
<1>6. AbsentAreEmpty'
  BY <1>1, <1>5 DEF Inv, AbsentAreEmpty, Exists
<1>7. ScriptAdministratorsStand'
  BY <1>5 DEF Inv, ScriptAdministratorsStand
<1>8. AccountsAreWhole'
  BY <1>1, <1>2, <1>4, <1>5 DEF Inv, AccountsAreWhole, Exists
<1>9. Fits(Idle)' /\ entered' = entered /\ entered \subseteq Accounts
  BY <1>2, IdleType DEF Fits, Inv, TypeOK
<1> QED BY <1>2, <1>5, <1>6, <1>7, <1>8, <1>9, IdleType, LastStep DEF Finish, Inv, TypeOK

LEMMA UpdateWriteStep ==
  ASSUME Inv, NEW r \in Requests, UpdateWrite(r)
  PROVE  /\ Inv'
         /\ \A b \in Accounts : req[r].seen.role = "administrator" \/ b # req[r].account =>
              /\ users'[b].role = users[b].role
              /\ users'[b].active = users[b].active
              /\ users'[b].verified = users[b].verified
<1> DEFINE q == req[r]
           a == req[r].account
           p == Changed(q.phone, q.seen.phone, users[a].phone)
           o == Changed(q.role, q.seen.role, users[a].role)
           c == Changed(q.active, q.seen.active, users[a].active)
           v == Changed(q.verified, q.seen.verified, users[a].verified)
<1>1. /\ Fits(q) /\ q \in RequestState /\ q.pc = "write" /\ a \in Accounts /\ Exists(a)
      /\ users[a].origin = "script" => LeavesStatus(q)
      /\ q.seen.role = "administrator" => LeavesStatus(q)
  BY DEF Inv, TypeOK, RequestsFit, Fits, UpdateWrite
<1>2. /\ UNCHANGED <<workload, roles, profiles>> /\ Finish(r)
      /\ entered' = IF q.phone \notin {NULL, q.seen.phone} THEN entered \cup {a} ELSE entered
  BY DEF UpdateWrite
<1>3. users[a] \in UserRow /\ users \in [Accounts -> UserRow]
  BY <1>1 DEF Inv, TypeOK
<1>4. users' = [users EXCEPT ![a] = [users[a] EXCEPT !.phone = p, !.role = o,
                                                     !.active = c, !.verified = v]]
  BY Zenon DEF UpdateWrite
<1>5. p \in OrNull(Phones) /\ o \in UserRoles /\ c \in BOOLEAN /\ v \in BOOLEAN
  BY <1>1, <1>3 DEF Changed, RequestState, UserRow, OrNull
<1>6. LeavesStatus(q) => o = users[a].role /\ c = users[a].active /\ v = users[a].verified
  BY DEF Changed, LeavesStatus
<1>7. p = users[a].phone \/ a \in entered'
  BY <1>2 DEF Changed
<1> HIDE DEF p, o, c, v
<1>8. /\ users' \in [Accounts -> UserRow]
      /\ \A b \in Accounts \ {a} : users'[b] = users[b]
      /\ users'[a].origin = users[a].origin /\ users'[a].assigned = users[a].assigned
      /\ users'[a].phone = p /\ users'[a].role = o
      /\ users'[a].active = c /\ users'[a].verified = v
  BY <1>1, <1>3, <1>4, <1>5 DEF UserRow
<1>9. AbsentAreEmpty'
  BY <1>1, <1>8 DEF Inv, AbsentAreEmpty, Exists
<1>10. ScriptAdministratorsStand'
  <2> SUFFICES ASSUME NEW b \in Accounts, users'[b].origin = "script"
               PROVE  users'[b].role = "administrator" /\ users'[b].active /\ users'[b].verified
    BY DEF ScriptAdministratorsStand
  <2>1. users[b].origin = "script"
    BY <1>8
  <2>2. users[b].role = "administrator" /\ users[b].active /\ users[b].verified
    BY <2>1 DEF Inv, ScriptAdministratorsStand
  <2>3. CASE b # a
    BY <1>8, <2>2, <2>3
  <2>4. CASE b = a
    <3>1. LeavesStatus(q)
      BY <1>1, <2>1, <2>4
    <3> QED BY <1>6, <1>8, <2>2, <2>4, <3>1
  <2> QED BY <2>3, <2>4
<1>11. AccountsAreWhole'
  BY <1>2, <1>8 DEF Inv, AccountsAreWhole, Exists
<1>12. Fits(Idle)' /\ entered \subseteq entered' /\ entered' \subseteq Accounts
  BY <1>1, <1>2, IdleType DEF Fits, Inv, TypeOK
<1>13. Inv'
  BY <1>1, <1>2, <1>7, <1>8, <1>9, <1>10, <1>11, <1>12, IdleType, LastStep
  DEF Finish, Inv, TypeOK
<1> QED BY <1>1, <1>6, <1>8, <1>13

LEMMA ProfileCreateStep ==
  ASSUME Inv, NEW r \in Requests, ProfileCreate(r)
  PROVE  /\ Inv'
         /\ \A a \in Accounts, k \in Kinds :
              profiles[a][k] # "none" => profiles'[a][k] = profiles[a][k]
<1> DEFINE a == req[r].account
           k == req[r].kind
<1>1. /\ Fits(req[r]) /\ req[r] \in RequestState /\ req[r].pc = "create"
      /\ a \in Accounts /\ k \in Kinds /\ Exists(a)
      /\ UNCHANGED <<workload, roles, users, entered>>
  BY DEF Inv, TypeOK, RequestsFit, Fits, ProfileCreate
<1>2. CASE profiles[a][k] # "none"
  <2>1. Finish(r) /\ profiles' = profiles
    BY <1>2 DEF ProfileCreate
  <2> QED BY <1>1, <2>1, FinishStep DEF Tables
<1>3. CASE profiles[a][k] = "none"
  <2>1. profiles' = [profiles EXCEPT ![a][k] = "blank"] /\ (Goto(r, "fill") \/ Finish(r))
    BY <1>3 DEF ProfileCreate, Got
  <2>2. /\ profiles' \in [Accounts -> [Kinds -> ProfileState]]
        /\ \A b \in Accounts, c \in Kinds :
             profiles'[b][c] # profiles[b][c] => b = a /\ c = k /\ profiles'[b][c] = "blank"
    BY <1>1, <2>1 DEF Inv, TypeOK, ProfileState
  <2>3. PICK q \in RequestState : Proceed(r, q) /\ q.pc \notin {"role", "insert"} /\ Fits(q)'
    <3>1. CASE Finish(r)
      <4>1. Fits(Idle)'
        BY IdleType DEF Fits
      <4> QED BY <3>1, <4>1, IdleType DEF Finish
    <3>2. CASE Goto(r, "fill")
      <4>1. PICK q \in RequestState : /\ Proceed(r, q) /\ q.pc = "fill"
                                      /\ q = [req[r] EXCEPT !.pc = "fill"]
        BY <3>2, GotoType
      <4>2. q.op = req[r].op /\ q.account = a /\ q.kind = k
        BY <1>1, <4>1 DEF RequestState
      <4>3. Fits(q)'
        BY <1>1, <4>1, <4>2 DEF Fits, Exists
      <4> QED BY <4>1, <4>3
    <3> QED BY <2>1, <3>1, <3>2
  <2>4. AbsentAreEmpty' /\ ScriptAdministratorsStand'
    BY <1>1 DEF Inv, AbsentAreEmpty, Exists, ScriptAdministratorsStand
  <2>5. AccountsAreWhole'
    <3> SUFFICES ASSUME NEW b \in Accounts
                 PROVE  /\ users[b].origin \in Kinds => profiles'[b][users[b].origin] # "none"
                        /\ \A c \in Kinds : profiles'[b][c] # "none" => Exists(b)
      BY <1>1 DEF Inv, AccountsAreWhole, Exists
    <3>1. /\ users[b].origin \in Kinds => profiles[b][users[b].origin] # "none"
          /\ \A c \in Kinds : profiles[b][c] # "none" => Exists(b)
      BY DEF Inv, AccountsAreWhole
    <3> QED BY <1>1, <2>2, <3>1
  <2>6. Inv'
    BY <1>1, <2>2, <2>3, <2>4, <2>5, LastStep DEF Inv, TypeOK
  <2>7. \A b \in Accounts, c \in Kinds :
          profiles[b][c] # "none" => profiles'[b][c] = profiles[b][c]
    BY <1>3, <2>2
  <2> QED BY <2>6, <2>7
<1> QED BY <1>2, <1>3

LEMMA ProfileFillStep ==
  ASSUME Inv, NEW r \in Requests, ProfileFill(r)
  PROVE  /\ Inv'
         /\ \A a \in Accounts, k \in Kinds :
              profiles'[a][k] = profiles[a][k] \/ profiles'[a][k] = "filled"
<1> DEFINE a == req[r].account
           k == req[r].kind
<1>1. /\ a \in Accounts /\ k \in Kinds /\ Exists(a) /\ Finish(r)
      /\ UNCHANGED <<workload, roles, users, entered>>
      /\ profiles' = [profiles EXCEPT ![a][k] = "filled"]
  BY DEF Inv, RequestsFit, Fits, ProfileFill
<1>2. /\ profiles' \in [Accounts -> [Kinds -> ProfileState]]
      /\ \A b \in Accounts, c \in Kinds :
           \/ profiles'[b][c] = profiles[b][c]
           \/ b = a /\ c = k /\ profiles'[b][c] = "filled"
  BY <1>1 DEF Inv, TypeOK, ProfileState
<1>3. AbsentAreEmpty' /\ ScriptAdministratorsStand'
  BY <1>1 DEF Inv, AbsentAreEmpty, Exists, ScriptAdministratorsStand
<1>4. AccountsAreWhole'
  <2> SUFFICES ASSUME NEW b \in Accounts
               PROVE  /\ users[b].origin \in Kinds => profiles'[b][users[b].origin] # "none"
                      /\ \A c \in Kinds : profiles'[b][c] # "none" => Exists(b)
    BY <1>1 DEF Inv, AccountsAreWhole, Exists
  <2>1. /\ users[b].origin \in Kinds => profiles[b][users[b].origin] # "none"
        /\ \A c \in Kinds : profiles[b][c] # "none" => Exists(b)
    BY DEF Inv, AccountsAreWhole
  <2> QED BY <1>1, <1>2, <2>1
<1>5. Fits(Idle)'
  BY IdleType DEF Fits
<1> QED BY <1>1, <1>2, <1>3, <1>4, <1>5, IdleType, LastStep DEF Finish, Inv, TypeOK

-----------------------------------------------------------------------------
(***************************************************************************)
(* Roles.                                                                  *)
(***************************************************************************)
LEMMA RolesStep ==
  ASSUME Inv, UNCHANGED <<workload, profiles, req, entered>>, roles' \subseteq RoleCodes,
         users' \in [Accounts -> UserRow],
         \A a \in Accounts : /\ users'[a].origin = users[a].origin
                             /\ users'[a].phone = users[a].phone
                             /\ users'[a].role = users[a].role
                             /\ users'[a].active = users[a].active
                             /\ users'[a].verified = users[a].verified
                             /\ users'[a].assigned \subseteq
                                  roles' \cap (users[a].assigned \cup {"super_admin"})
                             /\ ~Exists(a) => users'[a] = NoUser
  PROVE  Inv'
<1>1. TypeOK'
  BY DEF Inv, TypeOK
<1>2. RequestsFit'
  BY DEF Inv, RequestsFit, TypeOK, Fits, Exists, LeavesStatus
<1>3. AbsentAreEmpty' /\ ScriptAdministratorsStand'
  BY DEF Inv, AbsentAreEmpty, Exists, ScriptAdministratorsStand
<1>4. AccountsAreWhole'
  BY DEF Inv, AccountsAreWhole, Exists
<1>5. \A p \in Phones : /\ RegisteredWith(p)' \subseteq RegisteredWith(p)
                        /\ RegisteringWith(p)' \subseteq RegisteringWith(p)
  BY DEF RegisteredWith, RegisteringWith
<1>6. NumbersAreBounded'
  BY <1>5, FewerNumbers
<1> QED BY <1>1, <1>2, <1>3, <1>4, <1>6 DEF Inv

LEMMA SeedRolesStep ==
  ASSUME Inv, SeedRoles
  PROVE  Inv'
<1> DEFINE row == [users[DefaultAdmin] EXCEPT !.assigned = @ \cup {"super_admin"}]
<1>1. /\ UNCHANGED <<workload, profiles, req, entered>> /\ roles' = RoleCodes
      /\ users' = IF Exists(DefaultAdmin) THEN [users EXCEPT ![DefaultAdmin] = row] ELSE users
  BY DEF SeedRoles
<1>2. users \in [Accounts -> UserRow] /\ DefaultAdmin \in Accounts
  BY ConstantsAssumption DEF Inv, TypeOK
<1>3. /\ row \in UserRow
      /\ row.origin = users[DefaultAdmin].origin /\ row.phone = users[DefaultAdmin].phone
      /\ row.role = users[DefaultAdmin].role /\ row.active = users[DefaultAdmin].active
      /\ row.verified = users[DefaultAdmin].verified
      /\ row.assigned = users[DefaultAdmin].assigned \cup {"super_admin"}
  BY <1>2 DEF UserRow, RoleCodes
<1> HIDE DEF row
<1>4. \A a \in Accounts : users'[a] = users[a] \/ (a = DefaultAdmin /\ users'[a] = row /\ Exists(a))
  BY <1>1, <1>2
<1>5. users' \in [Accounts -> UserRow]
  BY <1>1, <1>2, <1>3
<1>6. \A a \in Accounts : users[a].assigned \subseteq RoleCodes
  BY <1>2 DEF UserRow
<1>7. \A a \in Accounts : ~Exists(a) => users[a] = NoUser
  BY DEF Inv, AbsentAreEmpty
<1>8. "super_admin" \in RoleCodes
  BY DEF RoleCodes
<1> QED BY <1>1, <1>3, <1>4, <1>5, <1>6, <1>7, <1>8, RolesStep

LEMMA DeleteRoleStep ==
  ASSUME Inv, DeleteRole
  PROVE  Inv'
<1>1. PICK c \in roles \cap Kinds :
        /\ roles' = roles \ {c}
        /\ users' = [a \in Accounts |-> [users[a] EXCEPT !.assigned = @ \ {c}]]
  BY DEF DeleteRole
<1>2. /\ UNCHANGED <<workload, profiles, req, entered>>
      /\ users \in [Accounts -> UserRow] /\ roles \subseteq RoleCodes
  BY DEF DeleteRole, Inv, TypeOK
<1>3. \A a \in Accounts :
        /\ users'[a].origin = users[a].origin /\ users'[a].phone = users[a].phone
        /\ users'[a].role = users[a].role /\ users'[a].active = users[a].active
        /\ users'[a].verified = users[a].verified
        /\ users'[a].assigned = users[a].assigned \ {c}
        /\ users'[a] \in UserRow
  BY <1>1, <1>2 DEF UserRow
<1>4. users' \in [Accounts -> UserRow]
  BY <1>1, <1>3
<1>5. \A a \in Accounts : users[a].assigned \subseteq roles
  BY DEF Inv, AccountsAreWhole, Exists
<1>6. \A a \in Accounts : ~Exists(a) => users'[a] = NoUser
  <2> SUFFICES ASSUME NEW a \in Accounts, ~Exists(a) PROVE users'[a] = NoUser
    OBVIOUS
  <2>1. users[a] = NoUser
    BY DEF Inv, AbsentAreEmpty
  <2>2. NoUser.assigned \ {c} = {}
    BY DEF NoUser
  <2>3. users'[a] = [NoUser EXCEPT !.assigned = {}]
    BY <1>1, <2>1, <2>2
  <2> QED BY <2>3 DEF NoUser
<1>7. \A a \in Accounts :
        users'[a].assigned \subseteq roles' \cap (users[a].assigned \cup {"super_admin"})
  BY <1>1, <1>3, <1>5
<1>8. roles' \subseteq RoleCodes
  BY <1>1, <1>2
<1> QED BY <1>2, <1>3, <1>4, <1>6, <1>7, <1>8, RolesStep

-----------------------------------------------------------------------------
(***************************************************************************)
(* The invariant and what follows from it.                                 *)
(***************************************************************************)
LEMMA ServeStep ==
  ASSUME Inv, NEW r \in Requests, Serve(r)
  PROVE  Inv'
BY RegisterGetEmailStep, RegisterGetPhoneStep, RegisterGetRoleStep, RegisterInsertStep,
   ScriptGetEmailStep, ScriptInsertStep, ScriptAssignStep, InfoLoadStep, StatusLoadStep,
   VerificationLoadStep, RoleLoadStep, UpdateWriteStep, ProfileGetUserStep,
   ProfileSelectStep, ProfileCreateStep, ProfileFillStep
DEF Serve

LEMMA NextInv == Inv /\ [Next]_vars => Inv'
<1> SUFFICES ASSUME Inv, [Next]_vars PROVE Inv'
  OBVIOUS
<1>1. CASE \E r \in Requests : Serve(r)
  BY <1>1, ServeStep
<1>2. CASE \E r \in Requests : Crash(r)
  BY <1>2, FinishStep DEF Crash
<1>3. CASE SeedRoles \/ DeleteRole
  BY <1>3, SeedRolesStep, DeleteRoleStep
<1>4. CASE UNCHANGED vars
  <2> USE <1>4 DEF vars
  <2>1. TypeOK' /\ RequestsFit'
    BY DEF Inv, TypeOK, RequestsFit, Fits, Exists, LeavesStatus
  <2>2. AbsentAreEmpty' /\ ScriptAdministratorsStand' /\ AccountsAreWhole'
    BY DEF Inv, AbsentAreEmpty, Exists, ScriptAdministratorsStand, AccountsAreWhole
  <2>3. NumbersAreBounded'
    BY FewerNumbers DEF RegisteredWith, RegisteringWith
  <2> QED BY <2>1, <2>2, <2>3 DEF Inv
<1> QED BY <1>1, <1>2, <1>3, <1>4 DEF Next

\* Inv holds throughout: accounts, requests, profiles and roles fit together
\* (auth_service.py, admin.py, profile_service.py).
THEOREM Invariance == Spec => []Inv
<1> QED BY InitInv, NextInv, PTL DEF Spec

\* Never do more registrations than are served at once share a phone number
\* (register_user).
THEOREM SharingBounded == Spec => []PhoneSharingIsBounded
<1>1. Inv => PhoneSharingIsBounded
  <2> SUFFICES ASSUME Inv, NEW p \in Phones
               PROVE  Cardinality(RegisteredWith(p)) <= Cardinality(Requests)
    BY DEF PhoneSharingIsBounded
  <2>1. /\ IsFiniteSet(RegisteredWith(p))
        /\ Cardinality(RegisteredWith(p)) + Cardinality(RegisteringWith(p))
             <= Cardinality(Requests)
    BY DEF Inv, NumbersAreBounded
  <2>2. RegisteringWith(p) \subseteq Requests
    BY DEF RegisteringWith
  <2> QED BY <2>1, <2>2, Registering, FS_CardinalityType
<1> QED BY <1>1, Invariance, PTL

\* The administrators the scripts made stay active, verified administrators.
THEOREM AdministratorsStand == Spec => []ScriptAdministratorsStand
<1>1. Inv => ScriptAdministratorsStand
  BY DEF Inv
<1> QED BY <1>1, Invariance, PTL

\* A registered account has its profile and no role that it did not register for or
\* that does not exist.
THEOREM Whole == Spec => []AccountsAreWhole
<1>1. Inv => AccountsAreWhole
  BY DEF Inv
<1> QED BY <1>1, Invariance, PTL

\* A profile is created once, and what was saved in it stays.
THEOREM ProfilesStay == Spec => SavedProfilesStay
<1> DEFINE Stay == \A a \in Accounts, k \in Kinds :
                     /\ profiles[a][k] # "none" => profiles'[a][k] # "none"
                     /\ profiles[a][k] = "filled" => profiles'[a][k] = "filled"
<1>1. Inv /\ [Next]_vars => [Stay]_vars
  <2> SUFFICES ASSUME Inv, [Next]_vars PROVE Stay
    OBVIOUS
  <2>1. CASE profiles' = profiles
    BY <2>1
  <2>2. ASSUME NEW r \in Requests, ProfileCreate(r) PROVE Stay
    BY <2>2, ProfileCreateStep
  <2>3. ASSUME NEW r \in Requests, ProfileFill(r) PROVE Stay
    BY <2>3, ProfileFillStep
  <2>4. ASSUME NEW r \in Requests, RegisterInsert(r) PROVE Stay
    <3> DEFINE a == req[r].account
               k == req[r].kind
    <3>1. a \in Accounts /\ k \in Kinds
      BY <2>4 DEF RegisterInsert, Inv, RequestsFit, Fits
    <3>2. profiles' = profiles \/ (~Exists(a) /\ profiles' = [profiles EXCEPT ![a][k] = "blank"])
      BY <2>4 DEF RegisterInsert
    <3>3. ~Exists(a) => profiles[a][k] = "none"
      BY <3>1 DEF Inv, AccountsAreWhole, Exists
    <3>4. \A b \in Accounts, c \in Kinds :
            profiles'[b][c] # profiles[b][c] => profiles[b][c] = "none" /\ profiles'[b][c] = "blank"
      BY <3>1, <3>2, <3>3 DEF Inv, TypeOK
    <3> QED BY <3>4
  <2>5. ASSUME NEW r \in Requests, Serve(r) PROVE Stay
    BY <2>1, <2>2, <2>3, <2>4, <2>5
    DEF Serve, Tables, RegisterGetEmail, RegisterGetPhone, RegisterGetRole, ScriptGetEmail,
        ScriptInsert, ScriptAssign, InfoLoad, StatusLoad, VerificationLoad, RoleLoad,
        UpdateWrite, ProfileGetUser, ProfileSelect
  <2> QED BY <2>1, <2>5 DEF Next, Crash, Tables, SeedRoles, DeleteRole, vars
<1> QED BY <1>1, Invariance, PTL DEF Spec, SavedProfilesStay

\* Somebody who was made an administrator yields only to a request that had loaded
\* the account before.
THEOREM AdministratorsYield == Spec => AdministratorsYieldOnlyToStaleRequests
<1> DEFINE Stands(a) == /\ users'[a].role = "administrator"
                        /\ users'[a].active = users[a].active
                        /\ users'[a].verified = users[a].verified
           Yield == \A a \in Accounts :
                      users[a].role = "administrator" /\ Stale(a) = {} => Stands(a)
<1>1. Inv /\ [Next]_vars => [Yield]_vars
  <2> SUFFICES ASSUME Inv, [Next]_vars,
                      NEW a \in Accounts, users[a].role = "administrator", Stale(a) = {}
               PROVE  Stands(a)
    OBVIOUS
  <2>1. CASE users' = users
    BY <2>1
  <2>2. Exists(a) /\ users[a] \in UserRow
    BY DEF Inv, TypeOK, AbsentAreEmpty, NoUser
  <2>3. ASSUME NEW r \in Requests, UpdateWrite(r) PROVE Stands(a)
    <3>1. req[r].pc = "write" /\ r \notin Stale(a)
      BY <2>3 DEF UpdateWrite
    <3>2. req[r].seen.role = "administrator" \/ a # req[r].account
      BY <3>1 DEF Stale
    <3> QED BY <2>3, <3>2, UpdateWriteStep
  <2>4. ASSUME NEW r \in Requests, RegisterInsert(r) \/ ScriptInsert(r) PROVE Stands(a)
    <3>1. users'[a] = users[a]
      BY <2>2, <2>4 DEF RegisterInsert, ScriptInsert, Inv, TypeOK
    <3> QED BY <3>1
  <2>5. ASSUME NEW r \in Requests, ScriptAssign(r) PROVE Stands(a)
    BY <2>2, <2>5 DEF ScriptAssign, Inv, TypeOK, UserRow
  <2>6. ASSUME NEW r \in Requests, Serve(r) PROVE Stands(a)
    BY <2>1, <2>3, <2>4, <2>5, <2>6
    DEF Serve, Tables, RegisterGetEmail, RegisterGetPhone, RegisterGetRole, ScriptGetEmail,
        InfoLoad, StatusLoad, VerificationLoad, RoleLoad, ProfileGetUser, ProfileSelect,
        ProfileCreate, ProfileFill
  <2>7. CASE SeedRoles \/ DeleteRole
    <3>1. users \in [Accounts -> UserRow]
      BY DEF Inv, TypeOK
    <3>2. CASE SeedRoles
      BY <2>2, <3>1, <3>2 DEF SeedRoles, UserRow
    <3>3. CASE DeleteRole
      BY <2>2, <3>1, <3>3 DEF DeleteRole, UserRow
    <3> QED BY <2>7, <3>2, <3>3
  <2> QED BY <2>1, <2>6, <2>7 DEF Next, Crash, Tables, vars
<1> QED BY <1>1, Invariance, PTL DEF Spec, AdministratorsYieldOnlyToStaleRequests

=============================================================================
