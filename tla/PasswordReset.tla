--------------------------- MODULE PasswordReset ---------------------------
(***************************************************************************)
(* Forgotten and changed passwords (PasswordService), over the tables      *)
(* users and password_reset_tokens.                                        *)
(*                                                                         *)
(* A reset is three calls of a client: an initiation stores a row with a   *)
(* code, which it mails, and a token; a verification trades the code for   *)
(* the token; the reset itself presents the token.  The initiation commits *)
(* twice, the others once or not at all.  A request takes one step per     *)
(* transaction or per statement it decides on.                             *)
(*                                                                         *)
(* The row of an initiation carries the name of its request, which is      *)
(* spent with it; other names are free again when the request ends.        *)
(* Clients are the owners of the accounts: they verify codes they were     *)
(* mailed and present tokens they were given.  An inactive account is one  *)
(* for which no initiation gets past its first statement.                  *)
(***************************************************************************)
EXTENDS Integers, FiniteSets

CONSTANTS Requests,      \* names of HTTP requests
          Accounts,      \* rows of users
          Passwords,     \* passwords users choose
          Codes,         \* the six-digit codes
          CodeLife,      \* 15 minutes
          MaxTime,       \* bound on the clock
          MaxInFlight,   \* bound on requests being served at once
          NULL           \* no value

ASSUME ConstantsAssumption ==
  /\ CodeLife \in Nat \ {0}
  /\ MaxTime \in Nat
  /\ MaxInFlight \in Nat \ {0}
  /\ NULL \notin Accounts

VARIABLES clock,     \* datetime.utcnow()
          password,  \* users.hashed_password
          tokens,    \* table password_reset_tokens
          mailed,    \* account and code of the mails sent
          known,     \* tokens verify_reset_code has returned
          req,       \* the requests being served
          uses       \* history: how many resets a token has been good for

vars == <<clock, password, tokens, mailed, known, req, uses>>

OrNull(S) == S \cup {NULL}

TokenRow == [account : OrNull(Accounts), code : OrNull(Codes), used : BOOLEAN, expires : Nat]

NoToken == [account |-> NULL, code |-> NULL, used |-> FALSE, expires |-> 0]

RequestState ==
  [pc : {"idle", "invalidate", "store", "reset", "change", "spent"},
   account : OrNull(Accounts), token : OrNull(Requests), new : OrNull(Passwords)]

Idle == [pc |-> "idle", account |-> NULL, token |-> NULL, new |-> NULL]

Proceed(r, q) == req' = [req EXCEPT ![r] = q]
Finish(r) == Proceed(r, Idle)
FinishSpent(r) == Proceed(r, [Idle EXCEPT !.pc = "spent"])

InFlight == {r \in Requests : req[r].pc \notin {"idle", "spent"}}

\* The server accepts one more request.
HasRoom == Cardinality(InFlight) < MaxInFlight

Begins(r) == req[r].pc = "idle" /\ HasRoom

\* Mutant: a token is good until it expires.
Unexpired(t) == tokens[t].account # NULL /\ tokens[t].expires > clock

\* What the two queries for a "valid reset token" ask for.
Valid(t) == /\ tokens[t].account # NULL
            /\ ~tokens[t].used
            /\ tokens[t].expires > clock

Init ==
  /\ clock = 0
  /\ password \in [Accounts -> Passwords]
  /\ tokens = [t \in Requests |-> NoToken]
  /\ mailed = {}
  /\ known = {}
  /\ req = [r \in Requests |-> Idle]
  /\ uses = [t \in Requests |-> 0]

-----------------------------------------------------------------------------
(***************************************************************************)
(* initiate_password_reset.                                                *)
(***************************************************************************)
InitiateGetUser(r) ==
  /\ Begins(r)
  /\ \E a \in Accounts : Proceed(r, [Idle EXCEPT !.pc = "invalidate", !.account = a])
  /\ UNCHANGED <<clock, password, tokens, mailed, known, uses>>

\* Mutant: the UPDATE is not committed.
InvalidateNothing(r) ==
  /\ req[r].pc = "invalidate"
  /\ Proceed(r, [req[r] EXCEPT !.pc = "store"])
  /\ UNCHANGED <<clock, password, tokens, mailed, known, uses>>

\* The tokens of the account are marked used, in a transaction of its own.
InitiateInvalidate(r) ==
  /\ req[r].pc = "invalidate"
  /\ tokens' = [t \in Requests |->
       [tokens[t] EXCEPT !.used = @ \/ tokens[t].account = req[r].account]]
  /\ Proceed(r, [req[r] EXCEPT !.pc = "store"])
  /\ UNCHANGED <<clock, password, mailed, known, uses>>

\* Mutant: a row of the account is written over where there is one.
ReuseRow(r) ==
  /\ req[r].pc = "store"
  /\ \E c \in Codes, t \in {r} \cup {x \in Requests : tokens[x].account = req[r].account} :
       /\ tokens' = [tokens EXCEPT ![t] = [account |-> req[r].account, code |-> c,
                                           used |-> FALSE, expires |-> clock + CodeLife]]
       /\ mailed' = mailed \cup {<<req[r].account, c>>}
  /\ FinishSpent(r)
  /\ UNCHANGED <<clock, password, known, uses>>

\* The new one is stored in another; then the code is mailed, unless the process
\* dies in between.
InitiateStore(r) ==
  /\ req[r].pc = "store"
  /\ \E c \in Codes, sent \in BOOLEAN :
       /\ tokens' = [tokens EXCEPT ![r] = [account |-> req[r].account, code |-> c,
                                           used |-> FALSE, expires |-> clock + CodeLife]]
       /\ mailed' = IF sent THEN mailed \cup {<<req[r].account, c>>} ELSE mailed
  /\ FinishSpent(r)
  /\ UNCHANGED <<clock, password, known, uses>>

-----------------------------------------------------------------------------
\* verify_reset_code: one query, which must not find two tokens with the code.
VerifyCode ==
  /\ HasRoom
  /\ \E m \in mailed, t \in Requests :
       /\ {x \in Requests : Valid(x) /\ tokens[x].account = m[1] /\ tokens[x].code = m[2]} = {t}
       /\ known' = known \cup {t}
  /\ UNCHANGED <<clock, password, tokens, mailed, req, uses>>

\* reset_password finds the token valid and loads the account ...
ResetGetToken(r) ==
  /\ Begins(r)
  /\ \E t \in known, p \in Passwords :
       /\ Valid(t)
       /\ Proceed(r, [pc |-> "reset", account |-> tokens[t].account, token |-> t, new |-> p])
  /\ UNCHANGED <<clock, password, tokens, mailed, known, uses>>

\* Mutant: the token is not marked.
ResetUnmarked(r) ==
  /\ req[r].pc = "reset"
  /\ password' = [password EXCEPT ![req[r].account] = req[r].new]
  /\ uses' = [uses EXCEPT ![req[r].token] = @ + 1]
  /\ Finish(r)
  /\ UNCHANGED <<clock, tokens, mailed, known>>

\* ... and writes both rows by their ids in one transaction.
ResetWrite(r) ==
  /\ req[r].pc = "reset"
  /\ password' = [password EXCEPT ![req[r].account] = req[r].new]
  /\ tokens' = [tokens EXCEPT ![req[r].token].used = TRUE]
  /\ uses' = [uses EXCEPT ![req[r].token] = @ + 1]
  /\ Finish(r)
  /\ UNCHANGED <<clock, mailed, known>>

-----------------------------------------------------------------------------
\* change_password compares the old password with the row get_current_user has
\* loaded ...
ChangeGetUser(r) ==
  /\ Begins(r)
  /\ \E a \in Accounts, p \in Passwords :
       /\ p # password[a]
       /\ Proceed(r, [Idle EXCEPT !.pc = "change", !.account = a, !.new = p])
  /\ UNCHANGED <<clock, password, tokens, mailed, known, uses>>

\* ... and writes the new one whatever the row holds by then.
ChangeWrite(r) ==
  /\ req[r].pc = "change"
  /\ password' = [password EXCEPT ![req[r].account] = req[r].new]
  /\ Finish(r)
  /\ UNCHANGED <<clock, tokens, mailed, known, uses>>

-----------------------------------------------------------------------------
\* The request fails or the process dies; what it has committed stays.
Crash(r) == r \in InFlight /\ Finish(r)
            /\ UNCHANGED <<clock, password, tokens, mailed, known, uses>>

Tick == clock < MaxTime /\ clock' = clock + 1
        /\ UNCHANGED <<password, tokens, mailed, known, req, uses>>

Serve(r) ==
  \/ InitiateGetUser(r) \/ InitiateInvalidate(r) \/ InitiateStore(r)
  \/ ResetGetToken(r) \/ ResetWrite(r)
  \/ ChangeGetUser(r) \/ ChangeWrite(r)

Next == (\E r \in Requests : Serve(r) \/ Crash(r)) \/ VerifyCode \/ Tick

Spec == Init /\ [][Next]_vars

-----------------------------------------------------------------------------
(***************************************************************************)
(* Properties.                                                             *)
(***************************************************************************)

\* Rows and requests have the types of their declarations.
TypeOK ==
  /\ clock \in 0 .. MaxTime
  /\ password \in [Accounts -> Passwords]
  /\ tokens \in [Requests -> TokenRow]
  /\ mailed \subseteq Accounts \X Codes
  /\ known \subseteq Requests
  /\ req \in [Requests -> RequestState]
  /\ uses \in [Requests -> Nat]

ValidOf(a) == {t \in Requests : Valid(t) /\ tokens[t].account = a}
Storing(a) == {r \in Requests : req[r].pc = "store" /\ req[r].account = a}
Presenting(t) == {r \in Requests : req[r].pc = "reset" /\ req[r].token = t}

\* An account has never more valid codes than requests were in flight at once: each
\* of them was stored by a request that had invalidated the others before, and the
\* next initiation ends them all (password_service.py, initiate_password_reset).
ValidCodesAreBounded == \A a \in Accounts : Cardinality(ValidOf(a)) <= MaxInFlight

\* A token is good for no more resets than requests were in flight at once: all of
\* them had found it unused before the first one committed
\* (password_service.py, reset_password).
TokenUsesAreBounded == \A t \in Requests : uses[t] <= MaxInFlight

\* A token that was used or invalidated never becomes valid again, and its account
\* and code never change, whatever requests hold an older copy of the row.
TokensStayUsed ==
  [][\A t \in Requests :
       tokens[t].account # NULL =>
         /\ tokens'[t].account = tokens[t].account /\ tokens'[t].code = tokens[t].code
         /\ tokens[t].used => tokens'[t].used]_vars

\* A token resets one password once (password_service.py, reset_password: "Mark
\* token as used").
TokenUsedOnce == \A t \in Requests : uses[t] <= 1

\* The inductive invariant: the requests served are within their bound; the tokens
\* that are valid or about to be stored, and the uses of a token that are past or
\* still possible, are within it too.
FlightIsBounded == IsFiniteSet(InFlight) /\ Cardinality(InFlight) <= MaxInFlight

CodesAreBounded ==
  \A a \in Accounts : /\ IsFiniteSet(ValidOf(a) \cup Storing(a))
                      /\ Cardinality(ValidOf(a) \cup Storing(a)) <= MaxInFlight

UsesAreBounded ==
  \A t \in Requests : /\ IsFiniteSet(Presenting(t))
                      /\ uses[t] + Cardinality(Presenting(t)) <= MaxInFlight

RowsFit ==
  /\ \A r \in Requests :
       /\ req[r].pc \in {"invalidate", "store", "reset", "change"} => req[r].account \in Accounts
       /\ req[r].pc = "reset" => req[r].token \in Requests /\ tokens[req[r].token].account # NULL
       /\ req[r].pc \in {"reset", "change"} => req[r].new \in Passwords
       /\ tokens[r].account # NULL => req[r].pc = "spent"
  /\ \A t \in Requests : uses[t] > 0 => tokens[t].account # NULL /\ tokens[t].used

Inv == TypeOK /\ RowsFit /\ FlightIsBounded /\ CodesAreBounded /\ UsesAreBounded

=============================================================================
