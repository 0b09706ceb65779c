--------------------------- MODULE SessionsProofs ---------------------------
(***************************************************************************)
(* Proofs about Sessions for any accounts, any number of requests served   *)
(* at once, and any lengths of the lockout, of tokens and of sessions.     *)
(***************************************************************************)
EXTENDS Sessions, TLAPS

LEMMA IdleType == Idle \in RequestState /\ Idle.pc = "idle"
BY DEF Idle, RequestState

LEMMA TokenType ==
  ASSUME NEW a \in Accounts, NEW c \in 0 .. MaxTime
  PROVE  <<a, c + TokenLife>> \in Token
BY TimesAssumption DEF Token

LEMMA InitInv == Init => Inv
<1> SUFFICES ASSUME Init PROVE Inv
  OBVIOUS
<1>1. TypeOK
  BY IdleType, TimesAssumption DEF Init, TypeOK, AccountRow
<1>2. RevokedHasNoSession /\ TokensWereIssued
  BY IdleType DEF Init, RevokedHasNoSession, TokensWereIssued
<1>3. LoggedOutHasNoSession
  BY IdleType DEF Init, LoggedOutHasNoSession, LoggedOut, IsBlacklisted
<1>4. FailuresLeaveNoTrace
  BY DEF Init, FailuresLeaveNoTrace
<1> QED BY <1>1, <1>2, <1>3, <1>4 DEF Inv

-----------------------------------------------------------------------------
(***************************************************************************)
(* Every step preserves the types.                                         *)
(***************************************************************************)
LEMMA TypeStep ==
  ASSUME Inv, [Next]_vars
  PROVE  TypeOK'
<1> USE IdleType, TimesAssumption DEF Inv, TypeOK
<1>1. CASE UNCHANGED vars
  BY <1>1 DEF vars
<1>2. ASSUME NEW r \in Requests, NEW q \in RequestState, Proceed(r, q)
      PROVE  req' \in [Requests -> RequestState]
  BY <1>2 DEF Proceed
<1>3. ASSUME NEW r \in Requests, Finish(r)
      PROVE  req' \in [Requests -> RequestState]
  BY <1>2, <1>3 DEF Finish
<1>4. ASSUME NEW r \in Requests, LoginGetUser(r)
      PROVE  TypeOK'
  <2>1. PICK a \in Accounts, right \in BOOLEAN :
          /\ accounts[a].lockedUntil = NULL
          /\ right => accounts[a].active
          /\ Proceed(r, [Idle EXCEPT !.pc = IF right THEN "issue" ELSE "fail",
                                     !.account = a, !.row = accounts[a]])
    BY <1>4, Zenon DEF LoginGetUser
  <2>2. [Idle EXCEPT !.pc = IF right THEN "issue" ELSE "fail",
                     !.account = a, !.row = accounts[a]] \in RequestState
    BY DEF RequestState
  <2>3. req' \in [Requests -> RequestState]
    BY <1>2, <2>1, <2>2
  <2> QED BY <1>4, <2>3 DEF LoginGetUser
<1>5. ASSUME NEW r \in Requests, LoginFail(r)
      PROVE  TypeOK'
  <2>1. UNCHANGED accounts
    BY <1>5 DEF LoginFail, GetDb
  <2>n. \A n \in 0 .. MaxAttempts : (IF n < MaxAttempts THEN n + 1 ELSE n) \in 0 .. MaxAttempts
    OBVIOUS
  <2>w. wrong' = [wrong EXCEPT ![req[r].account] = IF @ < MaxAttempts THEN @ + 1 ELSE @]
    BY <1>5 DEF LoginFail
  <2>2. wrong' \in [Accounts -> 0 .. MaxAttempts]
    BY <2>n, <2>w
  <2>3. req' \in [Requests -> RequestState]
    BY <1>3, <1>5 DEF LoginFail
  <2> QED BY <1>5, <2>1, <2>2, <2>3 DEF LoginFail
<1>6. ASSUME NEW r \in Requests, LoginIssue(r)
      PROVE  TypeOK'
  <2> DEFINE t == <<req[r].account, clock + TokenLife>>
  <2>1. t \in Token
    BY <1>6, TokenType DEF LoginIssue, TokensWereIssued
  <2> HIDE DEF t
  <2>2. /\ session' = [session EXCEPT ![t] = clock + SessionLife]
        /\ minted' = [minted EXCEPT ![t] = IF @ < 2 THEN @ + 1 ELSE @]
        /\ revoked' = revoked \ {t}
    BY <1>6 DEF LoginIssue, t
  <2>n. \A n \in 0 .. 2 : (IF n < 2 THEN n + 1 ELSE n) \in 0 .. 2
    OBVIOUS
  <2>s. clock + SessionLife \in Nat
    OBVIOUS
  <2>3. session' \in [Token -> Nat] /\ minted' \in [Token -> 0 .. 2]
    BY <2>2, <2>n, <2>s
  <2>4. [req[r] EXCEPT !.pc = "commit"] \in RequestState
    BY DEF RequestState
  <2>5. req' \in [Requests -> RequestState]
    BY <1>2, <1>6, <2>4 DEF LoginIssue
  <2> QED BY <1>6, <2>2, <2>3, <2>5 DEF LoginIssue
<1>7. ASSUME NEW r \in Requests, LoginCommit(r)
      PROVE  TypeOK'
  <2>1. accounts' \in [Accounts -> AccountRow]
    BY <1>7 DEF LoginCommit, GetDb, AccountRow
  <2>0. 0 \in 0 .. MaxAttempts
    OBVIOUS
  <2>2. wrong' \in [Accounts -> 0 .. MaxAttempts]
    BY <1>7, <2>0 DEF LoginCommit
  <2>3. req' \in [Requests -> RequestState]
    BY <1>3, <1>7 DEF LoginCommit
  <2> QED BY <1>7, <2>1, <2>2, <2>3 DEF LoginCommit
<1>8. ASSUME NEW r \in Requests, CheckBlacklist(r)
      PROVE  TypeOK'
  <2>1. PICK t \in Token, logout \in BOOLEAN :
          /\ minted[t] > 0
          /\ ~IsBlacklisted(t)
          /\ Proceed(r, [Idle EXCEPT !.pc = "account", !.token = t, !.logout = logout])
    BY <1>8, Zenon DEF CheckBlacklist
  <2>2. [Idle EXCEPT !.pc = "account", !.token = t, !.logout = logout] \in RequestState
    BY DEF RequestState
  <2>3. req' \in [Requests -> RequestState]
    BY <1>2, <2>1, <2>2
  <2> QED BY <1>8, <2>3 DEF CheckBlacklist
<1>9. ASSUME NEW r \in Requests, CheckAccount(r) \/ CheckSession(r)
      PROVE  TypeOK'
  <2>1. /\ [req[r] EXCEPT !.pc = "session"] \in RequestState
        /\ [req[r] EXCEPT !.pc = "delete"] \in RequestState
    BY DEF RequestState
  <2>2. req' \in [Requests -> RequestState]
    BY <1>2, <1>3, <1>9, <2>1 DEF CheckAccount, CheckSession
  <2> QED BY <1>9, <2>2 DEF CheckAccount, CheckSession
<1>10. ASSUME NEW r \in Requests, LogoutDeleteSession(r)
       PROVE  TypeOK'
  <2>1. req[r].token \in Token
    BY <1>10 DEF LogoutDeleteSession, TokensWereIssued
  <2>2. session' \in [Token -> Nat] /\ revoked' \in SUBSET Token
    BY <1>10, <2>1 DEF LogoutDeleteSession
  <2>3. [req[r] EXCEPT !.pc = "blacklist"] \in RequestState
    BY DEF RequestState
  <2>4. req' \in [Requests -> RequestState]
    BY <1>2, <1>10, <2>3 DEF LogoutDeleteSession
  <2> QED BY <1>10, <2>2, <2>4 DEF LogoutDeleteSession
<1>11. ASSUME NEW r \in Requests, LogoutBlacklist(r)
       PROVE  TypeOK'
  <2>1. PICK begun \in {0, 1} :
          LET ttl == Exp(req[r].token) - clock - begun
          IN  blacklist' = IF ttl > 0 THEN [blacklist EXCEPT ![req[r].token] = clock + ttl]
                                      ELSE blacklist
    BY <1>11 DEF LogoutBlacklist
  <2>2. Exp(req[r].token) \in Int
    BY <1>11 DEF LogoutBlacklist, TokensWereIssued, Token, Exp
  <2> DEFINE ttl == Exp(req[r].token) - clock - begun
  <2>t. ttl \in Int
    BY <2>2
  <2>n. ttl > 0 => clock + ttl \in Nat
    BY <2>t
  <2>b. blacklist' = IF ttl > 0 THEN [blacklist EXCEPT ![req[r].token] = clock + ttl]
                                ELSE blacklist
    BY <2>1
  <2> HIDE DEF ttl
  <2>3. blacklist' \in [Token -> Nat]
    BY <2>n, <2>b
  <2>4. req' \in [Requests -> RequestState]
    BY <1>3, <1>11 DEF LogoutBlacklist
  <2> QED BY <1>11, <2>3, <2>4 DEF LogoutBlacklist
<1>12. CASE UpdateUserStatus
  <2>1. accounts' \in [Accounts -> AccountRow]
    BY <1>12 DEF UpdateUserStatus, AccountRow
  <2> QED BY <1>12, <2>1 DEF UpdateUserStatus
<1>13. CASE Tick
  BY <1>13 DEF Tick, Expire
<1>14. ASSUME NEW r \in Requests, Crash(r)
       PROVE  TypeOK'
  BY <1>3, <1>14 DEF Crash
<1> QED
  BY <1>1, <1>4, <1>5, <1>6, <1>7, <1>8, <1>9, <1>10, <1>11, <1>12, <1>13, <1>14
     DEF Next, Serve

-----------------------------------------------------------------------------
(***************************************************************************)
(* The other conjuncts of the invariant.                                   *)
(***************************************************************************)

\* Which steps touch the Redis keys and their histories.
LEMMA Quiet ==
  ASSUME [Next]_vars
  PROVE  \/ UNCHANGED <<session, blacklist, minted, revoked>>
         \/ \E r \in Requests : LoginIssue(r) \/ LogoutDeleteSession(r) \/ LogoutBlacklist(r)
         \/ Tick
BY DEF Next, Serve, vars, LoginGetUser, LoginFail, LoginCommit, CheckBlacklist, CheckAccount,
       CheckSession, UpdateUserStatus, Crash

LEMMA FailuresStep ==
  ASSUME Inv, [Next]_vars
  PROVE  FailuresLeaveNoTrace'
<1> USE DEF Inv, TypeOK, FailuresLeaveNoTrace
<1>1. CASE UNCHANGED accounts
  BY <1>1
<1>2. ASSUME NEW r \in Requests, LoginFail(r)
      PROVE  UNCHANGED accounts
  BY <1>2 DEF LoginFail, GetDb
<1>3. ASSUME NEW r \in Requests, LoginCommit(r)
      PROVE  FailuresLeaveNoTrace'
  BY <1>3 DEF LoginCommit, GetDb, AccountRow
<1>4. CASE UpdateUserStatus
  BY <1>4 DEF UpdateUserStatus, AccountRow
<1> QED
  BY <1>1, <1>2, <1>3, <1>4
     DEF Next, Serve, vars, LoginGetUser, LoginIssue, CheckBlacklist, CheckAccount, CheckSession,
         LogoutDeleteSession, LogoutBlacklist, Tick, Crash

LEMMA RevokedStep ==
  ASSUME Inv, [Next]_vars
  PROVE  RevokedHasNoSession'
<1> USE DEF Inv, TypeOK, RevokedHasNoSession
<1>1. CASE UNCHANGED <<session, revoked>>
  BY <1>1
<1>2. ASSUME NEW r \in Requests, LoginIssue(r)
      PROVE  RevokedHasNoSession'
  <2>1. PICK t : /\ session' = [session EXCEPT ![t] = clock + SessionLife]
                 /\ revoked' = revoked \ {t}
    BY <1>2 DEF LoginIssue
  <2>2. \A u \in revoked' : u \in revoked /\ session'[u] = session[u]
    BY <2>1
  <2> QED BY <2>2
<1>3. ASSUME NEW r \in Requests, LogoutDeleteSession(r)
      PROVE  RevokedHasNoSession'
  <2>1. req[r].token \in Token
    BY <1>3 DEF LogoutDeleteSession, TokensWereIssued
  <2>2. /\ session' = [session EXCEPT ![req[r].token] = 0]
        /\ revoked' = revoked \cup {req[r].token}
    BY <1>3 DEF LogoutDeleteSession
  <2> QED BY <2>1, <2>2
<1>4. CASE Tick
  <2>1. \A t \in Token : session[t] = 0 => session'[t] = 0
    BY <1>4 DEF Tick, Expire
  <2> QED BY <1>4, <2>1 DEF Tick
<1> QED BY <1>1, <1>2, <1>3, <1>4, Quiet DEF LogoutBlacklist

\* What a step can do to a request: nothing, end it, or be its own next call.
LEMMA RequestMoves ==
  ASSUME Inv, [Next]_vars, NEW x \in Requests
  PROVE  \/ req'[x] = req[x] \/ req'[x] = Idle
         \/ LoginGetUser(x) \/ CheckBlacklist(x)
         \/ LoginIssue(x) \/ CheckAccount(x) \/ CheckSession(x) \/ LogoutDeleteSession(x)
<1> USE DEF Inv, TypeOK
<1>1. ASSUME NEW r \in Requests, NEW z, Proceed(r, z)
      PROVE  x # r => req'[x] = req[x]
  BY <1>1 DEF Proceed
<1>2. ASSUME NEW r \in Requests,
             \/ LoginFail(r) \/ LoginCommit(r) \/ LogoutBlacklist(r) \/ Crash(r)
      PROVE  req'[x] = req[x] \/ req'[x] = Idle
  BY <1>2 DEF LoginFail, LoginCommit, LogoutBlacklist, Crash, Finish, Proceed
<1>3. ASSUME NEW r \in Requests, Serve(r), x # r
      PROVE  req'[x] = req[x]
  <2>1. \E z : Proceed(r, z)
    BY <1>3 DEF Serve, LoginGetUser, LoginFail, LoginIssue, LoginCommit, CheckBlacklist,
              CheckAccount, CheckSession, LogoutDeleteSession, LogoutBlacklist, Finish
  <2> QED BY <1>1, <1>3, <2>1
<1> QED BY <1>2, <1>3 DEF Next, Serve, vars, UpdateUserStatus, Tick

\* A request's own step, and the others', keep what it knows of its token.
LEMMA TokensStep ==
  ASSUME Inv, [Next]_vars, NEW x \in Requests
  PROVE  /\ req'[x].pc \in {"issue", "fail", "commit"} => req'[x].account \in Accounts
         /\ req'[x].pc = "fail" => req'[x].row \in AccountRow
         /\ req'[x].pc \in {"account", "session", "delete", "blacklist"} =>
              req'[x].token \in Token /\ minted'[req'[x].token] > 0
<1> DEFINE Knows == /\ req'[x].pc \in {"issue", "fail", "commit"} => req'[x].account \in Accounts
                    /\ req'[x].pc = "fail" => req'[x].row \in AccountRow
                    /\ req'[x].pc \in {"account", "session", "delete", "blacklist"} =>
                         req'[x].token \in Token /\ minted'[req'[x].token] > 0
           q == req[x]
<1> USE IdleType DEF Inv, TypeOK
<1>1. \A t \in Token : minted[t] > 0 => minted'[t] > 0
  <2>1. ASSUME NEW r \in Requests, LoginIssue(r)
        PROVE  \A t \in Token : minted[t] > 0 => minted'[t] > 0
    BY <2>1 DEF LoginIssue
  <2> QED BY <2>1, Quiet DEF LogoutDeleteSession, LogoutBlacklist, Tick
<1>2. CASE req'[x] = req[x]
  BY <1>1, <1>2 DEF TokensWereIssued
<1>3. CASE req'[x] = Idle
  BY <1>3
<1>4. CASE LoginGetUser(x)
  <2>1. PICK a \in Accounts, right \in BOOLEAN :
          /\ accounts[a].lockedUntil = NULL
          /\ right => accounts[a].active
          /\ Proceed(x, [Idle EXCEPT !.pc = IF right THEN "issue" ELSE "fail",
                                     !.account = a, !.row = accounts[a]])
    BY <1>4, Zenon DEF LoginGetUser
  <2>2. /\ req'[x].pc \in {"issue", "fail"}
        /\ req'[x].account = a /\ req'[x].row = accounts[a]
    BY <2>1 DEF Proceed, RequestState
  <2> QED BY <2>2
<1>5. CASE CheckBlacklist(x)
  <2>1. PICK t \in Token, logout \in BOOLEAN :
          /\ minted[t] > 0
          /\ ~IsBlacklisted(t)
          /\ Proceed(x, [Idle EXCEPT !.pc = "account", !.token = t, !.logout = logout])
    BY <1>5, Zenon DEF CheckBlacklist
  <2>2. req'[x].pc = "account" /\ req'[x].token = t
    BY <2>1 DEF Proceed, RequestState
  <2> QED BY <2>1, <2>2, <1>1
<1>6. CASE LoginIssue(x) \/ CheckAccount(x) \/ CheckSession(x) \/ LogoutDeleteSession(x)
  <2>1. \/ req'[x] = Idle
        \/ req'[x] = [q EXCEPT !.pc = "commit"] /\ q.pc = "issue"
        \/ /\ q.pc \in {"account", "session", "delete"}
           /\ \E pc \in {"session", "delete", "blacklist"} : req'[x] = [q EXCEPT !.pc = pc]
    BY <1>6 DEF LoginIssue, CheckAccount, CheckSession, LogoutDeleteSession, Finish, Proceed
  <2>2. CASE req'[x] = [q EXCEPT !.pc = "commit"] /\ q.pc = "issue"
    BY <2>2 DEF TokensWereIssued, RequestState
  <2>3. ASSUME q.pc \in {"account", "session", "delete"},
               NEW pc \in {"session", "delete", "blacklist"}, req'[x] = [q EXCEPT !.pc = pc]
        PROVE  Knows
    <3>1. req'[x].pc = pc /\ req'[x].token = q.token
      BY <2>3 DEF RequestState
    <3> QED BY <1>1, <2>3, <3>1 DEF TokensWereIssued
  <2> QED BY <1>3, <2>1, <2>2, <2>3
<1> QED BY <1>2, <1>3, <1>4, <1>5, <1>6, RequestMoves

LEMMA LoggedOutStep ==
  ASSUME Inv, [Next]_vars
  PROVE  LoggedOutHasNoSession'
<1> USE TimesAssumption DEF Inv, TypeOK
<1>1. SUFFICES ASSUME NEW t \in Token, LoggedOut(t)'
               PROVE  minted'[t] > 0 /\ (session'[t] = 0 \/ minted'[t] = 2)
  BY DEF LoggedOutHasNoSession
<1>2. \/ LoggedOut(t)
      \/ \E x \in Requests : LogoutDeleteSession(x) /\ req[x].token = t
  <2>1. CASE blacklist'[t] # 0 /\ blacklist[t] = 0
    <3>1. PICK r \in Requests : LogoutBlacklist(r)
      BY <2>1, Quiet DEF LoginIssue, LogoutDeleteSession, Tick, Expire
    <3>2. req[r].pc = "blacklist" /\ req[r].token = t
      BY <2>1, <3>1 DEF LogoutBlacklist
    <3> QED BY <3>2 DEF LoggedOut
  <2>2. ASSUME NEW x \in Requests, req'[x].pc = "blacklist", req'[x].token = t
        PROVE  \/ req[x].pc = "blacklist" /\ req[x].token = t
               \/ LogoutDeleteSession(x) /\ req[x].token = t
    <3>1. CASE req'[x] = req[x]
      BY <2>2, <3>1
    <3>2. req'[x] # Idle
      BY <2>2, IdleType
    <3>3. ASSUME LoginGetUser(x)
          PROVE  FALSE
      <4>1. PICK a \in Accounts, right \in BOOLEAN :
              Proceed(x, [Idle EXCEPT !.pc = IF right THEN "issue" ELSE "fail",
                                      !.account = a, !.row = accounts[a]])
        BY <3>3, Zenon DEF LoginGetUser
      <4> QED BY <2>2, <4>1, IdleType DEF Proceed, RequestState
    <3>4. ASSUME CheckBlacklist(x)
          PROVE  FALSE
      <4>1. PICK u \in Token, logout \in BOOLEAN :
              Proceed(x, [Idle EXCEPT !.pc = "account", !.token = u, !.logout = logout])
        BY <3>4, Zenon DEF CheckBlacklist
      <4> QED BY <2>2, <4>1, IdleType DEF Proceed, RequestState
    <3>5. ~LoginIssue(x) /\ ~CheckAccount(x) /\ ~CheckSession(x)
      BY <2>2, IdleType
         DEF LoginIssue, CheckAccount, CheckSession, Finish, Proceed, RequestState
    <3>6. CASE LogoutDeleteSession(x)
      BY <2>2, <3>6 DEF LogoutDeleteSession, Proceed, RequestState
    <3> QED BY <3>1, <3>2, <3>3, <3>4, <3>5, <3>6, RequestMoves
  <2>3. CASE IsBlacklisted(t)
    BY <2>3 DEF LoggedOut
  <2> QED BY <1>1, <2>1, <2>2, <2>3 DEF LoggedOut, IsBlacklisted
<1>3. ASSUME NEW x \in Requests, LogoutDeleteSession(x), req[x].token = t
      PROVE  minted'[t] > 0 /\ (session'[t] = 0 \/ minted'[t] = 2)
  BY <1>3 DEF LogoutDeleteSession, TokensWereIssued
<1>4. ASSUME LoggedOut(t), NEW r \in Requests, LoginIssue(r)
      PROVE  minted'[t] > 0 /\ (session'[t] = 0 \/ minted'[t] = 2)
  <2>1. PICK u : /\ session' = [session EXCEPT ![u] = clock + SessionLife]
                 /\ minted' = [minted EXCEPT ![u] = IF @ < 2 THEN @ + 1 ELSE @]
    BY <1>4 DEF LoginIssue
  <2>2. minted[t] \in {1, 2} /\ (session[t] = 0 \/ minted[t] = 2)
    BY <1>4 DEF LoggedOutHasNoSession
  <2>3. CASE t = u
    BY <2>1, <2>2, <2>3
  <2>4. CASE t # u
    BY <2>1, <2>2, <2>4
  <2> QED BY <2>3, <2>4
<1>5. ASSUME LoggedOut(t), NEW r \in Requests, LogoutDeleteSession(r)
      PROVE  minted'[t] > 0 /\ (session'[t] = 0 \/ minted'[t] = 2)
  BY <1>5 DEF LogoutDeleteSession, LoggedOutHasNoSession
<1>6. ASSUME LoggedOut(t), Tick
      PROVE  minted'[t] > 0 /\ (session'[t] = 0 \/ minted'[t] = 2)
  BY <1>6 DEF Tick, Expire, LoggedOutHasNoSession
<1> QED
  BY <1>2, <1>3, <1>4, <1>5, <1>6, Quiet DEF LogoutBlacklist, LoggedOutHasNoSession

-----------------------------------------------------------------------------
(***************************************************************************)
(* The theorems.                                                           *)
(***************************************************************************)

\* Inv holds at all times: a logged-out token has no session, a blacklisted one
\* neither but by a second login, and no failed login leaves a trace.
THEOREM Invariance == Spec => []Inv
<1>1. ASSUME Inv, [Next]_vars
      PROVE  Inv'
  <2>1. TokensWereIssued'
    BY <1>1, TokensStep DEF TokensWereIssued
  <2> QED BY <1>1, <2>1, TypeStep, FailuresStep, RevokedStep, LoggedOutStep DEF Inv
<1> QED BY InitInv, <1>1, PTL DEF Spec

\* Rows, keys and requests keep their types through every handler of auth_service.py
\* and deps.py.
THEOREM TypeCorrectness == Spec => []TypeOK
<1>1. Inv => TypeOK
  BY DEF Inv
<1> QED BY Invariance, <1>1, PTL

\* No account is ever locked and no counter of failures ever rises in the
\* database: get_db rolls back what authenticate_user wrote before it refused.
THEOREM LockoutNeverHappens == Spec => []FailuresLeaveNoTrace
<1>1. Inv => FailuresLeaveNoTrace
  BY DEF Inv
<1> QED BY Invariance, <1>1, PTL

\* A token with a session is blacklisted only when two logins issued it within one
\* second (create_session and logout of auth_service.py).
THEOREM OnlyReissueIsRefused == Spec => []BlacklistedSessionIsReissued
<1>1. Inv => BlacklistedSessionIsReissued
  BY DEF Inv, TypeOK, LoggedOutHasNoSession, LoggedOut, BlacklistedSessionIsReissued, HasSession
<1> QED BY Invariance, <1>1, PTL

\* get_current_user never accepts a token that was logged out and not issued again,
\* however the requests that carry it interleave with the logout.
THEOREM RevokedIsRefused == Spec => RevokedNeverAccepted
<1>1. Inv /\ [Next]_vars
        => [\A r \in Requests :
              CheckSession(r) /\ Accepts(r) => req[r].token \notin revoked]_vars
  BY DEF Inv, RevokedHasNoSession, Accepts, HasSession
<1> QED BY Invariance, <1>1, PTL DEF Spec, RevokedNeverAccepted

=============================================================================
