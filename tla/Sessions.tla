------------------------------ MODULE Sessions ------------------------------
(***************************************************************************)
(* Login, logout and the check every authenticated request passes          *)
(* (AuthService, get_current_user), over the users table and the two kinds *)
(* of Redis keys, session:<user>:<token> and blacklist:<token>.            *)
(*                                                                         *)
(* A request takes one step per Redis call or database statement, with     *)
(* those of other requests in between.  Time passes in seconds: that is    *)
(* the resolution of a token, whose text depends on the account, the role  *)
(* and the second it expires in, so that two logins within a second get    *)
(* the same token.  A token is here the account and that second.  Refresh  *)
(* tokens are issued and never stored or accepted; they are left out.      *)
(***************************************************************************)
EXTENDS Integers, FiniteSets

CONSTANTS Requests,      \* names of HTTP requests, free again when one ends
          Accounts,      \* rows of users
          MaxAttempts,   \* MAX_LOGIN_ATTEMPTS
          Lockout,       \* LOCKOUT_DURATION_MINUTES, in seconds
          TokenLife,     \* ACCESS_TOKEN_EXPIRE_MINUTES, in seconds
          SessionLife,   \* SESSION_TIMEOUT_MINUTES, in seconds
          MaxTime,       \* bound on the clock
          NULL           \* SQL NULL, and no value

ASSUME TimesAssumption ==
  /\ MaxAttempts \in Nat \ {0}
  /\ Lockout \in Nat \ {0} /\ TokenLife \in Nat \ {0} /\ SessionLife \in Nat \ {0}
  /\ MaxTime \in Nat
  /\ NULL \notin Int

VARIABLES clock,      \* the current second
          accounts,   \* table users: is_active, failed_login_attempts, locked_until
          session,    \* Redis: the second each session key expires in, 0 without key
          blacklist,  \* Redis: the same for the blacklist keys
          req,        \* the requests being served
          minted,     \* history: how often a login has issued the token (up to 2)
          revoked,    \* history: tokens logged out and not issued again since
          wrong       \* history: wrong passwords in a row (up to MaxAttempts)

vars == <<clock, accounts, session, blacklist, req, minted, revoked, wrong>>

Token == Accounts \X (TokenLife .. MaxTime + TokenLife)
Owner(t) == t[1]
Exp(t) == t[2]

AccountRow == [active : BOOLEAN, failed : Nat, lockedUntil : Nat \cup {NULL}]

\* pc is the next call of the request.
RequestState ==
  [pc : {"idle", "fail", "issue", "commit", "account", "session", "delete", "blacklist"},
   account : Accounts \cup {NULL}, row : AccountRow \cup {NULL},
   token : Token \cup {NULL}, logout : BOOLEAN]

Idle == [pc |-> "idle", account |-> NULL, row |-> NULL, token |-> NULL,
         logout |-> FALSE]

Proceed(r, q) == req' = [req EXCEPT ![r] = q]
Finish(r) == Proceed(r, Idle)

HasSession(t) == session[t] # 0
IsBlacklisted(t) == blacklist[t] # 0

\* jose accepts a token through the whole second of its exp.
Decodes(t) == Exp(t) >= clock

\* Mutant: whatever was flushed is committed.
GetDbCommits(raised, before, flushed) == flushed

\* get_db: the row a transaction leaves behind.  An exception that reaches the
\* dependency, an HTTPException too, rolls back what was flushed.
GetDb(raised, before, flushed) == IF raised THEN before ELSE flushed

Init ==
  /\ clock = 0
  /\ accounts = [a \in Accounts |-> [active |-> TRUE, failed |-> 0, lockedUntil |-> NULL]]
  /\ session = [t \in Token |-> 0]
  /\ blacklist = [t \in Token |-> 0]
  /\ req = [r \in Requests |-> Idle]
  /\ minted = [t \in Token |-> 0]
  /\ revoked = {}
  /\ wrong = [a \in Accounts |-> 0]

-----------------------------------------------------------------------------
(***************************************************************************)
(* Login.                                                                  *)
(***************************************************************************)

\* authenticate_user loads the row and looks at the lock.  The column comes back
\* with a time zone and is compared with datetime.utcnow(), which has none: with
\* any lock the comparison raises, so that every value but NULL ends the request.
LoginGetUser(r) ==
  /\ req[r].pc = "idle"
  /\ \E a \in Accounts, right \in BOOLEAN :
       /\ accounts[a].lockedUntil = NULL
       /\ right => accounts[a].active
       /\ Proceed(r, [Idle EXCEPT !.pc = IF right THEN "issue" ELSE "fail",
                                  !.account = a, !.row = accounts[a]])
  /\ UNCHANGED <<clock, accounts, session, blacklist, minted, revoked, wrong>>

\* A wrong password: the counter is incremented on the row loaded; the second
\* test reads it again after the flush has refreshed it, one higher.  Both
\* outcomes, 401 and 423, are raised as HTTPException.
LoginFail(r) ==
  /\ req[r].pc = "fail"
  /\ LET a == req[r].account
         failed == req[r].row.failed + 1
         locked == IF failed + 1 >= MaxAttempts THEN clock + Lockout
                                                ELSE req[r].row.lockedUntil
         flushed == [accounts[a] EXCEPT !.failed = failed, !.lockedUntil = locked]
     IN  /\ accounts' = [accounts EXCEPT ![a] = GetDb(TRUE, @, flushed)]
         /\ wrong' = [wrong EXCEPT ![a] = IF @ < MaxAttempts THEN @ + 1 ELSE @]
  /\ Finish(r)
  /\ UNCHANGED <<clock, session, blacklist, minted, revoked>>

\* The right password: the counter is reset and flushed; create_session issues a
\* token and stores the session in Redis, which no rollback undoes.
LoginIssue(r) ==
  /\ req[r].pc = "issue"
  /\ LET t == <<req[r].account, clock + TokenLife>>
     IN  /\ session' = [session EXCEPT ![t] = clock + SessionLife]
         /\ minted' = [minted EXCEPT ![t] = IF @ < 2 THEN @ + 1 ELSE @]
         /\ revoked' = revoked \ {t}
  /\ Proceed(r, [req[r] EXCEPT !.pc = "commit"])
  /\ UNCHANGED <<clock, accounts, blacklist, wrong>>

\* The response is sent and get_db commits.
LoginCommit(r) ==
  /\ req[r].pc = "commit"
  /\ LET a == req[r].account
     IN  /\ accounts' = [accounts EXCEPT ![a] = GetDb(FALSE, @, [@ EXCEPT !.failed = 0])]
         /\ wrong' = [wrong EXCEPT ![a] = 0]
  /\ Finish(r)
  /\ UNCHANGED <<clock, session, blacklist, minted, revoked>>

-----------------------------------------------------------------------------
(***************************************************************************)
(* get_current_user, and logout behind it.                                 *)
(***************************************************************************)

\* The token presented is one a login has issued; its blacklist key is looked up.
CheckBlacklist(r) ==
  /\ req[r].pc = "idle"
  /\ \E t \in Token, logout \in BOOLEAN :
       /\ minted[t] > 0
       /\ ~IsBlacklisted(t)
       /\ Proceed(r, [Idle EXCEPT !.pc = "account", !.token = t, !.logout = logout])
  /\ UNCHANGED <<clock, accounts, session, blacklist, minted, revoked, wrong>>

\* The token is decoded, which checks exp, and the account is loaded.
CheckAccount(r) ==
  /\ req[r].pc = "account"
  /\ LET t == req[r].token
     IN  IF Decodes(t) /\ accounts[Owner(t)].active
           THEN Proceed(r, [req[r] EXCEPT !.pc = "session"])
           ELSE Finish(r)
  /\ UNCHANGED <<clock, accounts, session, blacklist, minted, revoked, wrong>>

\* With a session the request is accepted: a logout goes on, any other request
\* runs its handler, which is the business of the other modules.
Accepts(r) == req[r].pc = "session" /\ HasSession(req[r].token)

CheckSession(r) ==
  /\ req[r].pc = "session"
  /\ IF Accepts(r) /\ req[r].logout
       THEN Proceed(r, [req[r] EXCEPT !.pc = "delete"])
       ELSE Finish(r)
  /\ UNCHANGED <<clock, accounts, session, blacklist, minted, revoked, wrong>>

\* Mutant: the blacklist alone is to end the session.
LogoutKeepSession(r) ==
  /\ req[r].pc = "delete"
  /\ revoked' = revoked \cup {req[r].token}
  /\ Proceed(r, [req[r] EXCEPT !.pc = "blacklist"])
  /\ UNCHANGED <<clock, accounts, session, blacklist, minted, wrong>>

LogoutDeleteSession(r) ==
  /\ req[r].pc = "delete"
  /\ session' = [session EXCEPT ![req[r].token] = 0]
  /\ revoked' = revoked \cup {req[r].token}
  /\ Proceed(r, [req[r] EXCEPT !.pc = "blacklist"])
  /\ UNCHANGED <<clock, accounts, blacklist, minted, wrong>>

\* The key is to live int(exp - now) seconds: a whole one less unless the second
\* has just begun.  For a token in its last second nothing is stored, and 0 is a
\* time Redis refuses; the request fails and the session stays deleted.
LogoutBlacklist(r) ==
  /\ req[r].pc = "blacklist"
  /\ \E begun \in {0, 1} :
       LET ttl == Exp(req[r].token) - clock - begun
       IN  blacklist' = IF ttl > 0 THEN [blacklist EXCEPT ![req[r].token] = clock + ttl]
                                   ELSE blacklist
  /\ Finish(r)
  /\ UNCHANGED <<clock, accounts, session, minted, revoked, wrong>>

-----------------------------------------------------------------------------
\* An administrator sets is_active (admin.py, update_user_status).
UpdateUserStatus ==
  /\ \E a \in Accounts, active \in BOOLEAN :
       accounts' = [accounts EXCEPT ![a].active = active]
  /\ UNCHANGED <<clock, session, blacklist, req, minted, revoked, wrong>>

\* A second passes, and Redis drops the keys that expire with it.
Expire(keys) == [t \in Token |-> IF keys[t] <= clock + 1 THEN 0 ELSE keys[t]]

Tick ==
  /\ clock < MaxTime
  /\ clock' = clock + 1
  /\ session' = Expire(session)
  /\ blacklist' = Expire(blacklist)
  /\ UNCHANGED <<accounts, req, minted, revoked, wrong>>

\* The request fails or the process dies: the transaction is rolled back, what
\* Redis was told stays.
Crash(r) ==
  /\ req[r].pc # "idle"
  /\ Finish(r)
  /\ UNCHANGED <<clock, accounts, session, blacklist, minted, revoked, wrong>>

Serve(r) ==
  \/ LoginGetUser(r) \/ LoginFail(r) \/ LoginIssue(r) \/ LoginCommit(r)
  \/ CheckBlacklist(r) \/ CheckAccount(r) \/ CheckSession(r)
  \/ LogoutDeleteSession(r) \/ LogoutBlacklist(r)

Next == \/ \E r \in Requests : Serve(r) \/ Crash(r)
        \/ UpdateUserStatus
        \/ Tick

Spec == Init /\ [][Next]_vars

-----------------------------------------------------------------------------
(***************************************************************************)
(* Properties.                                                             *)
(***************************************************************************)

\* Rows, keys and requests have the types of their declarations.
TypeOK ==
  /\ clock \in 0 .. MaxTime
  /\ accounts \in [Accounts -> AccountRow]
  /\ session \in [Token -> Nat] /\ blacklist \in [Token -> Nat]
  /\ req \in [Requests -> RequestState]
  /\ minted \in [Token -> 0 .. 2]
  /\ revoked \in SUBSET Token
  /\ wrong \in [Accounts -> 0 .. MaxAttempts]

\* A token that was logged out, and that no login has issued again since, is
\* never accepted: not by a request that looked at the blacklist before, not while
\* others log in and out, not after a logout that failed half way, and not in the
\* seconds between the end of its blacklist key and its exp (deps.py,
\* get_current_user; auth_service.py, logout).
RevokedNeverAccepted ==
  [][\A r \in Requests :
       CheckSession(r) /\ Accepts(r) => req[r].token \notin revoked]_vars

\* A token is blacklisted while it has a session, and so refused to a user who is
\* logged in, only when two logins issued it within one second
\* (auth_service.py, logout and create_session).
BlacklistedSessionIsReissued ==
  \A t \in Token : IsBlacklisted(t) /\ HasSession(t) => minted[t] = 2

\* What the two rest on: logout deletes the session before anything else, and only
\* a login that issues the same token stores it again; a blacklisted token, or one
\* about to be, has been issued and has no session but by a second login.
RevokedHasNoSession == \A t \in revoked : session[t] = 0

TokensWereIssued == \A r \in Requests :
  /\ req[r].pc \in {"issue", "fail", "commit"} => req[r].account \in Accounts
  /\ req[r].pc = "fail" => req[r].row \in AccountRow
  /\ req[r].pc \in {"account", "session", "delete", "blacklist"} =>
       req[r].token \in Token /\ minted[req[r].token] > 0

LoggedOut(t) == IsBlacklisted(t) \/ \E r \in Requests : req[r].pc = "blacklist" /\ req[r].token = t

LoggedOutHasNoSession ==
  \A t \in Token : LoggedOut(t) => minted[t] > 0 /\ (session[t] = 0 \/ minted[t] = 2)

\* A failed login leaves the account as it was: the counter of failures and the
\* lock are written in a transaction that the refusal itself rolls back
\* (auth_service.py, authenticate_user; database.py, get_db).
FailuresLeaveNoTrace ==
  \A a \in Accounts : accounts[a].failed = 0 /\ accounts[a].lockedUntil = NULL

\* The inductive invariant of the proofs.
Inv == /\ TypeOK
       /\ RevokedHasNoSession
       /\ TokensWereIssued
       /\ LoggedOutHasNoSession
       /\ FailuresLeaveNoTrace

\* An account is locked after MaxAttempts wrong passwords in a row (README, Security).
LockedAfterRepeatedFailures ==
  \A a \in Accounts : wrong[a] >= MaxAttempts => accounts[a].lockedUntil # NULL

=============================================================================
