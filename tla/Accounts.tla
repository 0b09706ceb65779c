------------------------------- MODULE Accounts -------------------------------
(***************************************************************************)
(* Accounts: registration, the scripts that make administrators, the       *)
(* endpoints with which an administrator changes an account, and the       *)
(* profiles.  Tables users, user_roles, roles (which codes exist) and the  *)
(* two profile tables.                                                     *)
(*                                                                         *)
(* A request, or a run of a script, takes one step per statement it        *)
(* decides on, and one for its writes and the commit.  An account is named *)
(* by its e-mail address, which is unique and which no handler changes.    *)
(* Of the columns of users those stay away that only Sessions and          *)
(* PasswordReset read; names are payload.                                  *)
(***************************************************************************)
EXTENDS FiniteSets, Naturals

CONSTANTS Requests,      \* requests and script runs served at once
          Accounts,      \* e-mail addresses
          DefaultAdmin,  \* admin@example.com
          Phones,        \* phone numbers
          UserRoles,     \* the members of UserRole
          Workloads,     \* bound: what clients ask for
          NULL           \* SQL NULL, and an omitted field of a payload

Kinds == {"tourist", "operator"}
RoleCodes == Kinds \cup {"super_admin"}

Operations == {"register", "create_admin", "seed_data", "info", "status",
               "verification", "role", "get_profile", "save_profile",
               "seed_roles", "delete_role"}

ASSUME ConstantsAssumption ==
  /\ IsFiniteSet(Requests)
  /\ DefaultAdmin \in Accounts
  /\ Kinds \cup {"administrator"} \subseteq UserRoles
  /\ NULL \notin Accounts /\ NULL \notin Phones /\ NULL \notin UserRoles
  /\ NULL \notin BOOLEAN
  /\ \A w \in Workloads : /\ w.operations \subseteq Operations
                         /\ w.accounts \subseteq Accounts
                         /\ w.kinds \subseteq Kinds
                         /\ w.phones \subseteq Phones

VARIABLES workload,  \* the workload of this behaviour
          roles,     \* codes in table roles
          users,     \* tables users and user_roles
          profiles,  \* tables tourist_profiles and operator_profiles
          req,       \* the requests being served
          entered    \* history: accounts whose number an update has written

vars == <<workload, roles, users, profiles, req, entered>>

OrNull(S) == S \cup {NULL}

\* origin: what registered the account, or that a script made it.
UserRow ==
  [origin : Kinds \cup {"script", "absent"}, phone : OrNull(Phones), role : UserRoles,
   active : BOOLEAN, verified : BOOLEAN, assigned : SUBSET RoleCodes]

NoUser == [origin |-> "absent", phone |-> NULL, role |-> "tourist",
           active |-> FALSE, verified |-> FALSE, assigned |-> {}]

ProfileState == {"none", "blank", "filled"}

RequestState ==
  [pc : {"idle", "phone", "role", "insert", "assign", "write", "select", "create", "fill"},
   op : Operations \cup {"none"}, account : OrNull(Accounts), kind : OrNull(Kinds),
   seen : UserRow, phone : OrNull(Phones), role : OrNull(UserRoles),
   active : OrNull(BOOLEAN), verified : OrNull(BOOLEAN)]

Idle == [pc |-> "idle", op |-> "none", account |-> NULL, kind |-> NULL, seen |-> NoUser,
         phone |-> NULL, role |-> NULL, active |-> NULL, verified |-> NULL]

Proceed(r, q) == req' = [req EXCEPT ![r] = q]
Finish(r) == Proceed(r, Idle)
Goto(r, pc) == Proceed(r, [req[r] EXCEPT !.pc = pc])

Asks(r, op) == req[r].pc = "idle" /\ op \in workload.operations

Exists(a) == users[a].origin # "absent"

Tables == <<roles, users, profiles, entered>>

Init ==
  /\ workload \in Workloads
  /\ roles \in {{}, RoleCodes}
  /\ users = [a \in Accounts |-> NoUser]
  /\ profiles = [a \in Accounts |-> [k \in Kinds |-> "none"]]
  /\ req = [r \in Requests |-> Idle]
  /\ entered = {}

-----------------------------------------------------------------------------
(***************************************************************************)
(* register_user.                                                          *)
(***************************************************************************)
RegisterGetEmail(r) ==
  /\ Asks(r, "register")
  /\ \E a \in workload.accounts, k \in workload.kinds, p \in OrNull(workload.phones) :
       /\ ~Exists(a)
       /\ Proceed(r, [Idle EXCEPT !.pc = IF p = NULL THEN "role" ELSE "phone",
                                  !.op = "register", !.account = a, !.kind = k, !.phone = p])
  /\ UNCHANGED <<workload, Tables>>

\* Mutant: the number is not looked up.
RegisterAnyPhone(r) == req[r].pc = "phone" /\ Goto(r, "role") /\ UNCHANGED <<workload, Tables>>

\* get_by_phone: one holder refuses the request, two make the query fail.
RegisterGetPhone(r) ==
  /\ req[r].pc = "phone"
  /\ IF \E a \in Accounts : users[a].phone = req[r].phone THEN Finish(r) ELSE Goto(r, "role")
  /\ UNCHANGED <<workload, Tables>>

RegisterGetRole(r) ==
  /\ req[r].pc = "role"
  /\ IF req[r].kind \in roles THEN Goto(r, "insert") ELSE Finish(r)
  /\ UNCHANGED <<workload, Tables>>

\* Mutant: user_roles has no foreign key.
RegisterUnreferenced(r) ==
  /\ req[r].pc = "insert" /\ req[r].op = "register"
  /\ LET q == req[r]
     IN  IF Exists(q.account) THEN UNCHANGED <<users, profiles>>
         ELSE /\ users' = [users EXCEPT ![q.account] =
                   [origin |-> q.kind, phone |-> q.phone, role |-> q.kind, active |-> TRUE,
                    verified |-> q.kind = "tourist", assigned |-> {q.kind}]]
              /\ profiles' = [profiles EXCEPT ![q.account][q.kind] = "blank"]
  /\ Finish(r)
  /\ UNCHANGED <<workload, roles, entered>>

\* The INSERTs into users, user_roles and the profile table, in one transaction.
\* The address may have been registered, and the role deleted, since they were
\* looked up.
RegisterInsert(r) ==
  /\ req[r].pc = "insert" /\ req[r].op = "register"
  /\ LET q == req[r]
     IN  IF ~Exists(q.account) /\ q.kind \in roles
           THEN /\ users' = [users EXCEPT ![q.account] =
                     [origin |-> q.kind, phone |-> q.phone, role |-> q.kind, active |-> TRUE,
                      verified |-> q.kind = "tourist", assigned |-> {q.kind}]]
                /\ profiles' = [profiles EXCEPT ![q.account][q.kind] = "blank"]
           ELSE UNCHANGED <<users, profiles>>
  /\ Finish(r)
  /\ UNCHANGED <<workload, roles, entered>>

-----------------------------------------------------------------------------
(***************************************************************************)
(* scripts/create_admin.py and scripts/seed_data.py.                       *)
(***************************************************************************)
ScriptGetEmail(r) ==
  /\ \E op \in {"create_admin", "seed_data"}, a \in Accounts, p \in OrNull(workload.phones) :
       /\ Asks(r, op)
       /\ IF op = "create_admin" THEN a \in workload.accounts
                                 ELSE a = DefaultAdmin /\ p = NULL
       /\ ~Exists(a)
       /\ Proceed(r, [Idle EXCEPT !.pc = "insert", !.op = op, !.account = a, !.phone = p])
  /\ UNCHANGED <<workload, Tables>>

\* The account is committed before its role is looked up.
ScriptInsert(r) ==
  /\ req[r].pc = "insert" /\ req[r].op \in {"create_admin", "seed_data"}
  /\ LET q == req[r]
     IN  IF Exists(q.account)
           THEN users' = users /\ Finish(r)
           ELSE /\ users' = [users EXCEPT ![q.account] =
                     [origin |-> "script", phone |-> q.phone, role |-> "administrator",
                      active |-> TRUE, verified |-> TRUE, assigned |-> {}]]
                /\ IF q.op = "create_admin" THEN Goto(r, "assign") ELSE Finish(r)
  /\ UNCHANGED <<workload, roles, profiles, entered>>

ScriptAssign(r) ==
  /\ req[r].pc = "assign"
  /\ users' = [users EXCEPT ![req[r].account].assigned = @ \cup ({"super_admin"} \cap roles)]
  /\ Finish(r)
  /\ UNCHANGED <<workload, roles, profiles, entered>>

-----------------------------------------------------------------------------
(***************************************************************************)
(* Endpoints that update a row of users.  They load the row, decide on     *)
(* what it holds, and write the columns of the payload.                    *)
(***************************************************************************)

\* require_permission("user.update"): an administrator, or a holder of super_admin,
\* the one seeded role with that permission.
SomeManager == \E c \in Accounts : /\ users[c].active
                                   /\ \/ users[c].role = "administrator"
                                      \/ "super_admin" \in users[c].assigned

\* update_user_info: an account changes its own number, which nothing compares
\* with the others.
InfoLoad(r) ==
  /\ Asks(r, "info")
  /\ \E a \in workload.accounts, p \in workload.phones :
       /\ users[a].active
       /\ Proceed(r, [Idle EXCEPT !.pc = "write", !.op = "info", !.account = a,
                                  !.seen = users[a], !.phone = p])
  /\ UNCHANGED <<workload, Tables>>

StatusLoad(r) ==
  /\ Asks(r, "status") /\ SomeManager
  /\ \E a \in workload.accounts, active, verified \in OrNull(BOOLEAN) :
       /\ Exists(a) /\ users[a].role # "administrator"
       /\ Proceed(r, [Idle EXCEPT !.pc = "write", !.op = "status", !.account = a,
                                  !.seen = users[a], !.active = active, !.verified = verified])
  /\ UNCHANGED <<workload, Tables>>

VerificationLoad(r) ==
  /\ Asks(r, "verification") /\ SomeManager
  /\ \E a \in workload.accounts, verified \in BOOLEAN :
       /\ Exists(a) /\ users[a].role = "operator"
       /\ Proceed(r, [Idle EXCEPT !.pc = "write", !.op = "verification", !.account = a,
                                  !.seen = users[a], !.verified = verified])
  /\ UNCHANGED <<workload, Tables>>

\* Mutant: administrators are not excepted.
AnyRoleLoad(r) ==
  /\ Asks(r, "role") /\ SomeManager
  /\ \E a \in workload.accounts, role \in UserRoles :
       /\ Exists(a)
       /\ Proceed(r, [Idle EXCEPT !.pc = "write", !.op = "role", !.account = a,
                                  !.seen = users[a], !.role = role])
  /\ UNCHANGED <<workload, Tables>>

RoleLoad(r) ==
  /\ Asks(r, "role") /\ SomeManager
  /\ \E a \in workload.accounts, role \in UserRoles :
       /\ Exists(a) /\ users[a].role # "administrator"
       /\ Proceed(r, [Idle EXCEPT !.pc = "write", !.op = "role", !.account = a,
                                  !.seen = users[a], !.role = role])
  /\ UNCHANGED <<workload, Tables>>

\* BaseRepository.update skips what is None, and the UPDATE names the columns that
\* differ from the row loaded; its only condition is the id.
Changed(new, old, current) == IF new # NULL /\ new # old THEN new ELSE current

\* Mutant: the UPDATE writes the whole row that was loaded.
UpdateWholeRow(r) ==
  /\ req[r].pc = "write"
  /\ LET q == req[r]
     IN  users' = [users EXCEPT ![q.account] =
           [q.seen EXCEPT !.phone = Changed(q.phone, @, @), !.role = Changed(q.role, @, @),
                          !.active = Changed(q.active, @, @),
                          !.verified = Changed(q.verified, @, @)]]
  /\ Finish(r)
  /\ UNCHANGED <<workload, roles, profiles, entered>>

UpdateWrite(r) ==
  /\ req[r].pc = "write"
  /\ LET q == req[r]
         row == users[q.account]
     IN  /\ users' = [users EXCEPT ![q.account] =
              [row EXCEPT !.phone = Changed(q.phone, q.seen.phone, row.phone),
                          !.role = Changed(q.role, q.seen.role, row.role),
                          !.active = Changed(q.active, q.seen.active, row.active),
                          !.verified = Changed(q.verified, q.seen.verified, row.verified)]]
         /\ entered' = IF q.phone \notin {NULL, q.seen.phone} THEN entered \cup {q.account}
                                                             ELSE entered
  /\ Finish(r)
  /\ UNCHANGED <<workload, roles, profiles>>

-----------------------------------------------------------------------------
(***************************************************************************)
(* ProfileService.  Saving a profile gets or creates it, which commits,    *)
(* and then writes its fields.                                             *)
(***************************************************************************)
ProfileGetUser(r) ==
  /\ \E op \in {"get_profile", "save_profile"}, a \in workload.accounts, k \in Kinds :
       /\ Asks(r, op)
       /\ users[a].active /\ users[a].role = k
       /\ Proceed(r, [Idle EXCEPT !.pc = "select", !.op = op, !.account = a, !.kind = k])
  /\ UNCHANGED <<workload, Tables>>

\* What get_or_create returns to.
Got(r) == IF req[r].op = "save_profile" THEN Goto(r, "fill") ELSE Finish(r)

ProfileSelect(r) ==
  /\ req[r].pc = "select"
  /\ IF profiles[req[r].account][req[r].kind] = "none" THEN Goto(r, "create") ELSE Got(r)
  /\ UNCHANGED <<workload, Tables>>

\* Mutant: without the unique constraint's refusal the new row replaces the old.
ProfileReplace(r) ==
  /\ req[r].pc = "create"
  /\ profiles' = [profiles EXCEPT ![req[r].account][req[r].kind] = "blank"]
  /\ Got(r)
  /\ UNCHANGED <<workload, roles, users, entered>>

\* user_id is unique: the second of two first requests fails.
ProfileCreate(r) ==
  /\ req[r].pc = "create"
  /\ IF profiles[req[r].account][req[r].kind] = "none"
       THEN /\ profiles' = [profiles EXCEPT ![req[r].account][req[r].kind] = "blank"]
            /\ Got(r)
       ELSE profiles' = profiles /\ Finish(r)
  /\ UNCHANGED <<workload, roles, users, entered>>

ProfileFill(r) ==
  /\ req[r].pc = "fill"
  /\ profiles' = [profiles EXCEPT ![req[r].account][req[r].kind] = "filled"]
  /\ Finish(r)
  /\ UNCHANGED <<workload, roles, users, entered>>

-----------------------------------------------------------------------------
(***************************************************************************)
(* Roles come and go (module Roles tells how).                             *)
(***************************************************************************)

\* seed_roles: all codes exist, and the default administrator holds super_admin.
SeedRoles ==
  /\ "seed_roles" \in workload.operations
  /\ roles' = RoleCodes
  /\ users' = IF Exists(DefaultAdmin)
                THEN [users EXCEPT ![DefaultAdmin].assigned = @ \cup {"super_admin"}]
                ELSE users
  /\ UNCHANGED <<workload, profiles, req, entered>>

\* delete_role: the rows of user_roles go with the role.  super_admin is a system
\* role.
DeleteRole ==
  /\ "delete_role" \in workload.operations
  /\ \E c \in roles \cap Kinds :
       /\ roles' = roles \ {c}
       /\ users' = [a \in Accounts |-> [users[a] EXCEPT !.assigned = @ \ {c}]]
  /\ UNCHANGED <<workload, profiles, req, entered>>

\* The request fails or the process dies: what it has committed stays.
Crash(r) == req[r].pc # "idle" /\ Finish(r) /\ UNCHANGED <<workload, Tables>>

Serve(r) ==
  \/ RegisterGetEmail(r) \/ RegisterGetPhone(r) \/ RegisterGetRole(r) \/ RegisterInsert(r)
  \/ ScriptGetEmail(r) \/ ScriptInsert(r) \/ ScriptAssign(r)
  \/ InfoLoad(r) \/ StatusLoad(r) \/ VerificationLoad(r) \/ RoleLoad(r) \/ UpdateWrite(r)
  \/ ProfileGetUser(r) \/ ProfileSelect(r) \/ ProfileCreate(r) \/ ProfileFill(r)

Next == (\E r \in Requests : Serve(r) \/ Crash(r)) \/ SeedRoles \/ DeleteRole

Spec == Init /\ [][Next]_vars

-----------------------------------------------------------------------------
(***************************************************************************)
(* Properties.                                                             *)
(***************************************************************************)

\* Rows and requests have the types of their declarations.
TypeOK ==
  /\ workload \in Workloads
  /\ roles \subseteq RoleCodes
  /\ users \in [Accounts -> UserRow]
  /\ profiles \in [Accounts -> [Kinds -> ProfileState]]
  /\ req \in [Requests -> RequestState]
  /\ entered \subseteq Accounts

RegisteredWith(p) == {a \in Accounts \ entered : users[a].origin \in Kinds /\ users[a].phone = p}
RegisteringWith(p) == {r \in Requests : /\ req[r].op = "register" /\ req[r].phone = p
                                        /\ req[r].pc \in {"role", "insert"}}

\* Registrations that race may share a phone number, but no more of them than were
\* served at once: the first to commit makes get_by_phone refuse all that ask later
\* (auth_service.py, register_user: "An account with this phone number already
\* exists").  Numbers an account has given itself by an update are not counted.
PhoneSharingIsBounded ==
  \A p \in Phones : Cardinality(RegisteredWith(p)) <= Cardinality(Requests)

\* An administrator made by a script stays an active, verified administrator: every
\* request that would change it finds it an administrator, so that the system
\* always keeps somebody who may administer it (admin.py, update_user_status and
\* update_user_role).
ScriptAdministratorsStand ==
  \A a \in Accounts : users[a].origin = "script" =>
    users[a].role = "administrator" /\ users[a].active /\ users[a].verified

\* Requests about to update account a that loaded it before it was an administrator.
Stale(a) == {r \in Requests : /\ req[r].pc = "write" /\ req[r].account = a
                              /\ req[r].seen.role # "administrator"}

\* An account that was made an administrator by update_user_role is deactivated,
\* or loses its role, only by a request that loaded it before ("Cannot update
\* administrator role", admin.py): a later request cannot.
AdministratorsYieldOnlyToStaleRequests ==
  [][\A a \in Accounts :
       users[a].role = "administrator" /\ Stale(a) = {} =>
         /\ users'[a].role = "administrator"
         /\ users'[a].active = users[a].active
         /\ users'[a].verified = users[a].verified]_vars

\* A registered account has the profile it registered for, and is assigned no role
\* but that one, whatever role an administrator gives it later; nobody
\* holds a role that does not exist, and no profile is without its account
\* (auth_service.py, register_user).
AccountsAreWhole ==
  \A a \in Accounts :
    /\ users[a].assigned \subseteq roles
    /\ users[a].assigned \subseteq {users[a].origin, "super_admin"}
    /\ users[a].origin \in Kinds => profiles[a][users[a].origin] # "none"
    /\ \A k \in Kinds : profiles[a][k] # "none" => Exists(a)

\* A profile is created once and what was saved in it is not lost to another first
\* request (profile_service.py, get_or_create_tourist_profile).
SavedProfilesStay ==
  [][\A a \in Accounts, k \in Kinds :
       /\ profiles[a][k] # "none" => profiles'[a][k] # "none"
       /\ profiles[a][k] = "filled" => profiles'[a][k] = "filled"]_vars

\* The inductive invariant: a request fits its operation, and one about to update a
\* script's administrator is the administrator's own;
LeavesStatus(q) == q.role = NULL /\ q.active = NULL /\ q.verified = NULL

Fits(q) ==
  /\ q.pc # "idle" => q.account \in Accounts
  /\ q.pc = "phone" => q.phone \in Phones
  /\ q.pc \in {"phone", "role"} => q.op = "register"
  /\ q.op = "register" => q.kind \in Kinds
  /\ q.pc = "assign" => users[q.account].origin = "script"
  /\ q.pc \in {"select", "create", "fill"} => q.kind \in Kinds /\ Exists(q.account)
  /\ q.pc = "write" =>
       /\ Exists(q.account)
       /\ users[q.account].origin = "script" => LeavesStatus(q)
       /\ q.seen.role = "administrator" => LeavesStatus(q)

RequestsFit == \A r \in Requests : Fits(req[r])

\* accounts that do not exist are empty;
AbsentAreEmpty == \A a \in Accounts : ~Exists(a) => users[a] = NoUser

\* accounts registered and still registering with a number are bounded together.
NumbersAreBounded ==
  \A p \in Phones :
    /\ IsFiniteSet(RegisteredWith(p))
    /\ Cardinality(RegisteredWith(p)) + Cardinality(RegisteringWith(p)) <= Cardinality(Requests)

Inv == /\ TypeOK /\ RequestsFit /\ AbsentAreEmpty /\ NumbersAreBounded
       /\ ScriptAdministratorsStand /\ AccountsAreWhole

=============================================================================
