-------------------------------- MODULE Roles --------------------------------
(***************************************************************************)
(* Roles and their permissions: RoleService and the script that seeds      *)
(* them, over the tables permissions, roles and role_permissions.          *)
(*                                                                         *)
(* A request takes one step per statement it decides on, and one for its   *)
(* writes and the commit.  Its name is spent with it and stays on the      *)
(* permissions it has granted.  The caller of a request has the permission *)
(* it takes (Accounts!SomeManager).  Of a role's columns its code and      *)
(* is_system_role decide something; is_active is written and never read.   *)
(***************************************************************************)
EXTENDS FiniteSets, Integers

CONSTANTS Requests,     \* names of HTTP requests
          RoleIds,      \* bound: values of roles.id
          Codes,        \* role codes
          Permissions,  \* permissions the script seeds
          SeededRoles,  \* codes of the role_specs
          SystemRoles,  \* those with is_system_role
          Seeded,       \* permissions of a role_spec
          SEED,         \* the script, as the one that granted a permission
          MaxInFlight,  \* bound on requests being served at once
          NULL          \* no value

ASSUME ConstantsAssumption ==
  /\ SystemRoles \subseteq SeededRoles /\ SeededRoles \subseteq Codes
  /\ Seeded \in [SeededRoles -> SUBSET Permissions]
  /\ MaxInFlight \in Nat \ {0}
  /\ SEED \notin Requests
  /\ NULL \notin Requests \cup {SEED} /\ NULL \notin RoleIds /\ NULL \notin Codes

VARIABLES permissions,  \* table permissions
          roles,        \* table roles; code NULL: no such row
          granted,      \* table role_permissions: who granted it, or NULL
          req           \* the requests

vars == <<permissions, roles, granted, req>>

RoleRow == [code : Codes \cup {NULL}, system : BOOLEAN]

NoRole == [code |-> NULL, system |-> FALSE]

RequestState ==
  [pc : {"idle", "insert", "fields", "permissions", "replace", "delete", "spent"},
   role : RoleIds \cup {NULL}, code : Codes \cup {NULL}, system : BOOLEAN,
   fields : BOOLEAN, new : SUBSET Permissions, keeps : BOOLEAN,
   loaded : SUBSET Permissions]

Idle == [pc |-> "idle", role |-> NULL, code |-> NULL, system |-> FALSE,
         fields |-> FALSE, new |-> {}, keeps |-> FALSE, loaded |-> {}]

Proceed(r, q) == req' = [req EXCEPT ![r] = q]
FinishSpent(r) == Proceed(r, [Idle EXCEPT !.pc = "spent"])
Goto(r, pc) == Proceed(r, [req[r] EXCEPT !.pc = pc])

InFlight == {r \in Requests : req[r].pc \notin {"idle", "spent"}}

Begins(r) == req[r].pc = "idle" /\ Cardinality(InFlight) < MaxInFlight

Present(i) == roles[i].code # NULL
CodeTaken(c) == \E i \in RoleIds : roles[i].code = c
PermissionsOf(i) == {p \in Permissions : granted[i][p] # NULL}

\* A new id: no row and no request has it.
Fresh(i) == ~Present(i) /\ \A r \in Requests : req[r].role # i

Granting(S, who) == [p \in Permissions |-> IF p \in S THEN who ELSE NULL]

Init ==
  /\ permissions = {}
  /\ roles = [i \in RoleIds |-> NoRole]
  /\ granted = [i \in RoleIds |-> Granting({}, NULL)]
  /\ req = [r \in Requests |-> Idle]

-----------------------------------------------------------------------------
(***************************************************************************)
(* create_role.                                                            *)
(***************************************************************************)
CreateGetCode(r) ==
  /\ Begins(r)
  /\ \E c \in Codes, S \in SUBSET Permissions :
       /\ ~CodeTaken(c)
       /\ Proceed(r, [Idle EXCEPT !.pc = "insert", !.code = c, !.new = S])
  /\ UNCHANGED <<permissions, roles, granted>>

\* Mutant: the code is not unique.
CreateAnyCode(r) ==
  /\ req[r].pc = "insert"
  /\ \E i \in RoleIds :
       /\ Fresh(i)
       /\ roles' = [roles EXCEPT ![i] = [code |-> req[r].code, system |-> FALSE]]
       /\ granted' = [granted EXCEPT ![i] = Granting(req[r].new, r)]
  /\ FinishSpent(r)
  /\ UNCHANGED permissions

\* The role and its permissions are inserted in one transaction, which the unique
\* code and the foreign key of permission_id may refuse.
CreateInsert(r) ==
  /\ req[r].pc = "insert"
  /\ IF CodeTaken(req[r].code) \/ ~(req[r].new \subseteq permissions)
       THEN UNCHANGED <<roles, granted>>
       ELSE \E i \in RoleIds :
              /\ Fresh(i)
              /\ roles' = [roles EXCEPT ![i] = [code |-> req[r].code, system |-> FALSE]]
              /\ granted' = [granted EXCEPT ![i] = Granting(req[r].new, r)]
  /\ FinishSpent(r)
  /\ UNCHANGED permissions

-----------------------------------------------------------------------------
(***************************************************************************)
(* update_role.  "fields": the payload has other fields; "keeps": it has   *)
(* no permission_ids.                                                      *)
(***************************************************************************)

\* A transaction that has updated a row of roles holds it until its commit.
Locked(i) == \E r \in Requests : /\ req[r].pc \in {"permissions", "replace"}
                                 /\ req[r].role = i /\ req[r].fields

\* Mutant: system roles are not excepted.
UpdateGetAnyRole(r) ==
  /\ Begins(r)
  /\ \E i \in RoleIds, fields, keeps \in BOOLEAN, S \in SUBSET Permissions :
       /\ Present(i)
       /\ fields \/ ~keeps
       /\ keeps => S = {}
       /\ Proceed(r, [Idle EXCEPT !.pc = IF fields THEN "fields" ELSE "permissions",
                                  !.role = i, !.system = roles[i].system,
                                  !.fields = fields, !.new = S, !.keeps = keeps])
  /\ UNCHANGED <<permissions, roles, granted>>

UpdateGetRole(r) ==
  /\ Begins(r)
  /\ \E i \in RoleIds, fields, keeps \in BOOLEAN, S \in SUBSET Permissions :
       /\ Present(i) /\ ~roles[i].system
       /\ fields \/ ~keeps
       /\ keeps => S = {}
       /\ Proceed(r, [Idle EXCEPT !.pc = IF fields THEN "fields" ELSE "permissions",
                                  !.role = i, !.system = roles[i].system,
                                  !.fields = fields, !.new = S, !.keeps = keeps])
  /\ UNCHANGED <<permissions, roles, granted>>

\* BaseRepository.update flushes the fields, unless the role has gone, and reads the
\* role again.
UpdateFields(r) ==
  /\ req[r].pc = "fields"
  /\ ~Locked(req[r].role)
  /\ IF Present(req[r].role) /\ ~req[r].keeps THEN Goto(r, "permissions") ELSE FinishSpent(r)
  /\ UNCHANGED <<permissions, roles, granted>>

\* The permissions the session knows: loaded with the role, or again after the
\* fields were written.
UpdateGetPermissions(r) ==
  /\ req[r].pc = "permissions"
  /\ Proceed(r, [req[r] EXCEPT !.pc = "replace", !.loaded = PermissionsOf(req[r].role)])
  /\ UNCHANGED <<permissions, roles, granted>>

\* What get_by_ids finds of the permission_ids.
New(r) == req[r].new \cap permissions

\* Mutants: permissions are only added; the new set is written as a whole.
ReplaceAdds(r) ==
  /\ req[r].pc = "replace"
  /\ granted' = [granted EXCEPT ![req[r].role] =
       [p \in Permissions |-> IF p \in New(r) /\ @[p] = NULL THEN r ELSE @[p]]]
  /\ FinishSpent(r)
  /\ UNCHANGED <<permissions, roles>>

ReplaceWhole(r) ==
  /\ req[r].pc = "replace"
  /\ granted' = IF Present(req[r].role)
                  THEN [granted EXCEPT ![req[r].role] = Granting(New(r), r)] ELSE granted
  /\ FinishSpent(r)
  /\ UNCHANGED <<permissions, roles>>

\* role.permissions = permissions: the flush deletes what was loaded and is not new
\* and inserts what is new and was not loaded.  An insert fails, and with it the
\* transaction, when the row is there or the role is gone.
UpdateReplace(r) ==
  /\ req[r].pc = "replace"
  /\ LET i == req[r].role
         inserted == New(r) \ req[r].loaded
         deleted == req[r].loaded \ New(r)
     IN  IF Present(i) /\ inserted \cap PermissionsOf(i) = {}
           THEN granted' = [granted EXCEPT ![i] = [p \in Permissions |->
                  IF p \in inserted \/ (p \in New(r) /\ granted[i][p] # NULL) THEN r
                  ELSE IF p \in deleted THEN NULL
                  ELSE granted[i][p]]]
           ELSE granted' = granted
  /\ FinishSpent(r)
  /\ UNCHANGED <<permissions, roles>>

-----------------------------------------------------------------------------
(***************************************************************************)
(* delete_role.                                                            *)
(***************************************************************************)
DeleteGetRole(r) ==
  /\ Begins(r)
  /\ \E i \in RoleIds :
       /\ Present(i) /\ ~roles[i].system
       /\ Proceed(r, [Idle EXCEPT !.pc = "delete", !.role = i, !.system = roles[i].system])
  /\ UNCHANGED <<permissions, roles, granted>>

DeleteWrite(r) ==
  /\ req[r].pc = "delete"
  /\ ~Locked(req[r].role)
  /\ roles' = [roles EXCEPT ![req[r].role] = NoRole]
  /\ granted' = [granted EXCEPT ![req[r].role] = Granting({}, NULL)]
  /\ FinishSpent(r)
  /\ UNCHANGED permissions

-----------------------------------------------------------------------------
(***************************************************************************)
(* scripts/seed_permissions.py.                                            *)
(***************************************************************************)
SeedPermissions ==
  /\ permissions' = Permissions
  /\ UNCHANGED <<roles, granted, req>>

\* seed_roles: one transaction.  It fails if a role it has looked up has been
\* created or deleted when it writes, so that its statements may be taken together.
\* It adds the permissions of a role_spec and removes none.
SeedRoles ==
  /\ permissions = Permissions
  /\ \E id \in [SeededRoles -> RoleIds] :
       /\ \A c \in SeededRoles : IF CodeTaken(c) THEN roles[id[c]].code = c ELSE Fresh(id[c])
       /\ \A c, d \in SeededRoles : id[c] = id[d] => c = d
       /\ \A c \in SeededRoles : ~Locked(id[c])
       /\ roles' = [i \in RoleIds |->
            IF \E c \in SeededRoles : id[c] = i
              THEN LET c == CHOOSE d \in SeededRoles : id[d] = i
                   IN  [code |-> c, system |-> c \in SystemRoles]
              ELSE roles[i]]
       /\ granted' = [i \in RoleIds |-> [p \in Permissions |->
            IF granted[i][p] = NULL /\ \E c \in SeededRoles : id[c] = i /\ p \in Seeded[c]
              THEN SEED ELSE granted[i][p]]]
  /\ UNCHANGED <<permissions, req>>

-----------------------------------------------------------------------------
\* The request fails, at a name that is taken for one, or the process dies.
Crash(r) == r \in InFlight /\ FinishSpent(r) /\ UNCHANGED <<permissions, roles, granted>>

Serve(r) ==
  \/ CreateGetCode(r) \/ CreateInsert(r)
  \/ UpdateGetRole(r) \/ UpdateFields(r) \/ UpdateGetPermissions(r) \/ UpdateReplace(r)
  \/ DeleteGetRole(r) \/ DeleteWrite(r)

Next == (\E r \in Requests : Serve(r) \/ Crash(r)) \/ SeedPermissions \/ SeedRoles

Spec == Init /\ [][Next]_vars

-----------------------------------------------------------------------------
(***************************************************************************)
(* Properties.                                                             *)
(***************************************************************************)

\* Rows and requests have the types of their declarations.
TypeOK ==
  /\ permissions \subseteq Permissions
  /\ roles \in [RoleIds -> RoleRow]
  /\ granted \in [RoleIds -> [Permissions -> Requests \cup {SEED, NULL}]]
  /\ req \in [Requests -> RequestState]

\* The requests whose permissions role i has.
Writers(i) == {granted[i][p] : p \in Permissions} \cap Requests

\* Updates that race are merged, permission by permission: a role may end up with a
\* set no request asked for (role_service.py, update_role).  It is the work of no
\* more requests than are served at once, however many have updated the role, and
\* of the script: of one request when they are served one at a time.
WritersAreBounded == \A i \in RoleIds : Cardinality(Writers(i)) <= MaxInFlight

\* A permission that was withdrawn while an update was under way is not granted
\* again by that update, although its payload still has it (update_role).
WithdrawnStaysWithdrawn ==
  [][\A i \in RoleIds, p \in Permissions, r \in Requests :
       Present(i) /\ granted[i][p] = NULL /\ p \in req[r].loaded => granted'[i][p] # r]_vars

\* Requests under way on role i that found it an ordinary role.
Stale(i) == {r \in InFlight : req[r].role = i /\ ~req[r].system}

\* A system role is not deleted and loses no permission, except to a request that
\* found it before the script made it one ("Cannot modify system role", "Cannot
\* delete system role", role_service.py).
SystemRoleYieldsOnlyToStaleRequests ==
  [][\A i \in RoleIds :
       roles[i].system /\ Stale(i) = {} =>
         /\ roles'[i].code = roles[i].code
         /\ PermissionsOf(i) \subseteq PermissionsOf(i)']_vars

\* The inductive invariant: a request under way has the role it found ordinary, or
\* the code it creates;
Fits(q) ==
  /\ q.pc \in {"fields", "permissions", "replace", "delete"} => q.role \in RoleIds /\ ~q.system
  /\ q.pc = "insert" => q.code \in Codes

\* codes are unique, roles grant what exists, and what does not exist grants nothing;
RowsFit ==
  /\ \A i, j \in RoleIds : Present(i) /\ roles[i].code = roles[j].code => i = j
  /\ \A i \in RoleIds : /\ PermissionsOf(i) \subseteq permissions
                        /\ ~Present(i) => PermissionsOf(i) = {} /\ ~roles[i].system

FlightIsBounded == IsFiniteSet(InFlight) /\ Cardinality(InFlight) <= MaxInFlight

\* requests that granted something are spent;
WritersAreSpent == \A i \in RoleIds : \A w \in Writers(i) : req[w].pc = "spent"

\* Updates of role i that have loaded its permissions, and the requests whose
\* permissions none of the updates in A has loaded: these survive them.
Replacing(i) == {r \in Requests : req[r].pc = "replace" /\ req[r].role = i}
Unseen(i, A) == {w \in Writers(i) :
                   \A r \in A : \E p \in Permissions \ req[r].loaded : granted[i][p] = w}

\* any updates under way and the requests none of them has seen are bounded
\* together.
MergesAreBounded ==
  \A i \in RoleIds, A \in SUBSET Requests :
    A \subseteq Replacing(i) =>
      /\ IsFiniteSet(A \cup Unseen(i, A))
      /\ Cardinality(A \cup Unseen(i, A)) <= MaxInFlight

Inv == /\ TypeOK /\ (\A r \in Requests : Fits(req[r])) /\ RowsFit /\ FlightIsBounded
       /\ WritersAreSpent /\ MergesAreBounded

=============================================================================
