----------------------------- MODULE RolesProofs -----------------------------
(***************************************************************************)
(* Proofs about Roles for any roles, permissions and role_specs and any    *)
(* number of requests served at once.                                      *)
(***************************************************************************)
EXTENDS Roles, FiniteSetTheorems, TLAPS

LEMMA IdleType ==
  /\ Idle \in RequestState /\ Idle.pc = "idle"
  /\ [Idle EXCEPT !.pc = "spent"] \in RequestState
  /\ [Idle EXCEPT !.pc = "spent"].pc = "spent"
BY DEF Idle, RequestState

\* A set within one that is within the bound is within the bound.
LEMMA Within ==
  ASSUME NEW S, IsFiniteSet(S), Cardinality(S) <= MaxInFlight, NEW T \in SUBSET S
  PROVE  IsFiniteSet(T) /\ Cardinality(T) <= MaxInFlight
<1>1. IsFiniteSet(T) /\ Cardinality(T) <= Cardinality(S)
  BY FS_Subset
<1>2. Cardinality(T) \in Nat /\ Cardinality(S) \in Nat
  BY <1>1, FS_CardinalityType
<1> QED BY <1>1, <1>2, ConstantsAssumption

LEMMA EmptyWithin == IsFiniteSet({}) /\ Cardinality({}) <= MaxInFlight
BY FS_EmptySet, ConstantsAssumption

LEMMA InitInv == Init => Inv
<1> SUFFICES ASSUME Init PROVE Inv
  OBVIOUS
<1>1. TypeOK
  BY IdleType DEF Init, TypeOK, RoleRow, NoRole, Granting
<1>2. \A r \in Requests : Fits(req[r])
  BY IdleType DEF Init, Fits
<1>3. \A i \in RoleIds : ~Present(i) /\ PermissionsOf(i) = {} /\ ~roles[i].system
  BY DEF Init, Present, PermissionsOf, NoRole, Granting
<1>4. RowsFit
  BY <1>3 DEF RowsFit
<1>5. InFlight = {}
  BY IdleType DEF Init, InFlight
<1>6. \A i \in RoleIds : Writers(i) = {}
  BY ConstantsAssumption DEF Init, Writers, Granting
<1>7. ASSUME NEW i \in RoleIds, NEW A \in SUBSET Requests, A \subseteq Replacing(i)
      PROVE  A \cup Unseen(i, A) = {}
  BY <1>6, <1>7, IdleType DEF Init, Replacing, Unseen
<1>8. MergesAreBounded
  BY <1>7, EmptyWithin DEF MergesAreBounded
<1> QED BY <1>1, <1>2, <1>4, <1>5, <1>6, <1>8, EmptyWithin
        DEF Inv, FlightIsBounded, WritersAreSpent

-----------------------------------------------------------------------------
(***************************************************************************)
(* Requests.                                                               *)
(***************************************************************************)
LEMMA ReqType ==
  ASSUME TypeOK, NEW r \in Requests, NEW q \in RequestState, Proceed(r, q)
  PROVE  /\ req' \in [Requests -> RequestState] /\ req'[r] = q
         /\ \A x \in Requests \ {r} : req'[x] = req[x]
BY DEF TypeOK, Proceed

\* A request goes on, ends, or is let in.
LEMMA FlightStep ==
  ASSUME Inv, NEW r \in Requests, NEW q \in RequestState, Proceed(r, q),
         r \in InFlight \/ q.pc = "spent" \/ Cardinality(InFlight) < MaxInFlight
  PROVE  FlightIsBounded'
<1>1. IsFiniteSet(InFlight) /\ Cardinality(InFlight) <= MaxInFlight
  BY DEF Inv, FlightIsBounded
<1>2. InFlight' \subseteq InFlight \cup {r}
  BY ReqType DEF InFlight, Inv
<1>3. CASE r \in InFlight \/ q.pc = "spent"
  <2>1. InFlight' \subseteq InFlight
    BY <1>3, ReqType DEF InFlight, Inv
  <2> QED BY <1>1, <2>1, Within DEF FlightIsBounded
<1>4. CASE r \notin InFlight /\ Cardinality(InFlight) < MaxInFlight
  <2>1. /\ IsFiniteSet(InFlight \cup {r})
        /\ Cardinality(InFlight \cup {r}) = Cardinality(InFlight) + 1
    BY <1>1, <1>4, FS_AddElement
  <2>2. Cardinality(InFlight \cup {r}) <= MaxInFlight
    BY <1>1, <1>4, <2>1, FS_CardinalityType, ConstantsAssumption
  <2> QED BY <1>2, <2>1, <2>2, Within DEF FlightIsBounded
<1> QED BY <1>3, <1>4

\* A step that writes no table.
LEMMA ReadStep ==
  ASSUME Inv, NEW r \in Requests, NEW q \in RequestState, Proceed(r, q), Fits(q),
         UNCHANGED <<permissions, roles, granted>>, req[r].pc # "spent",
         r \in InFlight \/ q.pc = "spent" \/ Cardinality(InFlight) < MaxInFlight,
         q.pc = "replace" => q.loaded = PermissionsOf(q.role)
  PROVE  Inv'
<1>1. TypeOK' /\ (\A x \in Requests : Fits(req[x]))'
  BY ReqType DEF Inv, TypeOK, Fits
<1>2. RowsFit'
  BY DEF Inv, RowsFit, Present, PermissionsOf
<1>3. FlightIsBounded'
  BY FlightStep
<1>4. WritersAreSpent'
  BY ReqType DEF Inv, WritersAreSpent, Writers
<1>5. ASSUME NEW i \in RoleIds, NEW A \in SUBSET Requests, A \subseteq Replacing(i)'
      PROVE  IsFiniteSet(A \cup Unseen(i, A)') /\ Cardinality(A \cup Unseen(i, A)') <= MaxInFlight
  <2>1. CASE r \in A
    <3>1. q.pc = "replace" /\ q.role = i
      BY <1>5, <2>1, ReqType DEF Replacing, Inv
    <3>2. q.loaded = PermissionsOf(i)
      BY <3>1
    <3>3. ASSUME NEW w \in Unseen(i, A)' PROVE FALSE
      <4>1. w \in Requests /\ \E p \in Permissions \ q.loaded : granted[i][p] = w
        BY <2>1, <3>3, ReqType DEF Unseen, Writers, Inv
      <4> QED BY <3>2, <4>1, ConstantsAssumption DEF PermissionsOf
    <3>4. A \cup Unseen(i, A)' = A
      BY <3>3
    <3>5. A \subseteq InFlight'
      BY <1>5 DEF Replacing, InFlight
    <3> QED BY <1>3, <3>4, <3>5, Within DEF FlightIsBounded
  <2>2. CASE r \notin A
    <3>1. \A x \in A : req'[x] = req[x]
      BY <2>2, ReqType DEF Inv
    <3>2. A \subseteq Replacing(i)
      BY <1>5, <3>1 DEF Replacing
    <3>3. Unseen(i, A)' = Unseen(i, A)
      BY <3>1 DEF Unseen, Writers
    <3> QED BY <3>2, <3>3 DEF Inv, MergesAreBounded
  <2> QED BY <2>1, <2>2
<1>6. MergesAreBounded'
  BY <1>5 DEF MergesAreBounded
<1> QED BY <1>1, <1>2, <1>3, <1>4, <1>6 DEF Inv

LEMMA FinishStep ==
  ASSUME Inv, NEW r \in Requests, FinishSpent(r), UNCHANGED <<permissions, roles, granted>>,
         req[r].pc # "spent"
  PROVE  Inv'
<1>1. Fits([Idle EXCEPT !.pc = "spent"])
  BY IdleType DEF Fits
<1> QED BY <1>1, IdleType, ReadStep DEF FinishSpent

LEMMA CreateGetCodeStep ==
  ASSUME Inv, NEW r \in Requests, CreateGetCode(r)
  PROVE  Inv'
<1>1. PICK c \in Codes, S \in SUBSET Permissions :
        Proceed(r, [Idle EXCEPT !.pc = "insert", !.code = c, !.new = S])
  BY DEF CreateGetCode
<1> DEFINE q == [Idle EXCEPT !.pc = "insert", !.code = c, !.new = S]
<1>2. q \in RequestState /\ q.pc = "insert" /\ q.code = c
  BY DEF Idle, RequestState
<1>3. Fits(q)
  BY <1>2 DEF Fits
<1>4. /\ UNCHANGED <<permissions, roles, granted>> /\ Proceed(r, q)
      /\ req[r].pc # "spent" /\ Cardinality(InFlight) < MaxInFlight
  BY <1>1 DEF CreateGetCode, Begins
<1> HIDE DEF q
<1> QED BY <1>2, <1>3, <1>4, ReadStep

LEMMA UpdateGetRoleStep ==
  ASSUME Inv, NEW r \in Requests, UpdateGetRole(r)
  PROVE  Inv'
<1>1. PICK i \in RoleIds, fields \in BOOLEAN, keeps \in BOOLEAN, S \in SUBSET Permissions :
        /\ ~roles[i].system
        /\ Proceed(r, [Idle EXCEPT !.pc = IF fields THEN "fields" ELSE "permissions",
                                   !.role = i, !.system = roles[i].system,
                                   !.fields = fields, !.new = S, !.keeps = keeps])
  BY DEF UpdateGetRole
<1> DEFINE q == [Idle EXCEPT !.pc = IF fields THEN "fields" ELSE "permissions",
                             !.role = i, !.system = roles[i].system,
                             !.fields = fields, !.new = S, !.keeps = keeps]
<1>2. /\ q.pc \in {"fields", "permissions"} /\ q.role = i /\ ~q.system
      /\ q \in RequestState
  BY <1>1 DEF Idle, RequestState, Inv, TypeOK, RoleRow
<1>3. Fits(q)
  BY <1>2 DEF Fits
<1>4. /\ UNCHANGED <<permissions, roles, granted>> /\ Proceed(r, q)
      /\ req[r].pc # "spent" /\ Cardinality(InFlight) < MaxInFlight
  BY <1>1 DEF UpdateGetRole, Begins
<1> HIDE DEF q
<1> QED BY <1>2, <1>3, <1>4, ReadStep

LEMMA DeleteGetRoleStep ==
  ASSUME Inv, NEW r \in Requests, DeleteGetRole(r)
  PROVE  Inv'
<1>1. PICK i \in RoleIds :
        /\ ~roles[i].system
        /\ Proceed(r, [Idle EXCEPT !.pc = "delete", !.role = i, !.system = roles[i].system])
  BY DEF DeleteGetRole
<1> DEFINE q == [Idle EXCEPT !.pc = "delete", !.role = i, !.system = roles[i].system]
<1>2. q \in RequestState /\ q.pc = "delete" /\ q.role = i /\ ~q.system
  BY <1>1 DEF Idle, RequestState, Inv, TypeOK, RoleRow
<1>3. Fits(q)
  BY <1>2 DEF Fits
<1>4. /\ UNCHANGED <<permissions, roles, granted>> /\ Proceed(r, q)
      /\ req[r].pc # "spent" /\ Cardinality(InFlight) < MaxInFlight
  BY <1>1 DEF DeleteGetRole, Begins
<1> HIDE DEF q
<1> QED BY <1>2, <1>3, <1>4, ReadStep

LEMMA UpdateFieldsStep ==
  ASSUME Inv, NEW r \in Requests, UpdateFields(r)
  PROVE  Inv'
<1>1. /\ UNCHANGED <<permissions, roles, granted>> /\ req[r].pc = "fields"
      /\ FinishSpent(r) \/ Goto(r, "permissions")
      /\ req[r] \in RequestState /\ Fits(req[r])
  BY DEF UpdateFields, Inv, TypeOK
<1>2. CASE Goto(r, "permissions")
  <2> DEFINE q == [req[r] EXCEPT !.pc = "permissions"]
  <2>1. q \in RequestState /\ q.pc = "permissions" /\ q.role = req[r].role /\ q.system = req[r].system
    BY <1>1 DEF RequestState
  <2>2. Fits(q) /\ r \in InFlight /\ Proceed(r, q)
    BY <1>1, <1>2, <2>1 DEF Fits, InFlight, Goto
  <2> HIDE DEF q
  <2> QED BY <1>1, <2>1, <2>2, ReadStep
<1> QED BY <1>1, <1>2, FinishStep

LEMMA UpdateGetPermissionsStep ==
  ASSUME Inv, NEW r \in Requests, UpdateGetPermissions(r)
  PROVE  Inv'
<1> DEFINE q == [req[r] EXCEPT !.pc = "replace", !.loaded = PermissionsOf(req[r].role)]
<1>1. /\ UNCHANGED <<permissions, roles, granted>> /\ req[r].pc = "permissions"
      /\ Proceed(r, q) /\ req[r] \in RequestState /\ Fits(req[r])
  BY DEF UpdateGetPermissions, Inv, TypeOK
<1>2. PermissionsOf(req[r].role) \subseteq Permissions
  BY DEF PermissionsOf
<1>3. /\ q \in RequestState /\ q.pc = "replace" /\ q.role = req[r].role
      /\ q.system = req[r].system /\ q.loaded = PermissionsOf(req[r].role)
  BY <1>1, <1>2 DEF RequestState
<1>4. Fits(q) /\ r \in InFlight /\ q.loaded = PermissionsOf(q.role)
  BY <1>1, <1>3 DEF Fits, InFlight
<1> HIDE DEF q
<1> QED BY <1>1, <1>3, <1>4, ReadStep

-----------------------------------------------------------------------------
(***************************************************************************)
(* The requests that write.  Updates and what they have not seen stay      *)
(* within other updates and what those have not seen.                      *)
(***************************************************************************)
LEMMA WriteStep ==
  ASSUME Inv, NEW r \in Requests, FinishSpent(r), r \in InFlight,
         permissions' = permissions, roles' \in [RoleIds -> RoleRow],
         granted' \in [RoleIds -> [Permissions -> Requests \cup {SEED, NULL}]], RowsFit',
         \A i \in RoleIds : Writers(i)' \subseteq Writers(i) \cup {r},
         \A i \in RoleIds, A \in SUBSET Requests :
           A \subseteq Replacing(i) \ {r} =>
             \/ A \cup Unseen(i, A)' \subseteq InFlight
             \/ \E B \in SUBSET Requests : /\ B \subseteq Replacing(i)
                                          /\ A \cup Unseen(i, A)' \subseteq B \cup Unseen(i, B)
  PROVE  Inv'
<1> DEFINE q == [Idle EXCEPT !.pc = "spent"]
<1>1. q \in RequestState /\ q.pc = "spent" /\ Proceed(r, q)
  BY IdleType DEF FinishSpent
<1> HIDE DEF q
<1>2. /\ req' \in [Requests -> RequestState] /\ req'[r].pc = "spent"
      /\ \A x \in Requests \ {r} : req'[x] = req[x]
  BY <1>1, ReqType DEF Inv
<1>3. TypeOK' /\ (\A x \in Requests : Fits(req[x]))'
  BY <1>2 DEF Inv, TypeOK, Fits
<1>4. FlightIsBounded'
  BY <1>1, FlightStep
<1>5. WritersAreSpent'
  BY <1>2 DEF Inv, WritersAreSpent, Writers
<1>6. ASSUME NEW i \in RoleIds, NEW A \in SUBSET Requests, A \subseteq Replacing(i)'
      PROVE  IsFiniteSet(A \cup Unseen(i, A)') /\ Cardinality(A \cup Unseen(i, A)') <= MaxInFlight
  <2>1. A \subseteq Replacing(i) \ {r}
    BY <1>2, <1>6 DEF Replacing
  <2>2. CASE A \cup Unseen(i, A)' \subseteq InFlight
    BY <2>2, Within DEF Inv, FlightIsBounded
  <2>3. ASSUME NEW B \in SUBSET Requests, B \subseteq Replacing(i),
               A \cup Unseen(i, A)' \subseteq B \cup Unseen(i, B)
        PROVE  /\ IsFiniteSet(A \cup Unseen(i, A)')
               /\ Cardinality(A \cup Unseen(i, A)') <= MaxInFlight
    <3>1. /\ IsFiniteSet(B \cup Unseen(i, B))
          /\ Cardinality(B \cup Unseen(i, B)) <= MaxInFlight
      BY <2>3 DEF Inv, MergesAreBounded
    <3> QED BY <2>3, <3>1, Within
  <2>4. \/ A \cup Unseen(i, A)' \subseteq InFlight
        \/ \E B \in SUBSET Requests : /\ B \subseteq Replacing(i)
                                     /\ A \cup Unseen(i, A)' \subseteq B \cup Unseen(i, B)
    BY <2>1, Zenon
  <2> QED BY <2>2, <2>3, <2>4, Zenon
<1>7. MergesAreBounded'
  BY <1>6 DEF MergesAreBounded
<1> QED BY <1>3, <1>4, <1>5, <1>7 DEF Inv

\* A role whose permissions are as they were, and whose requests are.
LEMMA SameRole ==
  ASSUME Inv, NEW r \in Requests, FinishSpent(r), NEW i \in RoleIds, granted'[i] = granted[i],
         NEW A \in SUBSET Requests, A \subseteq Replacing(i) \ {r}
  PROVE  Unseen(i, A)' = Unseen(i, A) /\ Writers(i)' = Writers(i)
<1>1. \A x \in Requests \ {r} : req'[x] = req[x]
  BY IdleType, ReqType DEF FinishSpent, Inv
<1> QED BY <1>1 DEF Unseen, Writers

LEMMA CreateInsertStep ==
  ASSUME Inv, NEW r \in Requests, CreateInsert(r)
  PROVE  Inv'
<1>1. /\ req[r].pc = "insert" /\ FinishSpent(r) /\ permissions' = permissions
      /\ r \in InFlight /\ req[r].code \in Codes /\ req[r].new \subseteq Permissions
  BY DEF CreateInsert, InFlight, Inv, TypeOK, RequestState, Fits
<1>2. CASE UNCHANGED <<roles, granted>>
  BY <1>1, <1>2, FinishStep
<1>3. ASSUME NEW i \in RoleIds, Fresh(i), ~CodeTaken(req[r].code), req[r].new \subseteq permissions,
             roles' = [roles EXCEPT ![i] = [code |-> req[r].code, system |-> FALSE]],
             granted' = [granted EXCEPT ![i] = Granting(req[r].new, r)]
      PROVE  Inv'
  <2>1. /\ roles' \in [RoleIds -> RoleRow] /\ roles'[i].code = req[r].code /\ ~roles'[i].system
        /\ \A j \in RoleIds \ {i} : roles'[j] = roles[j]
    BY <1>1, <1>3 DEF Inv, TypeOK, RoleRow
  <2>2. Granting(req[r].new, r) \in [Permissions -> Requests \cup {SEED, NULL}]
    BY DEF Granting
  <2>3. /\ granted' \in [RoleIds -> [Permissions -> Requests \cup {SEED, NULL}]]
        /\ granted'[i] = Granting(req[r].new, r)
        /\ \A j \in RoleIds \ {i} : granted'[j] = granted[j]
    BY <1>3, <2>2 DEF Inv, TypeOK
  <2>4. PermissionsOf(i)' \subseteq permissions /\ Writers(i)' \subseteq {r}
    BY <1>3, <2>3, ConstantsAssumption DEF PermissionsOf, Writers, Granting
  <2>5. RowsFit'
    <3>1. \A j \in RoleIds \ {i} : /\ PermissionsOf(j)' = PermissionsOf(j)
                                  /\ Present(j)' = Present(j) /\ roles'[j] = roles[j]
      BY <2>1, <2>3 DEF PermissionsOf, Present
    <3>2. Present(i)' /\ \A j \in RoleIds \ {i} : roles'[j].code # roles'[i].code
      BY <1>1, <1>3, <2>1, ConstantsAssumption DEF Present, CodeTaken
    <3> QED BY <1>1, <2>1, <2>4, <3>1, <3>2 DEF Inv, RowsFit
  <2>6. \A j \in RoleIds : Writers(j)' \subseteq Writers(j) \cup {r}
    BY <2>3, <2>4 DEF Writers
  <2>7. ASSUME NEW j \in RoleIds, NEW A \in SUBSET Requests, A \subseteq Replacing(j) \ {r}
        PROVE  \/ A \cup Unseen(j, A)' \subseteq InFlight
               \/ \E B \in SUBSET Requests : /\ B \subseteq Replacing(j)
                                            /\ A \cup Unseen(j, A)' \subseteq B \cup Unseen(j, B)
    <3>1. CASE j = i
      <4>1. A \subseteq InFlight
        BY <2>7 DEF Replacing, InFlight
      <4>2. Unseen(j, A)' \subseteq {r}
        BY <2>4, <3>1 DEF Unseen
      <4> QED BY <1>1, <4>1, <4>2
    <3>2. CASE j # i
      <4>1. Unseen(j, A)' = Unseen(j, A)
        BY <1>1, <2>3, <2>7, <3>2, SameRole
      <4> QED BY <2>7, <4>1
    <3> QED BY <3>1, <3>2
  <2> QED BY <1>1, <2>1, <2>3, <2>5, <2>6, <2>7, WriteStep
<1> QED BY <1>2, <1>3 DEF CreateInsert

\* What an update leaves of a role it has loaded.
LEMMA Replaced ==
  ASSUME Inv, NEW r \in Requests, UpdateReplace(r), granted' # granted
  PROVE  /\ req[r].role \in RoleIds /\ Present(req[r].role)
         /\ granted' \in [RoleIds -> [Permissions -> Requests \cup {SEED, NULL}]]
         /\ \A j \in RoleIds \ {req[r].role} : granted'[j] = granted[j]
         /\ \A p \in Permissions :
              \/ /\ granted'[req[r].role][p] = r /\ p \in permissions
                 /\ granted[req[r].role][p] # NULL \/ p \notin req[r].loaded
              \/ granted'[req[r].role][p] = NULL
              \/ /\ granted'[req[r].role][p] = granted[req[r].role][p]
                 /\ granted[req[r].role][p] # NULL => p \notin req[r].loaded
<1> DEFINE i == req[r].role
           inserted == New(r) \ req[r].loaded
           deleted == req[r].loaded \ New(r)
           f == [p \in Permissions |->
                  IF p \in inserted \/ (p \in New(r) /\ granted[i][p] # NULL) THEN r
                  ELSE IF p \in deleted THEN NULL
                  ELSE granted[i][p]]
<1>1. i \in RoleIds /\ req[r] \in RequestState
  BY DEF UpdateReplace, Inv, TypeOK, Fits
<1>2. Present(i) /\ granted' = [granted EXCEPT ![i] = f]
  BY DEF UpdateReplace
<1>3. granted \in [RoleIds -> [Permissions -> Requests \cup {SEED, NULL}]]
  BY DEF Inv, TypeOK
<1>4. f \in [Permissions -> Requests \cup {SEED, NULL}]
  BY <1>1, <1>3
<1>5. \A p \in Permissions :
        \/ /\ f[p] = r /\ p \in permissions
           /\ granted[i][p] # NULL \/ p \notin req[r].loaded
        \/ f[p] = NULL
        \/ /\ f[p] = granted[i][p]
           /\ granted[i][p] # NULL => p \notin req[r].loaded
  BY DEF New
<1> HIDE DEF f
<1> QED BY <1>1, <1>2, <1>3, <1>4, <1>5

LEMMA UpdateReplaceStep ==
  ASSUME Inv, NEW r \in Requests, UpdateReplace(r)
  PROVE  Inv'
<1>0. PICK i \in RoleIds : i = req[r].role
  BY DEF UpdateReplace, Inv, Fits
<1>1. /\ req[r].pc = "replace" /\ FinishSpent(r) /\ UNCHANGED <<permissions, roles>>
      /\ r \in InFlight
  BY DEF UpdateReplace, InFlight
<1>2. CASE granted' = granted
  BY <1>1, <1>2, FinishStep
<1>3. CASE granted' # granted
  <2>1. /\ Present(i)
        /\ granted' \in [RoleIds -> [Permissions -> Requests \cup {SEED, NULL}]]
        /\ \A j \in RoleIds \ {i} : granted'[j] = granted[j]
    BY <1>0, <1>3, Replaced
  <2>2. \A p \in Permissions :
              \/ granted'[i][p] = r /\ p \in permissions
              \/ granted'[i][p] = NULL
              \/ /\ granted'[i][p] = granted[i][p]
                 /\ granted[i][p] # NULL => p \notin req[r].loaded
    BY <1>0, <1>3, Replaced
  <2>3. RowsFit'
    <3>1. PermissionsOf(i)' \subseteq permissions
      BY <2>1, <2>2 DEF PermissionsOf, Inv, RowsFit
    <3>2. \A j \in RoleIds \ {i} : PermissionsOf(j)' = PermissionsOf(j)
      BY <2>1 DEF PermissionsOf
    <3> QED BY <1>1, <2>1, <3>1, <3>2 DEF Inv, RowsFit, Present
  <2>4. \A j \in RoleIds : Writers(j)' \subseteq Writers(j) \cup {r}
    <3>1. Writers(i)' \subseteq Writers(i) \cup {r}
      BY <2>2, ConstantsAssumption DEF Writers
    <3>2. \A j \in RoleIds \ {i} : Writers(j)' = Writers(j)
      BY <2>1 DEF Writers
    <3> QED BY <3>1, <3>2
  <2>5. ASSUME NEW j \in RoleIds, NEW A \in SUBSET Requests, A \subseteq Replacing(j) \ {r}
        PROVE  \E B \in SUBSET Requests : /\ B \subseteq Replacing(j)
                                          /\ A \cup Unseen(j, A)' \subseteq B \cup Unseen(j, B)
    <3>1. CASE j # i
      <4>1. Unseen(j, A)' = Unseen(j, A)
        BY <1>1, <2>1, <2>5, <3>1, SameRole
      <4> QED BY <2>5, <4>1
    <3>2. CASE j = i
      <4>1. A \cup {r} \subseteq Replacing(i)
        BY <1>0, <1>1, <2>5, <3>2 DEF Replacing
      <4>2. ASSUME NEW w \in Unseen(i, A)', w # r
            PROVE  w \in Unseen(i, A \cup {r})
        <5>1. \A x \in A : req'[x] = req[x]
          BY <1>1, <2>5, IdleType, ReqType DEF FinishSpent, Inv
        <5>2. w \in Requests /\ w # NULL /\ w # SEED
          BY <4>2, ConstantsAssumption DEF Unseen, Writers
        <5>3. \A p \in Permissions : granted'[i][p] = w => granted[i][p] = w /\ p \notin req[r].loaded
          BY <2>2, <4>2, <5>2
        <5>4. \E p \in Permissions : granted'[i][p] = w
          BY <4>2 DEF Unseen, Writers
        <5>5. w \in Writers(i)
          BY <5>2, <5>3, <5>4 DEF Writers
        <5>6. \E p \in Permissions \ req[r].loaded : granted[i][p] = w
          BY <5>3, <5>4
        <5>7. \A x \in A : \E p \in Permissions \ req[x].loaded : granted[i][p] = w
          BY <4>2, <5>1, <5>3 DEF Unseen
        <5> QED BY <5>5, <5>6, <5>7 DEF Unseen
      <4>3. A \cup Unseen(i, A)' \subseteq (A \cup {r}) \cup Unseen(i, A \cup {r})
        BY <4>2
      <4> QED BY <3>2, <4>1, <4>3
    <3> QED BY <3>1, <3>2
  <2>6. roles' \in [RoleIds -> RoleRow]
    BY <1>1 DEF Inv, TypeOK
  <2> QED BY <1>1, <2>1, <2>3, <2>4, <2>5, <2>6, WriteStep
<1> QED BY <1>2, <1>3

LEMMA DeleteWriteStep ==
  ASSUME Inv, NEW r \in Requests, DeleteWrite(r)
  PROVE  Inv'
<1>0. PICK i \in RoleIds : i = req[r].role
  BY DEF DeleteWrite, Inv, Fits
<1>1. /\ FinishSpent(r) /\ permissions' = permissions /\ r \in InFlight
      /\ roles' = [roles EXCEPT ![i] = NoRole]
      /\ granted' = [granted EXCEPT ![i] = Granting({}, NULL)]
  BY <1>0 DEF DeleteWrite, InFlight
<1>2. NoRole \in RoleRow /\ Granting({}, NULL) \in [Permissions -> Requests \cup {SEED, NULL}]
  BY DEF NoRole, RoleRow, Granting
<1>3. /\ roles' \in [RoleIds -> RoleRow] /\ roles'[i] = NoRole
      /\ granted' \in [RoleIds -> [Permissions -> Requests \cup {SEED, NULL}]]
      /\ granted'[i] = Granting({}, NULL)
      /\ \A j \in RoleIds \ {i} : roles'[j] = roles[j] /\ granted'[j] = granted[j]
  BY <1>1, <1>2 DEF Inv, TypeOK
<1>4. PermissionsOf(i)' = {} /\ Writers(i)' = {} /\ ~Present(i)' /\ ~roles'[i].system
  BY <1>3, ConstantsAssumption DEF PermissionsOf, Writers, Present, NoRole, Granting
<1>5. \A j \in RoleIds \ {i} : /\ PermissionsOf(j)' = PermissionsOf(j)
                              /\ Writers(j)' = Writers(j)
                              /\ Present(j)' = Present(j) /\ roles'[j] = roles[j]
  BY <1>3 DEF PermissionsOf, Writers, Present
<1>6. RowsFit'
  BY <1>1, <1>4, <1>5 DEF Inv, RowsFit, Present
<1>7. ASSUME NEW j \in RoleIds, NEW A \in SUBSET Requests, A \subseteq Replacing(j) \ {r}
      PROVE  A \cup Unseen(j, A)' \subseteq A \cup Unseen(j, A)
  <2>1. CASE j = i
    BY <1>4, <2>1 DEF Unseen
  <2>2. CASE j # i
    BY <1>1, <1>3, <1>7, <2>2, SameRole
  <2> QED BY <2>1, <2>2
<1>8. \A j \in RoleIds : Writers(j)' \subseteq Writers(j) \cup {r}
  BY <1>4, <1>5
<1> QED BY <1>1, <1>3, <1>6, <1>7, <1>8, WriteStep

-----------------------------------------------------------------------------
(***************************************************************************)
(* The script.                                                             *)
(***************************************************************************)
\* Steps of the script leave the requests alone and what they have granted.
LEMMA SeedStep ==
  ASSUME Inv, req' = req, permissions' \subseteq Permissions, roles' \in [RoleIds -> RoleRow],
         granted' \in [RoleIds -> [Permissions -> Requests \cup {SEED, NULL}]], RowsFit',
         \A i \in RoleIds, p \in Permissions :
           granted'[i][p] # granted[i][p] => granted[i][p] = NULL /\ granted'[i][p] = SEED
  PROVE  Inv'
<1>1. TypeOK' /\ (\A r \in Requests : Fits(req[r]))' /\ FlightIsBounded'
  BY DEF Inv, TypeOK, Fits, FlightIsBounded, InFlight
<1>2. \A i \in RoleIds, w \in Requests, p \in Permissions : granted'[i][p] = w <=> granted[i][p] = w
  BY ConstantsAssumption
<1>3. \A i \in RoleIds : Writers(i)' = Writers(i)
  BY <1>2 DEF Writers
<1>4. WritersAreSpent'
  BY <1>3 DEF Inv, WritersAreSpent
<1>5. ASSUME NEW i \in RoleIds, NEW A \in SUBSET Requests
      PROVE  Unseen(i, A)' = Unseen(i, A)
  BY <1>2, <1>3 DEF Unseen, Writers
<1>6. MergesAreBounded'
  BY <1>5 DEF Inv, MergesAreBounded, Replacing
<1> QED BY <1>1, <1>4, <1>6 DEF Inv

LEMMA SeedRolesStep ==
  ASSUME Inv, SeedRoles
  PROVE  /\ Inv'
         /\ \A i \in RoleIds : roles[i].system => roles'[i].code = roles[i].code
         /\ \A i \in RoleIds, p \in Permissions :
              granted'[i][p] # granted[i][p] => granted[i][p] = NULL /\ granted'[i][p] = SEED
<1>1. PICK id \in [SeededRoles -> RoleIds] :
        /\ \A c \in SeededRoles : IF CodeTaken(c) THEN roles[id[c]].code = c ELSE Fresh(id[c])
        /\ \A c, d \in SeededRoles : id[c] = id[d] => c = d
        /\ roles' = [i \in RoleIds |->
             IF \E c \in SeededRoles : id[c] = i
               THEN LET c == CHOOSE d \in SeededRoles : id[d] = i
                    IN  [code |-> c, system |-> c \in SystemRoles]
               ELSE roles[i]]
        /\ granted' = [i \in RoleIds |-> [p \in Permissions |->
             IF granted[i][p] = NULL /\ \E c \in SeededRoles : id[c] = i /\ p \in Seeded[c]
               THEN SEED ELSE granted[i][p]]]
  BY DEF SeedRoles
<1>2. permissions = Permissions /\ permissions' = permissions /\ req' = req
  BY DEF SeedRoles
<1>3. /\ roles \in [RoleIds -> RoleRow]
      /\ granted \in [RoleIds -> [Permissions -> Requests \cup {SEED, NULL}]]
  BY DEF Inv, TypeOK
<1>4. \A i \in RoleIds :
        \/ roles'[i] = roles[i] /\ \A c \in SeededRoles : id[c] # i
        \/ \E c \in SeededRoles : id[c] = i /\ roles'[i] = [code |-> c, system |-> c \in SystemRoles]
  <2> SUFFICES ASSUME NEW i \in RoleIds, NEW c \in SeededRoles, id[c] = i
               PROVE  roles'[i] = [code |-> c, system |-> c \in SystemRoles]
    BY <1>1
  <2>1. (CHOOSE d \in SeededRoles : id[d] = i) = c
    <3>1. \A d \in SeededRoles : id[d] = i <=> d = c
      BY <1>1
    <3> QED BY <3>1
  <2> QED BY <1>1, <2>1
<1>5. roles' \in [RoleIds -> RoleRow]
  <2>1. ASSUME NEW i \in RoleIds PROVE roles'[i] \in RoleRow
    <3>1. CASE roles'[i] = roles[i]
      BY <1>3, <3>1
    <3>2. ASSUME NEW c \in SeededRoles, roles'[i] = [code |-> c, system |-> c \in SystemRoles]
          PROVE  roles'[i] \in RoleRow
      <4>1. c \in Codes /\ (c \in SystemRoles) \in BOOLEAN
        BY ConstantsAssumption
      <4> QED BY <3>2, <4>1 DEF RoleRow
    <3> QED BY <1>4, <3>1, <3>2
  <2> QED BY <1>1, <2>1
<1>6. granted' \in [RoleIds -> [Permissions -> Requests \cup {SEED, NULL}]]
  BY <1>1, <1>3
<1>7. \A i \in RoleIds, p \in Permissions :
        granted'[i][p] # granted[i][p] => granted[i][p] = NULL /\ granted'[i][p] = SEED
  BY <1>1
<1>8. \A i \in RoleIds, p \in Permissions :
        (\A c \in SeededRoles : id[c] # i) => granted'[i][p] = granted[i][p]
  BY <1>1
<1>9. \A i \in RoleIds, c \in SeededRoles : id[c] # i => roles[i].code # c
  <2> SUFFICES ASSUME NEW i \in RoleIds, NEW c \in SeededRoles, roles[i].code = c, id[c] # i
               PROVE  FALSE
    OBVIOUS
  <2>1. CodeTaken(c) /\ roles[id[c]].code = c /\ id[c] \in RoleIds
    BY <1>1 DEF CodeTaken
  <2>2. Present(i)
    BY ConstantsAssumption DEF Present
  <2> QED BY <2>1, <2>2 DEF Inv, RowsFit
<1>10. \A i \in RoleIds :
         \/ roles'[i] = roles[i] /\ \A c \in SeededRoles : id[c] # i
         \/ \E c \in SeededRoles : id[c] = i /\ roles'[i].code = c
  <2> SUFFICES ASSUME NEW i \in RoleIds, NEW c \in SeededRoles, id[c] = i,
                      roles'[i] = [code |-> c, system |-> c \in SystemRoles]
               PROVE  roles'[i].code = c
    BY <1>4
  <2> QED OBVIOUS
<1>11. RowsFit'
  <2>1. ASSUME NEW i \in RoleIds, NEW j \in RoleIds, Present(i)', roles'[i].code = roles'[j].code
        PROVE  i = j
    <3>1. CASE roles'[i] = roles[i] /\ roles'[j] = roles[j]
      BY <2>1, <3>1 DEF Inv, RowsFit, Present
    <3>2. ASSUME NEW k \in RoleIds, NEW l \in RoleIds, NEW c \in SeededRoles, id[c] = k,
                 roles'[l].code = c, k # l
          PROVE  FALSE
      <4>1. CASE roles'[l] = roles[l]
        BY <1>9, <3>2, <4>1
      <4>2. ASSUME NEW d \in SeededRoles, id[d] = l, roles'[l].code = d PROVE FALSE
        BY <3>2, <4>2
      <4> QED BY <1>4, <4>1, <4>2, <1>10
    <3>3. CASE \E c \in SeededRoles : id[c] = i /\ roles'[i].code = c
      BY <2>1, <3>2, <3>3
    <3>4. CASE \E c \in SeededRoles : id[c] = j /\ roles'[j].code = c
      BY <2>1, <3>2, <3>4
    <3> QED BY <1>10, <3>1, <3>3, <3>4
  <2>2. ASSUME NEW i \in RoleIds
        PROVE  /\ PermissionsOf(i)' \subseteq permissions'
               /\ ~Present(i)' => PermissionsOf(i)' = {} /\ ~roles'[i].system
    <3>1. PermissionsOf(i)' \subseteq permissions'
      BY <1>2 DEF PermissionsOf
    <3>2. CASE \A c \in SeededRoles : id[c] # i
      <4>1. roles'[i] = roles[i]
        BY <1>4, <3>2
      <4>2. \A p \in Permissions : granted'[i][p] = granted[i][p]
        BY <1>8, <3>2
      <4>3. PermissionsOf(i)' = PermissionsOf(i)
        BY <4>2 DEF PermissionsOf
      <4> QED BY <3>1, <4>1, <4>3 DEF Inv, RowsFit, Present
    <3>3. CASE \E c \in SeededRoles : id[c] = i
      <4>1. PICK c \in SeededRoles : id[c] = i /\ roles'[i].code = c
        BY <1>10, <3>3
      <4>2. Present(i)'
        BY <4>1, ConstantsAssumption DEF Present
      <4> QED BY <3>1, <4>2
    <3> QED BY <3>2, <3>3
  <2> QED BY <2>1, <2>2 DEF RowsFit
<1>12. \A i \in RoleIds : roles[i].system => roles'[i].code = roles[i].code
  <2> SUFFICES ASSUME NEW i \in RoleIds, roles[i].system, NEW c \in SeededRoles, id[c] = i,
                      roles'[i].code = c
               PROVE  roles[i].code = c
    BY <1>10
  <2>1. Present(i)
    BY DEF Inv, RowsFit
  <2>2. ~Fresh(i)
    BY <2>1 DEF Fresh
  <2> QED BY <1>1, <2>2
<1> QED BY <1>2, <1>5, <1>6, <1>7, <1>11, <1>12, SeedStep

-----------------------------------------------------------------------------
(***************************************************************************)
(* The invariant and what follows from it.                                 *)
(***************************************************************************)
LEMMA NextInv == Inv /\ [Next]_vars => Inv'
<1> SUFFICES ASSUME Inv, [Next]_vars PROVE Inv'
  OBVIOUS
<1>1. ASSUME NEW r \in Requests, Serve(r) PROVE Inv'
  BY <1>1, CreateGetCodeStep, CreateInsertStep, UpdateGetRoleStep, UpdateFieldsStep,
     UpdateGetPermissionsStep, UpdateReplaceStep, DeleteGetRoleStep, DeleteWriteStep DEF Serve
<1>2. ASSUME NEW r \in Requests, Crash(r) PROVE Inv'
  BY <1>2, FinishStep DEF Crash, InFlight
<1>3. CASE SeedPermissions
  <2>1. RowsFit'
    BY <1>3 DEF SeedPermissions, Inv, RowsFit, Present, PermissionsOf
  <2> QED BY <1>3, <2>1, SeedStep DEF SeedPermissions, Inv, TypeOK
<1>4. CASE SeedRoles
  BY <1>4, SeedRolesStep
<1>5. CASE UNCHANGED vars
  <2>1. RowsFit'
    BY <1>5 DEF vars, Inv, RowsFit, Present, PermissionsOf
  <2> QED BY <1>5, <2>1, SeedStep DEF vars, Inv, TypeOK
<1> QED BY <1>1, <1>2, <1>3, <1>4, <1>5 DEF Next

\* Inv holds throughout: updates under way and those they have not seen are within
\* the requests served at once (role_service.py, update_role).
THEOREM Invariance == Spec => []Inv
BY InitInv, NextInv, PTL DEF Spec

\* A role's permissions are never the merge of more requests than are served at
\* once.
THEOREM MergesBounded == Spec => []WritersAreBounded
<1>1. Inv => WritersAreBounded
  <2> SUFFICES ASSUME Inv, NEW i \in RoleIds PROVE Cardinality(Writers(i)) <= MaxInFlight
    BY DEF WritersAreBounded
  <2>1. {} \cup Unseen(i, {}) = Writers(i)
    BY DEF Unseen
  <2> QED BY <2>1 DEF Inv, MergesAreBounded
<1> QED BY <1>1, Invariance, PTL

\* No update grants again what was withdrawn after it had loaded the role.
THEOREM Withdrawn == Spec => WithdrawnStaysWithdrawn
<1> DEFINE Stays == \A i \in RoleIds, p \in Permissions, r \in Requests :
             Present(i) /\ granted[i][p] = NULL /\ p \in req[r].loaded => granted'[i][p] # r
<1>1. Inv /\ [Next]_vars => [Stays]_vars
  <2> SUFFICES ASSUME Inv, [Next]_vars, NEW i \in RoleIds, NEW p \in Permissions,
                      NEW r \in Requests, Present(i), granted[i][p] = NULL,
                      p \in req[r].loaded, granted'[i][p] = r
               PROVE  FALSE
    OBVIOUS
  <2>1. granted'[i][p] # granted[i][p]
    BY ConstantsAssumption
  <2>2. ASSUME NEW x \in Requests, UpdateReplace(x) PROVE FALSE
    <3>1. req[x].role = i
      BY <2>1, <2>2, Replaced
    <3>2. granted'[i][p] = x
      BY <2>1, <2>2, <3>1, Replaced, ConstantsAssumption
    <3>3. x = r
      BY <3>2
    <3> QED BY <2>1, <2>2, <3>1, <3>3, Replaced, ConstantsAssumption
  <2>3. ASSUME NEW x \in Requests, CreateInsert(x) PROVE FALSE
    <3>1. PICK j \in RoleIds : Fresh(j) /\ granted' = [granted EXCEPT ![j] = Granting(req[x].new, x)]
      BY <2>1, <2>3 DEF CreateInsert
    <3>2. i # j
      BY <3>1 DEF Fresh
    <3> QED BY <2>1, <3>1, <3>2
  <2>4. ASSUME NEW x \in Requests, DeleteWrite(x) PROVE FALSE
    <3>1. granted \in [RoleIds -> [Permissions -> Requests \cup {SEED, NULL}]]
      BY DEF Inv, TypeOK
    <3>2. granted'[i] = granted[i] \/ granted'[i] = Granting({}, NULL)
      BY <2>4, <3>1 DEF DeleteWrite
    <3> QED BY <2>1, <3>2 DEF Granting
  <2>5. ASSUME NEW x \in Requests, Serve(x) PROVE FALSE
    BY <2>1, <2>2, <2>3, <2>4, <2>5
    DEF Serve, CreateGetCode, UpdateGetRole, UpdateFields, UpdateGetPermissions, DeleteGetRole
  <2>6. CASE SeedRoles
    BY <2>1, <2>6, SeedRolesStep, ConstantsAssumption
  <2> QED BY <2>1, <2>5, <2>6 DEF Next, Crash, SeedPermissions, vars
<1> QED BY <1>1, Invariance, PTL DEF Spec, WithdrawnStaysWithdrawn

\* A system role yields only to a request that found it an ordinary one.
THEOREM SystemRoleYields == Spec => SystemRoleYieldsOnlyToStaleRequests
<1> DEFINE Stands(i) == /\ roles'[i].code = roles[i].code
                        /\ PermissionsOf(i) \subseteq PermissionsOf(i)'
           Yield == \A i \in RoleIds : roles[i].system /\ Stale(i) = {} => Stands(i)
<1>1. Inv /\ [Next]_vars => [Yield]_vars
  <2> SUFFICES ASSUME Inv, [Next]_vars, NEW i \in RoleIds, roles[i].system, Stale(i) = {}
               PROVE  Stands(i)
    OBVIOUS
  <2>1. ASSUME roles'[i] = roles[i], granted'[i] = granted[i] PROVE Stands(i)
    BY <2>1 DEF PermissionsOf
  <2>2. Present(i)
    BY DEF Inv, RowsFit
  <2>3. ASSUME NEW r \in Requests, req[r].pc \in {"replace", "delete"} PROVE req[r].role # i
    BY <2>3 DEF Stale, InFlight, Inv, Fits
  <2>4. ASSUME NEW r \in Requests, UpdateReplace(r) PROVE Stands(i)
    <3>1. granted'[i] = granted[i] /\ roles' = roles
      BY <2>3, <2>4, Replaced DEF UpdateReplace
    <3> QED BY <2>1, <3>1
  <2>5. ASSUME NEW r \in Requests, DeleteWrite(r) PROVE Stands(i)
    <3>1. granted'[i] = granted[i] /\ roles'[i] = roles[i]
      BY <2>3, <2>5 DEF DeleteWrite, Inv, TypeOK
    <3> QED BY <2>1, <3>1
  <2>6. ASSUME NEW r \in Requests, CreateInsert(r) PROVE Stands(i)
    <3>1. granted'[i] = granted[i] /\ roles'[i] = roles[i]
      BY <2>2, <2>6 DEF CreateInsert, Fresh, Inv, TypeOK
    <3> QED BY <2>1, <3>1
  <2>7. ASSUME NEW r \in Requests, Serve(r) PROVE Stands(i)
    BY <2>1, <2>4, <2>5, <2>6, <2>7
    DEF Serve, CreateGetCode, UpdateGetRole, UpdateFields, UpdateGetPermissions, DeleteGetRole
  <2>8. CASE SeedRoles
    <3>1. PermissionsOf(i) \subseteq PermissionsOf(i)'
      BY <2>8, SeedRolesStep, ConstantsAssumption DEF PermissionsOf
    <3> QED BY <2>8, <3>1, SeedRolesStep
  <2> QED BY <2>1, <2>7, <2>8 DEF Next, Crash, SeedPermissions, vars
<1> QED BY <1>1, Invariance, PTL DEF Spec, SystemRoleYieldsOnlyToStaleRequests

=============================================================================
