------------------------------- MODULE MCRoles -------------------------------
(***************************************************************************)
(* Instances of Roles for TLC.                                             *)
(***************************************************************************)
EXTENDS Roles, TLC

CONSTANTS r1, r2, r3, i1, i2, i3, p1, p2, p3, superAdmin, guide

\* super_admin has all permissions, guide one.
Specs == [c \in SeededRoles |-> IF c = superAdmin THEN Permissions ELSE {p1}]

Interchangeable == Permutations(Requests) \cup Permutations(RoleIds)

=============================================================================
