------------------------------ MODULE MCAccounts ------------------------------
(***************************************************************************)
(* Instances of Accounts for TLC.                                          *)
(***************************************************************************)
EXTENDS Accounts, TLC

CONSTANTS r1, r2, root, ama, kofi, p1

\* Three registrations over one number; two administrators' updates of one
\* account; the first requests for the profiles of an account that changes role.
Sharing ==
  [operations |-> {"register", "create_admin", "info", "seed_roles"},
   accounts |-> {root, ama, kofi}, kinds |-> {"tourist"}, phones |-> {p1}]
Administering ==
  [operations |-> {"register", "create_admin", "status", "verification", "role",
                   "seed_roles"},
   accounts |-> {root, ama}, kinds |-> {"operator"}, phones |-> {}]
Profiling ==
  [operations |-> {"register", "seed_data", "role", "get_profile", "save_profile",
                   "seed_roles", "delete_role"},
   accounts |-> {ama}, kinds |-> Kinds, phones |-> {}]

AllWorkloads == {Sharing, Administering, Profiling}

Interchangeable == Permutations(Requests)

=============================================================================
