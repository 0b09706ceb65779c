-------------------------- MODULE MCPasswordReset --------------------------
(***************************************************************************)
(* Instances of PasswordReset for TLC.                                     *)
(***************************************************************************)
EXTENDS PasswordReset, TLC

CONSTANTS r1, r2, r3, ama, p1, p2, c1, c2

\* Requests are interchangeable, and so are passwords and codes.
Interchangeable == Permutations(Requests) \cup Permutations(Passwords) \cup Permutations(Codes)

=============================================================================
