----------------------------- MODULE MCOverbooking -----------------------------
(***************************************************************************)
(* The instance of Overbooking for TLC.                                    *)
(***************************************************************************)
EXTENDS Overbooking, TLC

CONSTANTS r1, r2, r3, kofi, a1, s1

\* Kofi operates every attraction of the instance.
OperatedByKofi == [a \in Attractions |-> kofi]

\* Requests are interchangeable.
RequestSymmetry == Permutations(Requests)

=============================================================================
