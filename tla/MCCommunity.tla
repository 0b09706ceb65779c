------------------------------ MODULE MCCommunity ------------------------------
(***************************************************************************)
(* The instance of Community for TLC.                                      *)
(***************************************************************************)
EXTENDS Community, TLC

CONSTANTS r1, r2, r3, r4, ama, kofi, a1, a2, b1, b2

\* Ama has booked both attractions.
BookedByAma == [b \in Bookings |-> ama]
BookedAttractions == [b \in Bookings |-> IF b = b1 THEN a1 ELSE a2]

\* Requests are interchangeable.
RequestSymmetry == Permutations(Requests)

=============================================================================
