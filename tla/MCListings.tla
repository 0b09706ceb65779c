------------------------------ MODULE MCListings ------------------------------
(***************************************************************************)
(* The instance of Listings for TLC.                                       *)
(***************************************************************************)
EXTENDS Listings

CONSTANTS t1, t2

\* The rows fall on one day, or on two in turn.
OneOrTwoDays == {[n \in Rows |-> 1], [n \in Rows |-> 1 + (n % 2)]}

=============================================================================
