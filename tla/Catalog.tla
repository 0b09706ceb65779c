-------------------------------- MODULE Catalog --------------------------------
(***************************************************************************)
(* What visitors and operators are promised about the attractions of the   *)
(* catalogue, without requests: each operation is one indivisible entry.   *)
(*                                                                         *)
(* A visitor marks an attraction as a favourite once, until he removes the *)
(* mark; reviews attractions, and each of his bookings once, under the     *)
(* attraction it was made for.  An operator publishes opening hours.  With *)
(* an attraction its favourites and hours go; its reviews stay, without    *)
(* it.                                                                     *)
(***************************************************************************)
CONSTANTS Names, Users, Attractions, Bookings, TouristOf, AttractionOf, NULL

VARIABLES live,       \* attractions of the catalogue
          favorites,  \* pairs of a visitor and an attraction
          reviews,    \* by name
          schedules   \* by name

vars == <<live, favorites, reviews, schedules>>

Init ==
  /\ live = Attractions
  /\ favorites = {}
  /\ \A n \in Names : ~reviews[n].present /\ schedules[n].attraction = NULL

Mark ==
  /\ \E u \in Users, a \in live :
       /\ <<u, a>> \notin favorites
       /\ favorites' = favorites \cup {<<u, a>>}
  /\ UNCHANGED <<live, reviews, schedules>>

Unmark ==
  /\ \E u \in Users, a \in Attractions :
       /\ <<u, a>> \in favorites
       /\ favorites' = favorites \ {<<u, a>>}
  /\ UNCHANGED <<live, reviews, schedules>>

\* Only the visitor of a booking reviews it, and nobody has before.
MayReview(u, a, b) ==
  b # NULL => /\ TouristOf[b] = u /\ AttractionOf[b] = a
              /\ \A n \in Names : ~(reviews[n].present /\ reviews[n].booking = b)

Review ==
  /\ \E n \in Names, u \in Users, a \in live, b \in Bookings \cup {NULL} :
       /\ ~reviews[n].present
       /\ MayReview(u, a, b)
       /\ reviews' = [reviews EXCEPT ![n] =
            [present |-> TRUE, reviewer |-> u, target |-> a, attraction |-> a, booking |-> b]]
  /\ UNCHANGED <<live, favorites, schedules>>

Publish ==
  /\ \E n \in Names, a \in live, open \in BOOLEAN :
       /\ schedules[n].attraction = NULL
       /\ schedules' = [schedules EXCEPT ![n] = [attraction |-> a, open |-> open]]
  /\ UNCHANGED <<live, favorites, reviews>>

Change ==
  /\ \E n \in Names, open \in BOOLEAN :
       /\ schedules[n].attraction # NULL
       /\ schedules' = [schedules EXCEPT ![n].open = open]
  /\ UNCHANGED <<live, favorites, reviews>>

Withhold ==
  /\ \E n \in Names :
       /\ schedules[n].attraction # NULL
       /\ schedules' = [schedules EXCEPT ![n] = [attraction |-> NULL, open |-> FALSE]]
  /\ UNCHANGED <<live, favorites, reviews>>

Withdraw ==
  \E a \in live :
    /\ live' = live \ {a}
    /\ favorites' = {f \in favorites : f[2] # a}
    /\ reviews' = [n \in Names |->
         IF reviews[n].attraction = a THEN [reviews[n] EXCEPT !.attraction = NULL] ELSE reviews[n]]
    /\ schedules' = [n \in Names |->
         IF schedules[n].attraction = a THEN [attraction |-> NULL, open |-> FALSE]
                                        ELSE schedules[n]]

Next == Mark \/ Unmark \/ Review \/ Publish \/ Change \/ Withhold \/ Withdraw

Spec == Init /\ [][Next]_vars

=============================================================================
