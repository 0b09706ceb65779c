------------------------------ MODULE Overbooking ------------------------------
(***************************************************************************)
(* How far concurrent requests overbook a slot.                            *)
(*                                                                         *)
(* A request checks that a party fits and writes it later, so that checks  *)
(* that race admit more than the capacity, by what was in flight.  But an  *)
(* update writes only the columns that differ from the row it loaded: of   *)
(* two updates of one booking that race, one may move it to the other day  *)
(* and the other to the other slot, and no request has checked the two     *)
(* together.  Such bookings add up without limit.  The history variable    *)
(* unchecked says which they are; no guard reads it.                       *)
(***************************************************************************)
EXTENDS Bookings, FiniteSetsExt

VARIABLE unchecked   \* bookings whose slot, day and party no request has checked together

uvars == <<today, attractions, slots, bookings, req, unchecked>>

\* Where booking b sits, where request r found its booking, and where it moves it.
Place(b) == <<bookings[b].slot, bookings[b].day, bookings[b].party>>
Found(r) == <<req[r].seen.slot, req[r].seen.day, req[r].seen.party>>
Aim(r) == <<NextSlot(req[r]), NextDay(req[r]), NextParty(req[r])>>

\* An update that has passed its checks and aims at the place b gets.
Checked(b) ==
  \E r \in Requests : /\ req[r].pc = "write" /\ req[r].op = "update"
                      /\ req[r].booking = b /\ Aim(r) = Place(b)'

Moved(b) == bookings[b].status # "absent" /\ Place(b)' # Place(b)

UncheckedNext ==
  {b \in Requests : IF Moved(b) THEN bookings'[b].slot # NULL /\ ~Checked(b)
                                ELSE b \in unchecked}

USpec == /\ Init /\ unchecked = {}
         /\ [][Next /\ unchecked' = UncheckedNext]_uvars

-----------------------------------------------------------------------------
(***************************************************************************)
(* Properties.                                                             *)
(***************************************************************************)

LargestCapacity == Max(Capacities)

\* The seats of a slot on a day, without the bookings no request has checked there.
CheckedSeats(s, d) == {seat \in Seats(s, d, NULL) : seat[1] \notin unchecked}

\* Requests that race overbook a slot, but by no more than one party for each other
\* request the server handles at once: a check that finds the slot full stops every
\* later request (booking_service.py, _ensure_capacity).  Not counted are the
\* bookings that updates have left where none of them has checked.
OverbookingIsBounded ==
  \A s \in Slots, d \in Days :
    Cardinality(CheckedSeats(s, d)) <= LargestCapacity + (MaxInFlight - 1) * MaxParty

\* The seats request r may yet take without another check: those it was granted, or
\* those of the booking it is confirming, which a cancellation may free meanwhile.
Claimed(r, s, d) ==
  {seat \in {req[r].booking} \X Parties :
     LET q == req[r]
         row == bookings[q.booking]
     IN  \/ /\ q.pc = "write" /\ q.op \in {"create", "update"}
            /\ NextSlot(q) = s /\ NextDay(q) = d /\ seat[2] <= NextParty(q)
         \/ /\ q.op = "confirm" /\ (q.pc = "write" \/ q.seen.status = "pending")
            /\ q.booking \notin unchecked
            /\ row.slot = s /\ row.day = d /\ seat[2] <= row.party}

SeatsOrClaims(s, d) == CheckedSeats(s, d) \cup UNION {Claimed(r, s, d) : r \in Requests}

\* The inductive invariant: seats taken and seats claimed stay together within the
\* bound, and so do the requests.
ClaimsAreBounded ==
  /\ Cardinality(InFlight) <= MaxInFlight
  /\ \A s \in Slots, d \in Days :
       Cardinality(SeatsOrClaims(s, d)) <= LargestCapacity + (MaxInFlight - 1) * MaxParty

\* A booking comes to a place nobody has checked only by an update that writes upon
\* a row which has changed since it was loaded (booking_service.py, update_booking).
UncheckedOnlyByRacingUpdates ==
  [][\A b \in unchecked' \ unchecked :
       \E r \in Requests : UpdateWrite(r) /\ req[r].booking = b /\ Found(r) # Place(b)]_uvars

=============================================================================
