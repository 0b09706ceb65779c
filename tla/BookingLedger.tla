--------------------------- MODULE BookingLedger ---------------------------
(***************************************************************************)
(* What the booking engine promises, without requests: a ledger of         *)
(* bookings on which every operation is one indivisible entry.             *)
(*                                                                         *)
(* A visitor asks for a day that has not passed, and then books an open    *)
(* attraction for it, in a slot with room for the party or in no slot;     *)
(* changes the booking while it is pending; cancels it for good.  The      *)
(* entry is made of what is open and free at that moment; the day alone    *)
(* may have passed since it was asked for.  The operator confirms a        *)
(* pending booking once, with an entry token no other booking has.  A      *)
(* booking loses its slot or its attraction only when that slot or         *)
(* attraction is withdrawn.                                                *)
(***************************************************************************)
EXTENDS Integers, FiniteSets

CONSTANTS BookingIds, Users, Attractions, Slots, Days, Parties, Capacities, Tokens, NULL

VARIABLES today, attractions, slots, bookings,
          asked         \* the days visitors have asked for and not yet booked

vars == <<today, attractions, slots, bookings, asked>>

Init ==
  /\ today = 1 /\ asked = {}
  /\ \A a \in Attractions : attractions[a].live /\ ~attractions[a].open
  /\ \A s \in Slots : slots[s].state = "unborn"
  /\ \A b \in BookingIds : bookings[b].status = "absent"

\* The seats taken in slot s on day d by the bookings other than b.
Seats(s, d, b) ==
  {seat \in (BookingIds \ {b}) \X Parties :
     LET row == bookings[seat[1]]
     IN  /\ row.slot = s /\ row.day = d /\ row.status \in {"pending", "confirmed"}
         /\ seat[2] <= row.party}

\* Booking b may sit in slot s of attraction a.
Fits(b, a, s, d, p) ==
  s # NULL => /\ slots[s].state = "live" /\ slots[s].attraction = a /\ slots[s].active
              /\ Cardinality(Seats(s, d, b)) + p <= slots[s].capacity

\* A visitor asks for a day, and may give it up again.
Ask ==
  /\ \E d \in Days : d >= today /\ asked' = asked \cup {d}
  /\ UNCHANGED <<today, attractions, slots, bookings>>

GiveUp ==
  /\ \E d \in asked : asked' = asked \ {d}
  /\ UNCHANGED <<today, attractions, slots, bookings>>

Book ==
  /\ \E b \in BookingIds, u \in Users, a \in Attractions, s \in Slots \cup {NULL},
        d \in Days, p \in Parties :
       /\ bookings[b].status = "absent"
       /\ attractions[a].live /\ attractions[a].open
       /\ d \in asked /\ asked' = asked \ {d}
       /\ Fits(b, a, s, d, p)
       /\ (s = NULL /\ attractions[a].priced) =>
            ~\E t \in Slots : slots[t].state = "live" /\ slots[t].attraction = a
                              /\ slots[t].active
       /\ bookings' = [bookings EXCEPT ![b] =
            [status |-> "pending", tourist |-> u, attraction |-> a, slot |-> s,
             day |-> d, party |-> p, qr |-> NULL]]
  /\ UNCHANGED <<today, attractions, slots>>

Change ==
  /\ \E b \in BookingIds, s \in Slots \cup {NULL}, d \in Days, p \in Parties :
       /\ bookings[b].status = "pending"
       /\ bookings[b].slot # NULL => s # NULL
       /\ d # bookings[b].day => d \in asked
       /\ Fits(b, bookings[b].attraction, s, d, p)
       /\ asked' = asked \ {d}
       /\ bookings' = [bookings EXCEPT ![b].slot = s, ![b].day = d, ![b].party = p]
  /\ UNCHANGED <<today, attractions, slots>>

Cancel ==
  /\ \E b \in BookingIds :
       /\ bookings[b].status \in {"pending", "confirmed"}
       /\ bookings' = [bookings EXCEPT ![b].status = "cancelled"]
  /\ UNCHANGED <<today, attractions, slots, asked>>

Confirm ==
  /\ \E b \in BookingIds, t \in Tokens :
       /\ bookings[b].status = "pending"
       /\ bookings[b].attraction # NULL /\ attractions[bookings[b].attraction].open
       /\ \A c \in BookingIds : bookings[c].qr # t
       /\ bookings' = [bookings EXCEPT ![b].status = "confirmed", ![b].qr = t]
  /\ UNCHANGED <<today, attractions, slots, asked>>

OpenSlot ==
  /\ \E s \in Slots, a \in Attractions, c \in Capacities, active \in BOOLEAN :
       /\ slots[s].state = "unborn" /\ attractions[a].live
       /\ slots' = [slots EXCEPT ![s] = [state |-> "live", attraction |-> a,
                                         capacity |-> c, active |-> active]]
  /\ UNCHANGED <<today, attractions, bookings, asked>>

ChangeSlot ==
  /\ \E s \in Slots, c \in Capacities, active \in BOOLEAN :
       /\ slots[s].state = "live"
       /\ slots' = [slots EXCEPT ![s].capacity = c, ![s].active = active]
  /\ UNCHANGED <<today, attractions, bookings, asked>>

WithdrawSlot ==
  /\ \E s \in Slots :
       /\ slots[s].state = "live"
       /\ slots' = [slots EXCEPT ![s].state = "gone"]
       /\ bookings' = [b \in BookingIds |->
            [bookings[b] EXCEPT !.slot = IF @ = s THEN NULL ELSE @]]
  /\ UNCHANGED <<today, attractions, asked>>

\* Only an attraction without slots is withdrawn.
WithdrawAttraction ==
  /\ \E a \in Attractions :
       /\ attractions[a].live
       /\ \A s \in Slots : slots[s].state = "live" => slots[s].attraction # a
       /\ attractions' = [attractions EXCEPT ![a].live = FALSE, ![a].open = FALSE]
       /\ bookings' = [b \in BookingIds |->
            [bookings[b] EXCEPT !.attraction = IF @ = a THEN NULL ELSE @]]
  /\ UNCHANGED <<today, slots, asked>>

ChangeAttraction ==
  /\ \E a \in Attractions, open, priced \in BOOLEAN :
       /\ attractions[a].live
       /\ attractions' = [attractions EXCEPT ![a].open = open, ![a].priced = priced]
  /\ UNCHANGED <<today, slots, bookings, asked>>

NextDay == today' = today + 1 /\ UNCHANGED <<attractions, slots, bookings, asked>>

Next == \/ Ask \/ GiveUp
        \/ Book \/ Change \/ Cancel \/ Confirm
        \/ OpenSlot \/ ChangeSlot \/ WithdrawSlot
        \/ ChangeAttraction \/ WithdrawAttraction
        \/ NextDay

Spec == Init /\ [][Next]_vars

=============================================================================
