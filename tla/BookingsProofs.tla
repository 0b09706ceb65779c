--------------------------- MODULE BookingsProofs ---------------------------
(***************************************************************************)
(* Proofs about Bookings for any set of requests, users, attractions and   *)
(* slots, any bounds, and any number of requests in flight.                *)
(***************************************************************************)
EXTENDS Bookings, TLAPS, FiniteSetTheorems

LEMMA RowTypes ==
  /\ NoBooking \in BookingRow
  /\ NoSlot \in SlotRow
  /\ NoBooking.slot = NULL /\ NoBooking.status = "absent" /\ NoBooking.qr = NULL
BY DEF NoBooking, BookingRow, NoSlot, SlotRow, OrNull, BookingStatus

\* What an idle request looks like, so that its definition need not be opened.
LEMMA IdleType ==
  /\ Idle \in RequestState /\ Idle.pc = "idle" /\ Idle.op = "none" /\ Idle.slot = NULL
  /\ Idle.seen = NoBooking
BY RowTypes DEF Idle, RequestState, OrNull

LEMMA SpentType == Spent \in RequestState /\ Spent.pc = "spent" /\ Spent.op = "none"
BY IdleType DEF Spent, RequestState

LEMMA InitType == Init => TypeOK
<1> SUFFICES ASSUME Init PROVE TypeOK
    OBVIOUS
<1>1. today \in Days
  BY BoundsAssumption DEF Init, Days
<1>2. attractions \in [Attractions -> AttractionRow]
  <2>1. ASSUME NEW p \in BOOLEAN
        PROVE  [live |-> TRUE, open |-> FALSE, priced |-> p] \in AttractionRow
    BY DEF AttractionRow
  <2> QED BY <2>1 DEF Init
<1>3. slots \in [Slots -> SlotRow] /\ bookings \in [Requests -> BookingRow]
  BY RowTypes DEF Init
<1>4. req \in [Requests -> RequestState]
  BY IdleType DEF Init
<1> QED BY <1>1, <1>2, <1>3, <1>4 DEF TypeOK

LEMMA TypeStep ==
  ASSUME TypeOK, RequestsAreWellFormed, [Next]_vars
  PROVE  TypeOK'
<1> USE IdleType, SpentType, RowTypes, IdsAssumption, BoundsAssumption DEF TypeOK
<1> DEFINE Moves(r) == \E q \in RequestState : Proceed(r, q)
<1>1. ASSUME NEW r \in Requests, Moves(r), UNCHANGED Tables
      PROVE  TypeOK'
  <2>1. req' \in [Requests -> RequestState]
    BY <1>1 DEF Proceed
  <2> QED BY <1>1, <2>1 DEF Tables
<1>2. ASSUME NEW r \in Requests, Moves(r), UNCHANGED <<today, attractions, slots>>,
             bookings' \in [Requests -> BookingRow]
      PROVE  TypeOK'
  <2>1. req' \in [Requests -> RequestState]
    BY <1>2 DEF Proceed
  <2> QED BY <1>2, <2>1
<1>3. ASSUME NEW r \in Requests, Finish(r) \/ FinishSpent(r)
      PROVE  Moves(r)
  BY <1>3 DEF Finish, FinishSpent
<1> HIDE DEF Moves
<1>4. CASE UNCHANGED vars
  BY <1>4 DEF vars
<1>5. ASSUME NEW r \in Requests, GetSlot(r)
      PROVE  TypeOK'
  <2>1. NextSlot(req[r]) \in Slots
    BY <1>5 DEF GetSlot, RequestsAreWellFormed, WellFormed, NextSlot, RequestState, BookingRow, OrNull
  <2>2. [req[r] EXCEPT !.pc = "capacity", !.capacity = slots[NextSlot(req[r])].capacity]
          \in RequestState
    BY <2>1 DEF RequestState, SlotRow
  <2>3. Moves(r)
    BY <1>5, <1>3, <2>2 DEF GetSlot, Moves
  <2> QED BY <1>1, <1>5, <2>3 DEF GetSlot
<1>6. ASSUME NEW r \in Requests, EnsureCapacity(r)
      PROVE  TypeOK'
  <2>1. [req[r] EXCEPT !.pc = "write"] \in RequestState
    BY DEF RequestState
  <2>2. Moves(r)
    BY <1>6, <1>3, <2>1 DEF EnsureCapacity, Moves
  <2> QED BY <1>1, <1>6, <2>2 DEF EnsureCapacity
<1>7. ASSUME NEW r \in Requests, CreateGetAttraction(r)
      PROVE  TypeOK'
  <2>1. PICK u \in Users, a \in Attractions, s \in OrNull(Slots), d \in Days, p \in Parties :
          Proceed(r, [Idle EXCEPT
            !.pc = IF s # NULL THEN "slot"
                   ELSE IF attractions[a].priced THEN "slotless" ELSE "write",
            !.op = "create", !.user = u, !.booking = r,
            !.attraction = a, !.slot = s, !.day = d, !.party = p])
    BY <1>7 DEF CreateGetAttraction
  <2> DEFINE pc == IF s # NULL THEN "slot"
                   ELSE IF attractions[a].priced THEN "slotless" ELSE "write"
  <2>2. pc \in {"slot", "slotless", "write"}
    OBVIOUS
  <2> HIDE DEF pc
  <2>3. [Idle EXCEPT !.pc = pc, !.op = "create", !.user = u, !.booking = r,
            !.attraction = a, !.slot = s, !.day = d, !.party = p] \in RequestState
    BY <2>2 DEF RequestState, OrNull, Operations
  <2> QED BY <1>1, <1>7, <2>1, <2>3 DEF CreateGetAttraction, Moves, pc
<1>8. ASSUME NEW r \in Requests, CreateWithoutSlot(r)
      PROVE  TypeOK'
  <2>1. [req[r] EXCEPT !.pc = "write"] \in RequestState
    BY DEF RequestState
  <2>2. Moves(r)
    BY <1>8, <1>3, <2>1 DEF CreateWithoutSlot, Moves
  <2> QED BY <1>1, <1>8, <2>2 DEF CreateWithoutSlot
<1>9. ASSUME NEW r \in Requests, CreateInsert(r)
      PROVE  TypeOK'
  <2>1. [status |-> "pending", tourist |-> req[r].user, attraction |-> req[r].attraction,
         slot |-> req[r].slot, day |-> req[r].day, party |-> req[r].party, qr |-> NULL]
          \in BookingRow
    BY DEF RequestState, BookingRow, OrNull, BookingStatus
  <2>2. bookings' \in [Requests -> BookingRow]
    BY <1>9, <2>1 DEF CreateInsert
  <2>3. Moves(r)
    BY <1>9, <1>3 DEF CreateInsert
  <2> QED BY <1>2, <1>9, <2>2, <2>3 DEF CreateInsert
<1>10. ASSUME NEW r \in Requests, UpdateGetBooking(r)
       PROVE  TypeOK'
  <2>1. PICK u \in Users, b \in Requests, s \in OrNull(Slots), d \in OrNull(Days),
             p \in OrNull(Parties) :
          Proceed(r, [Idle EXCEPT
            !.pc = IF s # NULL \/ bookings[b].slot # NULL THEN "slot" ELSE "write",
            !.op = "update", !.user = u, !.booking = b, !.seen = bookings[b],
            !.attraction = bookings[b].attraction,
            !.slot = s, !.day = d, !.party = p])
    BY <1>10 DEF UpdateGetBooking
  <2> DEFINE pc == IF s # NULL \/ bookings[b].slot # NULL THEN "slot" ELSE "write"
  <2>2. pc \in {"slot", "write"}
    OBVIOUS
  <2>3. bookings[b] \in BookingRow /\ bookings[b].attraction \in OrNull(Attractions)
    BY DEF BookingRow
  <2> HIDE DEF pc
  <2>4. [Idle EXCEPT !.pc = pc, !.op = "update", !.user = u, !.booking = b,
            !.seen = bookings[b], !.attraction = bookings[b].attraction,
            !.slot = s, !.day = d, !.party = p] \in RequestState
    BY <2>2, <2>3 DEF RequestState, OrNull, Operations
  <2> QED BY <1>1, <1>10, <2>1, <2>4 DEF UpdateGetBooking, Moves, pc
<1>11. ASSUME NEW r \in Requests, UpdateWrite(r)
       PROVE  TypeOK'
  <2> DEFINE q == req[r]
             b == q.booking
  <2>1. q.op = "update" => b \in Requests
    BY DEF RequestsAreWellFormed, WellFormed
  <2>2. /\ Changed(q.slot, q.seen.slot, bookings[b].slot) \in OrNull(Slots)
        /\ Changed(q.day, q.seen.day, bookings[b].day) \in OrNull(Days)
        /\ Changed(q.party, q.seen.party, bookings[b].party) \in OrNull(Parties)
    BY <1>11, <2>1 DEF UpdateWrite, Changed, RequestState, BookingRow
  <2>3. [bookings[b] EXCEPT
           !.slot = Changed(q.slot, q.seen.slot, @),
           !.day = Changed(q.day, q.seen.day, @),
           !.party = Changed(q.party, q.seen.party, @)] \in BookingRow
    BY <1>11, <2>1, <2>2 DEF UpdateWrite, BookingRow
  <2>4. bookings' \in [Requests -> BookingRow]
    BY <1>11, <2>1, <2>3 DEF UpdateWrite
  <2>5. Moves(r)
    BY <1>11, <1>3 DEF UpdateWrite
  <2> QED BY <1>2, <1>11, <2>4, <2>5 DEF UpdateWrite
<1>12. ASSUME NEW r \in Requests, CancelGetBooking(r)
       PROVE  TypeOK'
  <2>1. PICK u \in Users, b \in Requests :
          Proceed(r, [Idle EXCEPT !.pc = "write", !.op = "cancel", !.user = u,
                                  !.booking = b, !.seen = bookings[b]])
    BY <1>12 DEF CancelGetBooking
  <2>2. [Idle EXCEPT !.pc = "write", !.op = "cancel", !.user = u,
                     !.booking = b, !.seen = bookings[b]] \in RequestState
    BY DEF RequestState, OrNull, Operations
  <2> QED BY <1>1, <1>12, <2>1, <2>2 DEF CancelGetBooking, Moves
<1>13. ASSUME NEW r \in Requests, CancelWrite(r)
       PROVE  TypeOK'
  <2>1. bookings' \in [Requests -> BookingRow]
    BY <1>13 DEF CancelWrite, BookingRow, BookingStatus
  <2>2. Moves(r)
    BY <1>13, <1>3 DEF CancelWrite
  <2> QED BY <1>2, <1>13, <2>1, <2>2 DEF CancelWrite
<1>14. ASSUME NEW r \in Requests, ConfirmGetBooking(r)
       PROVE  TypeOK'
  <2>1. PICK u \in Operators, b \in Requests :
          Proceed(r, [Idle EXCEPT !.pc = "attraction", !.op = "confirm", !.user = u,
                                  !.booking = b, !.seen = bookings[b]])
    BY <1>14 DEF ConfirmGetBooking
  <2>2. [Idle EXCEPT !.pc = "attraction", !.op = "confirm", !.user = u,
                     !.booking = b, !.seen = bookings[b]] \in RequestState
    BY DEF RequestState, OrNull, Operations
  <2> QED BY <1>1, <1>14, <2>1, <2>2 DEF ConfirmGetBooking, Moves
<1>15. ASSUME NEW r \in Requests, ConfirmGetAttraction(r)
       PROVE  TypeOK'
  <2>1. [req[r] EXCEPT !.pc = "write"] \in RequestState
    BY DEF RequestState
  <2>2. Moves(r)
    BY <1>15, <1>3, <2>1 DEF ConfirmGetAttraction, Moves
  <2> QED BY <1>1, <1>15, <2>2 DEF ConfirmGetAttraction
<1>16. ASSUME NEW r \in Requests, ConfirmWrite(r)
       PROVE  TypeOK'
  <2> DEFINE b == req[r].booking
  <2>1. b \in Requests
    BY <1>16 DEF ConfirmWrite, RequestsAreWellFormed, WellFormed
  <2>2. [bookings[b] EXCEPT !.status = "confirmed", !.qr = r] \in BookingRow
    BY <2>1 DEF BookingRow, BookingStatus, OrNull
  <2>3. bookings' = [bookings EXCEPT ![b] =
                       [bookings[b] EXCEPT !.status = "confirmed", !.qr = r]]
    BY <1>16, <2>1 DEF ConfirmWrite
  <2>4. bookings' \in [Requests -> BookingRow]
    BY <2>2, <2>3
  <2>5. Moves(r)
    BY <1>16, <1>3 DEF ConfirmWrite
  <2> QED BY <1>2, <1>16, <2>4, <2>5 DEF ConfirmWrite
<1>17. ASSUME NEW r \in Requests, DeleteSlotLoad(r)
       PROVE  TypeOK'
  <2>1. PICK u \in Operators, s \in Slots :
          Proceed(r, [Idle EXCEPT !.pc = "write", !.op = "deleteSlot", !.user = u,
                                  !.slot = s, !.children = BookedIn({s})])
    BY <1>17 DEF DeleteSlotLoad
  <2>2. BookedIn({s}) \in SUBSET Requests
    BY DEF BookedIn
  <2>3. [Idle EXCEPT !.pc = "write", !.op = "deleteSlot", !.user = u,
                     !.slot = s, !.children = BookedIn({s})] \in RequestState
    BY <2>2 DEF RequestState, OrNull, Operations
  <2> QED BY <1>1, <1>17, <2>1, <2>3 DEF DeleteSlotLoad, Moves
<1>18. ASSUME NEW r \in Requests, DeleteSlotWrite(r)
       PROVE  TypeOK'
  <2>1. bookings' \in [Requests -> BookingRow]
    BY <1>18 DEF DeleteSlotWrite, ClearSlot, BookingRow, OrNull
  <2>2. slots' \in [Slots -> SlotRow]
    BY <1>18 DEF DeleteSlotWrite, SlotRow
  <2>3. Moves(r)
    BY <1>18, <1>3 DEF DeleteSlotWrite
  <2>4. req' \in [Requests -> RequestState]
    BY <2>3 DEF Moves, Proceed
  <2> QED BY <1>18, <2>1, <2>2, <2>4 DEF DeleteSlotWrite
<1>19. ASSUME NEW r \in Requests, DeleteAttractionLoad(r)
       PROVE  TypeOK'
  <2>1. PICK a \in Attractions :
          Proceed(r, [Idle EXCEPT !.pc = "write", !.op = "deleteAttraction",
                                  !.attraction = a])
    BY <1>19 DEF DeleteAttractionLoad
  <2>2. [Idle EXCEPT !.pc = "write", !.op = "deleteAttraction", !.attraction = a]
          \in RequestState
    BY DEF RequestState, OrNull, Operations
  <2> QED BY <1>1, <1>19, <2>1, <2>2 DEF DeleteAttractionLoad, Moves
<1>20. ASSUME NEW r \in Requests, DeleteAttractionWrite(r)
       PROVE  TypeOK'
  <2>1. attractions' \in [Attractions -> AttractionRow]
    BY <1>20 DEF DeleteAttractionWrite, AttractionRow
  <2>2. slots' \in [Slots -> SlotRow]
    BY <1>20 DEF DeleteAttractionWrite, SlotRow
  <2> DEFINE cascade == {s \in Slots : /\ slots[s].state = "live"
                                       /\ slots[s].attraction = req[r].attraction}
             attractionOf(b) == IF bookings[b].attraction = req[r].attraction
                                  THEN NULL ELSE bookings[b].attraction
             slotOf(b) == IF bookings[b].slot \in cascade THEN NULL ELSE bookings[b].slot
             Cleared(b) == [bookings[b] EXCEPT !.attraction = attractionOf(b),
                                               !.slot = slotOf(b)]
  <2>3. bookings' = [b \in Requests |-> Cleared(b)]
    BY <1>20 DEF DeleteAttractionWrite
  <2>4. ASSUME NEW b \in Requests PROVE Cleared(b) \in BookingRow
    <3>1. attractionOf(b) \in OrNull(Attractions) /\ slotOf(b) \in OrNull(Slots)
      BY DEF BookingRow, OrNull
    <3> HIDE DEF attractionOf, slotOf
    <3> QED BY <3>1 DEF BookingRow
  <2> HIDE DEF Cleared
  <2>5. bookings' \in [Requests -> BookingRow]
    BY <2>3, <2>4
  <2>6. Moves(r)
    BY <1>20, <1>3 DEF DeleteAttractionWrite
  <2>7. req' \in [Requests -> RequestState]
    BY <2>6 DEF Moves, Proceed
  <2> QED BY <1>20, <2>1, <2>2, <2>5, <2>7 DEF DeleteAttractionWrite
<1>21. CASE CreateSlot
  <2>1. PICK s \in Slots, a \in Attractions, c \in Capacities, active \in BOOLEAN :
          /\ slots[s].state = "unborn" /\ attractions[a].live
          /\ slots' = [slots EXCEPT ![s] = [state |-> "live", attraction |-> a,
                                            capacity |-> c, active |-> active]]
    BY <1>21, Zenon DEF CreateSlot
  <2>2. [state |-> "live", attraction |-> a, capacity |-> c, active |-> active] \in SlotRow
    BY DEF SlotRow, OrNull
  <2>3. slots' \in [Slots -> SlotRow]
    BY <2>1, <2>2
  <2> QED BY <1>21, <2>3 DEF CreateSlot
<1>22. CASE UpdateSlot
  <2>1. PICK s \in Slots, c \in Capacities, active \in BOOLEAN :
          slots' = [slots EXCEPT ![s].capacity = c, ![s].active = active]
    BY <1>22 DEF UpdateSlot
  <2>2. [slots[s] EXCEPT !.capacity = c, !.active = active] \in SlotRow
    BY DEF SlotRow
  <2>3. slots' = [slots EXCEPT ![s] = [slots[s] EXCEPT !.capacity = c, !.active = active]]
    BY <2>1
  <2>4. slots' \in [Slots -> SlotRow]
    BY <2>2, <2>3
  <2> QED BY <1>22, <2>4 DEF UpdateSlot
<1>23. CASE UpdateAttraction
  <2>1. PICK a \in Attractions, open \in BOOLEAN, priced \in BOOLEAN :
          attractions' = [attractions EXCEPT ![a].open = open, ![a].priced = priced]
    BY <1>23 DEF UpdateAttraction
  <2>2. [attractions[a] EXCEPT !.open = open, !.priced = priced] \in AttractionRow
    BY DEF AttractionRow
  <2>3. attractions' = [attractions EXCEPT ![a] =
                          [attractions[a] EXCEPT !.open = open, !.priced = priced]]
    BY <2>1
  <2>4. attractions' \in [Attractions -> AttractionRow]
    BY <2>2, <2>3
  <2> QED BY <1>23, <2>4 DEF UpdateAttraction
<1>24. CASE NextMidnight
  BY <1>24 DEF NextMidnight, Days
<1>25. ASSUME NEW r \in Requests, Crash(r)
       PROVE  TypeOK'
  BY <1>1, <1>3, <1>25 DEF Crash
<1> QED BY <1>4, <1>5, <1>6, <1>7, <1>8, <1>9, <1>10, <1>11, <1>12, <1>13, <1>14, <1>15,
           <1>16, <1>17, <1>18, <1>19, <1>20, <1>21, <1>22, <1>23, <1>24, <1>25
        DEF Next, Begin, Advance

-----------------------------------------------------------------------------
(***************************************************************************)
(* Which steps write the tables, and how rows grow old.                    *)
(***************************************************************************)

LEMMA Writers ==
  ASSUME [Next]_vars
  PROVE  \/ UNCHANGED Tables
         \/ \E r \in Requests : \/ CreateInsert(r) \/ UpdateWrite(r)
                               \/ CancelWrite(r) \/ ConfirmWrite(r)
                               \/ DeleteSlotWrite(r) \/ DeleteAttractionWrite(r)
         \/ CreateSlot \/ UpdateSlot \/ UpdateAttraction \/ NextMidnight
BY DEF Next, Begin, Advance, Crash, vars, Tables, GetSlot, EnsureCapacity, CreateWithoutSlot,
       ConfirmGetAttraction, CreateGetAttraction, UpdateGetBooking, CancelGetBooking,
       ConfirmGetBooking, DeleteSlotLoad, DeleteAttractionLoad

\* A slot keeps its attraction, a deleted slot or attraction never comes back.
LEMMA SlotsAndAttractionsAge ==
  ASSUME Inv, [Next]_vars
  PROVE  /\ \A s \in Slots : slots[s].state # "unborn" =>
              /\ slots'[s].state # "unborn"
              /\ slots'[s].attraction = slots[s].attraction
         /\ \A a \in Attractions : ~attractions[a].live => ~attractions'[a].live
<1> USE DEF Inv, TypeOK
<1>1. CASE UNCHANGED <<slots, attractions>>
  BY <1>1
<1>2. ASSUME NEW r \in Requests, DeleteSlotWrite(r)
      PROVE  /\ UNCHANGED attractions
             /\ \A s \in Slots : slots[s].state # "unborn" =>
                  /\ slots'[s].state # "unborn"
                  /\ slots'[s].attraction = slots[s].attraction
  BY <1>2 DEF DeleteSlotWrite, SlotRow
<1>3. ASSUME NEW r \in Requests, DeleteAttractionWrite(r)
      PROVE  /\ \A a \in Attractions : ~attractions[a].live => ~attractions'[a].live
             /\ \A s \in Slots : slots[s].state # "unborn" =>
                  /\ slots'[s].state # "unborn"
                  /\ slots'[s].attraction = slots[s].attraction
  <2> DEFINE d == req[r].attraction
             cascade == {s \in Slots : slots[s].state = "live" /\ slots[s].attraction = d}
  <2>1. /\ attractions' = [attractions EXCEPT ![d].live = FALSE, ![d].open = FALSE]
        /\ slots' = [s \in Slots |-> IF s \in cascade
                                       THEN [slots[s] EXCEPT !.state = "gone"]
                                       ELSE slots[s]]
    BY <1>3 DEF DeleteAttractionWrite
  <2> HIDE DEF d, cascade
  <2>2. ASSUME NEW a \in Attractions, ~attractions[a].live
        PROVE  ~attractions'[a].live
    BY <2>1, <2>2 DEF AttractionRow
  <2>3. ASSUME NEW s \in Slots
        PROVE  /\ slots'[s].state \in {slots[s].state, "gone"}
               /\ slots'[s].attraction = slots[s].attraction
    <3>1. CASE s \in cascade
      BY <2>1, <3>1 DEF SlotRow
    <3>2. CASE s \notin cascade
      BY <2>1, <3>2
    <3> QED BY <3>1, <3>2
  <2> QED BY <2>2, <2>3
<1>4. ASSUME CreateSlot \/ UpdateSlot
      PROVE  /\ UNCHANGED attractions
             /\ \A s \in Slots : slots[s].state # "unborn" =>
                  /\ slots'[s].state # "unborn"
                  /\ slots'[s].attraction = slots[s].attraction
  <2>1. UNCHANGED attractions
    BY <1>4 DEF CreateSlot, UpdateSlot
  <2>2. CASE CreateSlot
    <3>1. PICK s \in Slots : /\ slots[s].state = "unborn"
                             /\ \A t \in Slots \ {s} : slots'[t] = slots[t]
      BY <2>2, Zenon DEF CreateSlot
    <3> QED BY <2>1, <3>1
  <2>3. CASE UpdateSlot
    <3>1. PICK s \in Slots, c \in Capacities, active \in BOOLEAN :
            /\ slots[s].state = "live"
            /\ slots' = [slots EXCEPT ![s].capacity = c, ![s].active = active]
      BY <2>3 DEF UpdateSlot
    <3>2. \A t \in Slots : /\ slots'[t].state = slots[t].state
                           /\ slots'[t].attraction = slots[t].attraction
      BY <3>1 DEF SlotRow
    <3> QED BY <2>1, <3>2
  <2> QED BY <1>4, <2>2, <2>3
<1>5. ASSUME UpdateAttraction
      PROVE  /\ UNCHANGED slots
             /\ \A a \in Attractions : ~attractions[a].live => ~attractions'[a].live
  BY <1>5 DEF UpdateAttraction, AttractionRow
<1> QED
  BY <1>1, <1>2, <1>3, <1>4, <1>5, Writers
     DEF Tables, CreateInsert, UpdateWrite, CancelWrite, ConfirmWrite, NextMidnight

\* How one step changes one booking.
BookingAges(b) ==
  /\ bookings[b].status # "absent" =>
       /\ bookings'[b].status # "absent"
       /\ bookings'[b].status = "pending" => bookings[b].status = "pending"
       /\ bookings'[b].tourist = bookings[b].tourist
       /\ \/ bookings'[b].attraction = bookings[b].attraction
          \/ /\ bookings'[b].attraction = NULL
             /\ ~attractions'[bookings[b].attraction].live
  /\ bookings[b].status = "absent" =>
       bookings'[b].status = "absent" \/ req'[b].pc = "spent"

LEMMA BookingsAge ==
  ASSUME Inv, [Next]_vars
  PROVE  \A b \in Requests : BookingAges(b)
<1> USE DEF Inv, TypeOK
<1>1. SUFFICES ASSUME NEW b \in Requests PROVE BookingAges(b)
  OBVIOUS
<1>2. CASE UNCHANGED bookings
  BY <1>2 DEF BookingAges
<1>3. ASSUME NEW r \in Requests, CreateInsert(r)
      PROVE  BookingAges(b)
  <2>1. bookings[r].status = "absent"
    BY <1>3 DEF CreateInsert, RequestsAreWellFormed, WellFormed
  <2>2. bookings'[b] = bookings[b] \/ (b = r /\ req'[b].pc = "spent")
    BY <1>3, SpentType DEF CreateInsert, FinishSpent, Proceed
  <2> QED BY <2>1, <2>2 DEF BookingAges
<1>4. ASSUME NEW r \in Requests, UpdateWrite(r)
      PROVE  BookingAges(b)
  BY <1>4 DEF UpdateWrite, BookingAges, BookingRow
<1>5. ASSUME NEW r \in Requests, CancelWrite(r) \/ ConfirmWrite(r)
      PROVE  BookingAges(b)
  <2>1. bookings[req[r].booking].status # "absent"
    BY <1>5 DEF CancelWrite, ConfirmWrite, RequestsAreWellFormed, WellFormed
  <2> QED BY <1>5, <2>1 DEF CancelWrite, ConfirmWrite, BookingAges, BookingRow
<1>6. ASSUME NEW r \in Requests, DeleteSlotWrite(r)
      PROVE  BookingAges(b)
  BY <1>6 DEF DeleteSlotWrite, ClearSlot, BookingAges, BookingRow
<1>7. ASSUME NEW r \in Requests, DeleteAttractionWrite(r)
      PROVE  BookingAges(b)
  <2>1. req[r].attraction \in Attractions
    BY <1>7 DEF DeleteAttractionWrite, RequestsAreWellFormed, WellFormed
  <2>2. ~attractions'[req[r].attraction].live
    BY <1>7, <2>1 DEF DeleteAttractionWrite, AttractionRow
  <2>3. /\ bookings'[b].status = bookings[b].status
        /\ bookings'[b].tourist = bookings[b].tourist
        /\ bookings'[b].attraction = IF bookings[b].attraction = req[r].attraction
                                       THEN NULL ELSE bookings[b].attraction
    BY <1>7 DEF DeleteAttractionWrite, BookingRow
  <2> QED BY <2>2, <2>3 DEF BookingAges
<1> QED
  BY <1>2, <1>3, <1>4, <1>5, <1>6, <1>7, Writers
     DEF Tables, CreateSlot, UpdateSlot, UpdateAttraction, NextMidnight

-----------------------------------------------------------------------------
(***************************************************************************)
(* The invariant, conjunct by conjunct.                                    *)
(***************************************************************************)

LEMMA SlotsHaveAttractionsStep ==
  ASSUME Inv, [Next]_vars
  PROVE  SlotsHaveAttractions'
<1> USE DEF Inv, TypeOK, SlotsHaveAttractions
<1>1. CASE UNCHANGED <<slots, attractions>>
  BY <1>1
<1>2. ASSUME NEW r \in Requests, DeleteSlotWrite(r)
      PROVE  SlotsHaveAttractions'
  <2>1. \A s \in Slots : /\ slots'[s].attraction = slots[s].attraction
                         /\ slots'[s].state = "live" => slots[s].state = "live"
                         /\ slots'[s].state # "unborn" =>
                              slots[s].state # "unborn" \/ s = req[r].slot
    BY <1>2 DEF DeleteSlotWrite, SlotRow
  <2>2. slots[req[r].slot].state # "unborn" /\ UNCHANGED attractions
    BY <1>2 DEF DeleteSlotWrite, RequestsAreWellFormed, WellFormed
  <2> QED BY <2>1, <2>2
<1>3. ASSUME NEW r \in Requests, DeleteAttractionWrite(r)
      PROVE  SlotsHaveAttractions'
  <2>1. SUFFICES ASSUME NEW s \in Slots
                 PROVE  /\ slots'[s].state # "unborn" => slots'[s].attraction \in Attractions
                        /\ slots'[s].state = "live" =>
                             attractions'[slots'[s].attraction].live
    OBVIOUS
  <2>2. slots'[s].attraction = slots[s].attraction
    BY <1>3 DEF DeleteAttractionWrite, SlotRow
  <2>3. slots'[s].state # "unborn" => slots[s].state # "unborn"
    BY <1>3 DEF DeleteAttractionWrite, SlotRow
  <2>4. slots'[s].state = "live" =>
          slots[s].state = "live" /\ slots[s].attraction # req[r].attraction
    BY <1>3 DEF DeleteAttractionWrite, SlotRow
  <2>5. \A a \in Attractions : a # req[r].attraction => attractions'[a] = attractions[a]
    BY <1>3 DEF DeleteAttractionWrite
  <2> QED BY <2>2, <2>3, <2>4, <2>5
<1>4. CASE CreateSlot
  <2>1. PICK s \in Slots, a \in Attractions, c \in Capacities, active \in BOOLEAN :
          /\ slots[s].state = "unborn" /\ attractions[a].live
          /\ slots' = [slots EXCEPT ![s] = [state |-> "live", attraction |-> a,
                                            capacity |-> c, active |-> active]]
    BY <1>4, Zenon DEF CreateSlot
  <2>2. UNCHANGED attractions
    BY <1>4 DEF CreateSlot
  <2> QED BY <2>1, <2>2
<1>5. CASE UpdateSlot
  <2>1. PICK s \in Slots, c \in Capacities, active \in BOOLEAN :
          slots' = [slots EXCEPT ![s].capacity = c, ![s].active = active]
    BY <1>5 DEF UpdateSlot
  <2>2. \A t \in Slots : /\ slots'[t].state = slots[t].state
                         /\ slots'[t].attraction = slots[t].attraction
    BY <2>1 DEF SlotRow
  <2>3. UNCHANGED attractions
    BY <1>5 DEF UpdateSlot
  <2> QED BY <2>2, <2>3
<1>6. CASE UpdateAttraction
  <2>1. \A a \in Attractions : attractions'[a].live = attractions[a].live
    BY <1>6 DEF UpdateAttraction, AttractionRow
  <2> QED BY <1>6, <2>1 DEF UpdateAttraction
<1> HIDE DEF Inv, TypeOK, SlotsHaveAttractions
<1> QED
  BY <1>1, <1>2, <1>3, <1>4, <1>5, <1>6, Writers
     DEF Tables, CreateInsert, UpdateWrite, CancelWrite, ConfirmWrite, NextMidnight

LEMMA SlotOfItsAttractionStep ==
  ASSUME Inv, [Next]_vars
  PROVE  SlotOfItsAttraction'
<1> USE IdsAssumption DEF Inv, TypeOK
<1> DEFINE StandsFor(b) == /\ bookings'[b].attraction # NULL
                           /\ slots'[bookings'[b].slot].state = "live"
                           /\ slots'[bookings'[b].slot].attraction = bookings'[b].attraction
<1>1. SUFFICES ASSUME NEW b \in Requests, bookings'[b].slot # NULL
               PROVE  StandsFor(b)
  BY DEF SlotOfItsAttraction
<1>2. CASE UNCHANGED <<slots, bookings>>
  BY <1>2, <1>1 DEF SlotOfItsAttraction
<1>3. ASSUME NEW r \in Requests, CreateInsert(r)
      PROVE  StandsFor(b)
  <2>1. CASE bookings'[b] = bookings[b]
    BY <1>1, <1>3, <2>1 DEF CreateInsert, SlotOfItsAttraction
  <2>2. CASE bookings'[b] # bookings[b]
    <3>1. /\ bookings'[b].slot = req[r].slot /\ bookings'[b].attraction = req[r].attraction
          /\ slots[req[r].slot].state = "live" /\ UNCHANGED slots
      BY <1>1, <1>3, <2>2 DEF CreateInsert
    <3>2. /\ req[r].attraction \in Attractions
          /\ slots[req[r].slot].attraction = req[r].attraction
      BY <1>1, <1>3, <3>1 DEF CreateInsert, RequestsAreWellFormed, WellFormed, LoadedRowsStand, RowsStand
    <3> QED BY <3>1, <3>2
  <2> QED BY <2>1, <2>2
<1>4. ASSUME NEW r \in Requests, UpdateWrite(r)
      PROVE  StandsFor(b)
  <2> DEFINE q == req[r]
  <2>1. UNCHANGED slots /\ bookings'[b].attraction = bookings[b].attraction
    BY <1>4 DEF UpdateWrite, BookingRow
  <2>2. CASE bookings'[b].slot = bookings[b].slot
    BY <1>1, <2>1, <2>2 DEF SlotOfItsAttraction
  <2>3. CASE bookings'[b].slot # bookings[b].slot
    <3>1. /\ b = q.booking /\ q.slot # NULL /\ bookings'[b].slot = q.slot
          /\ slots[q.slot].state = "live" /\ q.slot \in Slots
      BY <1>4, <2>3 DEF UpdateWrite, Changed, BookingRow, RequestState, OrNull
    <3>2. slots[q.slot].attraction = q.attraction
      BY <1>4, <3>1 DEF UpdateWrite, LoadedRowsStand, RowsStand
    <3>3. q.attraction \in Attractions /\ attractions[q.attraction].live
      BY <3>1, <3>2 DEF SlotsHaveAttractions
    <3>4. bookings[b].attraction = q.attraction
      BY <1>4, <3>1, <3>3 DEF UpdateWrite, LoadedRowsStand, RowsStand
    <3> QED BY <2>1, <3>1, <3>2, <3>3, <3>4
  <2> QED BY <2>2, <2>3
<1>5. ASSUME NEW r \in Requests, CancelWrite(r) \/ ConfirmWrite(r)
      PROVE  StandsFor(b)
  <2>1. /\ bookings'[b].slot = bookings[b].slot /\ UNCHANGED slots
        /\ bookings'[b].attraction = bookings[b].attraction
    BY <1>5 DEF CancelWrite, ConfirmWrite, BookingRow
  <2> QED BY <1>1, <2>1 DEF SlotOfItsAttraction
<1>6. ASSUME NEW r \in Requests, DeleteSlotWrite(r)
      PROVE  StandsFor(b)
  <2>1. /\ bookings'[b].slot = bookings[b].slot /\ bookings[b].slot # req[r].slot
        /\ bookings'[b].attraction = bookings[b].attraction
    BY <1>1, <1>6 DEF DeleteSlotWrite, ClearSlot, BookedIn, BookingRow
  <2>2. slots'[bookings[b].slot] = slots[bookings[b].slot]
    BY <1>1, <1>6, <2>1 DEF DeleteSlotWrite, BookingRow, OrNull
  <2> QED BY <1>1, <2>1, <2>2 DEF SlotOfItsAttraction
<1>7. ASSUME NEW r \in Requests, DeleteAttractionWrite(r)
      PROVE  StandsFor(b)
  <2> DEFINE a == req[r].attraction
  <2>1. /\ bookings'[b].slot = bookings[b].slot /\ bookings[b].slot \in Slots
        /\ ~(/\ slots[bookings[b].slot].state = "live"
             /\ slots[bookings[b].slot].attraction = a)
        /\ bookings'[b].attraction = IF bookings[b].attraction = a THEN NULL
                                     ELSE bookings[b].attraction
    BY <1>1, <1>7 DEF DeleteAttractionWrite, BookingRow, OrNull
  <2>2. slots'[bookings[b].slot] = slots[bookings[b].slot]
    BY <1>7, <2>1 DEF DeleteAttractionWrite
  <2> QED BY <1>1, <2>1, <2>2 DEF SlotOfItsAttraction
<1>8. CASE CreateSlot
  <2>1. UNCHANGED bookings
    BY <1>8 DEF CreateSlot
  <2>2. slots[bookings[b].slot].state = "live" /\ bookings[b].slot \in Slots
    BY <1>1, <2>1 DEF SlotOfItsAttraction, BookingRow, OrNull
  <2>3. \A s \in Slots : slots[s].state # "unborn" => slots'[s] = slots[s]
    BY <1>8 DEF CreateSlot
  <2> QED BY <1>1, <2>1, <2>2, <2>3 DEF SlotOfItsAttraction
<1>9. CASE UpdateSlot
  <2>1. UNCHANGED bookings
    BY <1>9 DEF UpdateSlot
  <2>2. bookings[b].slot \in Slots
    BY <1>1, <2>1 DEF BookingRow, OrNull
  <2>3. PICK s \in Slots, c \in Capacities, active \in BOOLEAN :
          slots' = [slots EXCEPT ![s].capacity = c, ![s].active = active]
    BY <1>9 DEF UpdateSlot
  <2>4. \A t \in Slots : /\ slots'[t].state = slots[t].state
                         /\ slots'[t].attraction = slots[t].attraction
    BY <2>3 DEF SlotRow
  <2> QED BY <1>1, <2>1, <2>2, <2>4 DEF SlotOfItsAttraction
<1> HIDE DEF StandsFor, Inv, TypeOK
<1> QED
  BY <1>2, <1>3, <1>4, <1>5, <1>6, <1>7, <1>8, <1>9, Writers
     DEF Tables, UpdateAttraction, NextMidnight

LEMMA TokenMatchesStatusStep ==
  ASSUME Inv, [Next]_vars
  PROVE  TokenMatchesStatus'
<1> USE IdsAssumption DEF Inv, TypeOK, TokenMatchesStatus
<1>1. CASE UNCHANGED bookings
  BY <1>1
<1>2. ASSUME NEW r \in Requests, CreateInsert(r)
      PROVE  TokenMatchesStatus'
  BY <1>2 DEF CreateInsert
<1>3. ASSUME NEW r \in Requests, ConfirmWrite(r)
      PROVE  TokenMatchesStatus'
  <2>1. \A b \in Requests :
          IF b = req[r].booking
            THEN bookings'[b].status = "confirmed" /\ bookings'[b].qr = r
            ELSE bookings'[b] = bookings[b]
    BY <1>3 DEF ConfirmWrite, BookingRow
  <2> QED BY <2>1
<1>4. ASSUME NEW r \in Requests, CancelWrite(r)
      PROVE  TokenMatchesStatus'
  <2>1. \A b \in Requests : bookings'[b] = bookings[b] \/ bookings'[b].status = "cancelled"
    BY <1>4 DEF CancelWrite, BookingRow
  <2> QED BY <2>1
<1>5. ASSUME NEW r \in Requests,
             UpdateWrite(r) \/ DeleteSlotWrite(r) \/ DeleteAttractionWrite(r)
      PROVE  TokenMatchesStatus'
  <2>1. SUFFICES ASSUME NEW b \in Requests
                 PROVE  bookings'[b].status = bookings[b].status /\ bookings'[b].qr = bookings[b].qr
    OBVIOUS
  <2>2. CASE UpdateWrite(r)
    BY <2>2 DEF UpdateWrite, BookingRow
  <2>3. CASE DeleteSlotWrite(r)
    BY <2>3 DEF DeleteSlotWrite, ClearSlot, BookingRow
  <2>4. CASE DeleteAttractionWrite(r)
    BY <2>4 DEF DeleteAttractionWrite, BookingRow
  <2> QED BY <1>5, <2>2, <2>3, <2>4
<1> HIDE DEF Inv, TypeOK, TokenMatchesStatus
<1> QED
  BY <1>1, <1>2, <1>3, <1>4, <1>5, Writers
     DEF Tables, CreateSlot, UpdateSlot, UpdateAttraction, NextMidnight

-----------------------------------------------------------------------------
(***************************************************************************)
(* The requests: what each knows stays true while the others write.        *)
(***************************************************************************)

\* The first statements, and the later ones that only read.
Reads(r) ==
  \/ Begin(r)
  \/ GetSlot(r) \/ EnsureCapacity(r) \/ CreateWithoutSlot(r) \/ ConfirmGetAttraction(r)

LEMMA RequestMoves ==
  ASSUME TypeOK, [Next]_vars, NEW x \in Requests, req'[x] # req[x]
  PROVE  /\ req[x].pc # "spent"
         /\ Reads(x) \/ req'[x] \in {Idle, Spent}
<1>1. PICK r \in Requests : Begin(r) \/ Advance(r) \/ Crash(r)
  BY DEF Next, vars, CreateSlot, UpdateSlot, UpdateAttraction, NextMidnight
<1>2. ASSUME NEW q, Proceed(r, q)
      PROVE  r = x /\ req'[x] = q
  BY <1>2 DEF Proceed, TypeOK
<1>3. CASE Begin(r)
  <2>1. \E q : Proceed(r, q)
    BY <1>3 DEF Begin, CreateGetAttraction, UpdateGetBooking, CancelGetBooking,
              ConfirmGetBooking, DeleteSlotLoad, DeleteAttractionLoad
  <2>2. req[r].pc = "idle"
    BY <1>3 DEF Begin, CreateGetAttraction, UpdateGetBooking, CancelGetBooking,
              ConfirmGetBooking, DeleteSlotLoad, DeleteAttractionLoad
  <2> QED BY <1>2, <1>3, <2>1, <2>2 DEF Reads
<1>4. CASE GetSlot(r) \/ EnsureCapacity(r) \/ CreateWithoutSlot(r) \/ ConfirmGetAttraction(r)
  <2>1. \E q : Proceed(r, q)
    BY <1>4 DEF GetSlot, EnsureCapacity, CreateWithoutSlot, ConfirmGetAttraction, Finish
  <2>2. req[r].pc # "spent"
    BY <1>4 DEF GetSlot, EnsureCapacity, CreateWithoutSlot, ConfirmGetAttraction
  <2> QED BY <1>2, <1>4, <2>1, <2>2 DEF Reads
<1>5. CASE \/ CreateInsert(r) \/ UpdateWrite(r) \/ CancelWrite(r) \/ ConfirmWrite(r)
           \/ DeleteSlotWrite(r) \/ DeleteAttractionWrite(r) \/ Crash(r)
  <2>1. Proceed(r, Idle) \/ Proceed(r, Spent)
    BY <1>5 DEF CreateInsert, UpdateWrite, CancelWrite, ConfirmWrite, DeleteSlotWrite,
              DeleteAttractionWrite, Crash, Finish, FinishSpent
  <2>2. req[r].pc # "spent"
    BY <1>5 DEF CreateInsert, UpdateWrite, CancelWrite, ConfirmWrite, DeleteSlotWrite,
              DeleteAttractionWrite, Crash, InFlight
  <2> QED BY <1>2, <2>1, <2>2
<1> QED BY <1>1, <1>3, <1>4, <1>5 DEF Advance

LEMMA RequestStandsStep ==
  ASSUME Inv, [Next]_vars, NEW x \in Requests
  PROVE  WellFormed(x)' /\ RowsStand(x)'
<1> USE IdsAssumption, IdleType, SpentType, RowTypes
<1>0. WellFormed(x) /\ RowsStand(x)
  BY DEF Inv, RequestsAreWellFormed, LoadedRowsStand
\* Another request's step: the rows x knows only age.
<1>1. CASE req'[x] = req[x]
  <2>1. bookings'[x].status # "absent" => req'[x].pc = "spent"
    BY <1>1, <1>0, BookingsAge DEF BookingAges, WellFormed
  <2>2. req[x].op \in {"update", "cancel", "confirm"} =>
          bookings'[req[x].booking].status # "absent"
    BY <1>0, BookingsAge DEF BookingAges, WellFormed
  <2>3. req[x].op = "deleteSlot" => slots'[req[x].slot].state # "unborn"
    BY <1>0, SlotsAndAttractionsAge DEF WellFormed
  <2>4. WellFormed(x)'
    BY <1>1, <1>0, <2>1, <2>2, <2>3 DEF WellFormed, NextSlot
  <2>5. ASSUME req[x].op = "update",
               bookings'[req[x].booking].attraction # req[x].attraction
        PROVE  /\ bookings'[req[x].booking].attraction = NULL
               /\ ~attractions'[req[x].attraction].live
    <3> DEFINE b == req[x].booking
    <3>1. b \in Requests /\ bookings[b].status # "absent"
      BY <1>0, <2>5 DEF WellFormed
    <3>2. \/ bookings'[b].attraction = bookings[b].attraction
          \/ /\ bookings'[b].attraction = NULL
             /\ ~attractions'[bookings[b].attraction].live
      BY <3>1, BookingsAge DEF BookingAges
    <3>3. bookings[b].attraction # req[x].attraction =>
            bookings[b].attraction = NULL /\ ~attractions[req[x].attraction].live
      BY <1>0, <2>5 DEF RowsStand
    <3>4. CASE bookings[b].attraction = req[x].attraction
      BY <2>5, <3>2, <3>4
    <3>5. CASE bookings[b].attraction # req[x].attraction
      <4>1. req[x].attraction \in OrNull(Attractions)
        BY DEF Inv, TypeOK, RequestState
      <4>2. req[x].attraction \in Attractions
        BY <3>3, <3>5, <4>1 DEF OrNull
      <4>3. bookings'[b].attraction = NULL
        BY <3>2, <3>3, <3>5
      <4> QED BY <3>3, <3>5, <4>2, <4>3, SlotsAndAttractionsAge
    <3> QED BY <3>4, <3>5
  <2>6. ASSUME req[x].op \in {"create", "update"}, req[x].pc \in {"capacity", "write"},
               req[x].slot # NULL
        PROVE  /\ slots'[req[x].slot].state # "unborn"
               /\ slots'[req[x].slot].attraction = req[x].attraction
    <3>1. req[x].slot \in Slots
      BY <2>6 DEF Inv, TypeOK, RequestState, OrNull
    <3> QED BY <1>0, <2>6, <3>1, SlotsAndAttractionsAge DEF RowsStand
  <2>7. RowsStand(x)'
    BY <1>1, <2>5, <2>6 DEF RowsStand
  <2> QED BY <2>4, <2>7
\* The request ends.
<1>2. CASE req'[x] # req[x] /\ req'[x] \in {Idle, Spent}
  <2>1. req[x].pc # "spent"
    BY <1>2, RequestMoves DEF Inv
  <2>2. bookings'[x].status # "absent" => req'[x].pc = "spent"
    BY <1>0, <2>1, BookingsAge DEF BookingAges, WellFormed
  <2>3. req'[x].op = "none" /\ req'[x].pc \in {"idle", "spent"}
    BY <1>2
  <2> QED BY <2>2, <2>3 DEF WellFormed, RowsStand
\* The request reads.
<1> DEFINE q == req[x]
<1>3. ASSUME NEW z, Proceed(x, z) PROVE req'[x] = z
  BY <1>3 DEF Proceed, Inv, TypeOK
<1>4. CASE req'[x] # req[x] /\ req'[x] \notin {Idle, Spent}
  <2> USE <1>4
  <2>1. Reads(x) /\ req[x].pc # "spent"
    BY RequestMoves DEF Inv
  <2>2. bookings[x].status = "absent"
    BY <1>0, <2>1 DEF WellFormed
  <2>3. CASE GetSlot(x)
    <3>1. /\ ValidSlot(NextSlot(q), q.attraction)
          /\ req'[x] = [q EXCEPT !.pc = "capacity", !.capacity = slots[NextSlot(q)].capacity]
          /\ UNCHANGED Tables /\ q.pc = "slot"
      BY <1>3, <2>3 DEF GetSlot, Finish
    <3>2. /\ req'[x].pc = "capacity" /\ req'[x].op = q.op /\ req'[x].slot = q.slot
          /\ req'[x].attraction = q.attraction /\ req'[x].seen = q.seen
          /\ req'[x].booking = q.booking /\ req'[x].user = q.user
          /\ req'[x].day = q.day /\ req'[x].party = q.party
      BY <3>1 DEF Inv, TypeOK, RequestState
    <3>3. WellFormed(x)'
      BY <1>0, <2>2, <3>1, <3>2 DEF WellFormed, NextSlot, Tables
    <3>4. q.slot # NULL => slots[q.slot].state = "live" /\ slots[q.slot].attraction = q.attraction
      BY <3>1 DEF ValidSlot, NextSlot
    <3>5. RowsStand(x)'
      BY <1>0, <3>1, <3>2, <3>4 DEF RowsStand, Tables
    <3> QED BY <3>3, <3>5
  <2>4. CASE EnsureCapacity(x) \/ CreateWithoutSlot(x) \/ ConfirmGetAttraction(x)
    <3>1. /\ req'[x] = [q EXCEPT !.pc = "write"]
          /\ UNCHANGED Tables
          /\ q.pc \in {"capacity", "slotless", "attraction"}
      BY <1>3, <2>4 DEF EnsureCapacity, CreateWithoutSlot, ConfirmGetAttraction, Finish
    <3>2. /\ req'[x].pc = "write" /\ req'[x].op = q.op /\ req'[x].slot = q.slot
          /\ req'[x].attraction = q.attraction /\ req'[x].seen = q.seen
          /\ req'[x].booking = q.booking /\ req'[x].user = q.user
          /\ req'[x].day = q.day /\ req'[x].party = q.party
      BY <3>1 DEF Inv, TypeOK, RequestState
    <3>3. WellFormed(x)'
      BY <1>0, <2>2, <3>1, <3>2 DEF WellFormed, NextSlot, Tables, Operations
    <3>5. RowsStand(x)'
      BY <1>0, <3>1, <3>2 DEF RowsStand, WellFormed, Tables
    <3> QED BY <3>3, <3>5
  <2>5. CASE CreateGetAttraction(x)
    <3>1. PICK u \in Users, a \in Attractions, s \in OrNull(Slots), d \in Days, p \in Parties :
            Proceed(x, [Idle EXCEPT
              !.pc = IF s # NULL THEN "slot"
                     ELSE IF attractions[a].priced THEN "slotless" ELSE "write",
              !.op = "create", !.user = u, !.booking = x,
              !.attraction = a, !.slot = s, !.day = d, !.party = p])
      BY <2>5 DEF CreateGetAttraction
    <3> DEFINE pc == IF s # NULL THEN "slot"
                     ELSE IF attractions[a].priced THEN "slotless" ELSE "write"
    <3>2. /\ pc \in {"slot", "slotless", "write"}
          /\ pc = "slot" <=> s # NULL
      OBVIOUS
    <3> HIDE DEF pc
    <3>3. req'[x] = [Idle EXCEPT !.pc = pc, !.op = "create", !.user = u, !.booking = x,
                       !.attraction = a, !.slot = s, !.day = d, !.party = p]
      BY <1>3, <3>1 DEF pc
    <3>4. /\ req'[x].pc = pc /\ req'[x].op = "create" /\ req'[x].slot = s
          /\ req'[x].attraction = a /\ req'[x].seen = NoBooking
          /\ req'[x].booking = x /\ req'[x].user = u
          /\ req'[x].day = d /\ req'[x].party = p
      BY <3>3 DEF RequestState
    <3>5. UNCHANGED Tables
      BY <2>5 DEF CreateGetAttraction
    <3>6. WellFormed(x)'
      BY <2>2, <3>2, <3>4, <3>5 DEF WellFormed, NextSlot, Tables, Operations
    <3>7. RowsStand(x)'
      BY <3>2, <3>4 DEF RowsStand
    <3> QED BY <3>6, <3>7
  <2>6. CASE UpdateGetBooking(x)
    <3>1. PICK u \in Users, b \in Requests, s \in OrNull(Slots), d \in OrNull(Days),
               p \in OrNull(Parties) :
            /\ bookings[b].status = "pending" /\ bookings[b].tourist = u
            /\ d # NULL => ValidVisitDate(d)
            /\ Proceed(x, [Idle EXCEPT
                 !.pc = IF s # NULL \/ bookings[b].slot # NULL THEN "slot" ELSE "write",
                 !.op = "update", !.user = u, !.booking = b, !.seen = bookings[b],
                 !.attraction = bookings[b].attraction,
                 !.slot = s, !.day = d, !.party = p])
      BY <2>6, Zenon DEF UpdateGetBooking
    <3> DEFINE pc == IF s # NULL \/ bookings[b].slot # NULL THEN "slot" ELSE "write"
    <3>2. /\ pc \in {"slot", "write"}
          /\ pc = "slot" => s # NULL \/ bookings[b].slot # NULL
          /\ pc = "write" => s = NULL
      OBVIOUS
    <3> HIDE DEF pc
    <3>3. req'[x] = [Idle EXCEPT !.pc = pc, !.op = "update", !.user = u, !.booking = b,
                       !.seen = bookings[b], !.attraction = bookings[b].attraction,
                       !.slot = s, !.day = d, !.party = p]
      BY <1>3, <3>1 DEF pc
    <3>4. /\ req'[x].pc = pc /\ req'[x].op = "update" /\ req'[x].slot = s
          /\ req'[x].attraction = bookings[b].attraction /\ req'[x].seen = bookings[b]
          /\ req'[x].booking = b
      BY <3>3 DEF RequestState
    <3>5. UNCHANGED Tables
      BY <2>6 DEF UpdateGetBooking
    <3>6. WellFormed(x)'
      BY <2>2, <3>1, <3>2, <3>4, <3>5 DEF WellFormed, NextSlot, Tables, Operations
    <3>7. RowsStand(x)'
      BY <3>2, <3>4, <3>5 DEF RowsStand, Tables
    <3> QED BY <3>6, <3>7
  <2>7. CASE CancelGetBooking(x) \/ ConfirmGetBooking(x)
    <3>1. PICK u \in Users, b \in Requests, pc \in {"write", "attraction"}, op \in {"cancel", "confirm"} :
            /\ bookings[b].status # "absent"
            /\ pc = "attraction" => op = "confirm"
            /\ req'[x] = [Idle EXCEPT !.pc = pc, !.op = op, !.user = u,
                                      !.booking = b, !.seen = bookings[b]]
      <4>1. CASE CancelGetBooking(x)
        <5>1. PICK u \in Users, b \in Requests :
                /\ bookings[b].status \in {"pending", "confirmed"} /\ bookings[b].tourist = u
                /\ Proceed(x, [Idle EXCEPT !.pc = "write", !.op = "cancel", !.user = u,
                                           !.booking = b, !.seen = bookings[b]])
          BY <4>1, Zenon DEF CancelGetBooking
        <5> QED BY <1>3, <5>1
      <4>2. CASE ConfirmGetBooking(x)
        <5>1. PICK u \in Operators, b \in Requests :
                /\ bookings[b].status # "absent"
                /\ Proceed(x, [Idle EXCEPT !.pc = "attraction", !.op = "confirm", !.user = u,
                                           !.booking = b, !.seen = bookings[b]])
          BY <4>2, Zenon DEF ConfirmGetBooking
        <5>2. req'[x] = [Idle EXCEPT !.pc = "attraction", !.op = "confirm", !.user = u,
                                     !.booking = b, !.seen = bookings[b]]
          BY <1>3, <5>1
        <5>3. u \in Users
          OBVIOUS
        <5> HIDE IdleType
        <5> QED BY <5>1, <5>2, <5>3, Zenon
      <4> QED BY <2>7, <4>1, <4>2
    <3>2. req'[x].pc = pc /\ req'[x].op = op /\ req'[x].booking = b
      BY <3>1 DEF RequestState
    <3>3. UNCHANGED Tables
      BY <2>7 DEF CancelGetBooking, ConfirmGetBooking
    <3>4. WellFormed(x)'
      BY <2>2, <3>1, <3>2, <3>3 DEF WellFormed, Tables, Operations
    <3>5. RowsStand(x)'
      BY <3>2 DEF RowsStand
    <3> QED BY <3>4, <3>5
  <2>8. CASE DeleteSlotLoad(x)
    <3>1. PICK u \in Operators, s \in Slots :
            /\ slots[s].state = "live" /\ OperatorOf[slots[s].attraction] = u
            /\ Proceed(x, [Idle EXCEPT !.pc = "write", !.op = "deleteSlot", !.user = u,
                                       !.slot = s, !.children = BookedIn({s})])
      BY <2>8, Zenon DEF DeleteSlotLoad
    <3>2. req'[x].pc = "write" /\ req'[x].op = "deleteSlot" /\ req'[x].slot = s
      BY <1>3, <3>1 DEF RequestState
    <3>3. UNCHANGED Tables
      BY <2>8 DEF DeleteSlotLoad
    <3>4. WellFormed(x)'
      BY <2>2, <3>1, <3>2, <3>3 DEF WellFormed, Tables, Operations
    <3>5. RowsStand(x)'
      BY <3>2 DEF RowsStand
    <3> QED BY <3>4, <3>5
  <2>9. CASE DeleteAttractionLoad(x)
    <3>1. PICK a \in Attractions :
            Proceed(x, [Idle EXCEPT !.pc = "write", !.op = "deleteAttraction",
                                    !.attraction = a])
      BY <2>9 DEF DeleteAttractionLoad
    <3>2. req'[x].pc = "write" /\ req'[x].op = "deleteAttraction" /\ req'[x].attraction = a
      BY <1>3, <3>1 DEF RequestState
    <3>3. UNCHANGED Tables
      BY <2>9 DEF DeleteAttractionLoad
    <3>4. WellFormed(x)'
      BY <2>2, <3>2, <3>3 DEF WellFormed, Tables, Operations
    <3>5. RowsStand(x)'
      BY <3>2 DEF RowsStand
    <3> QED BY <3>4, <3>5
  <2> QED BY <2>1, <2>3, <2>4, <2>5, <2>6, <2>7, <2>8, <2>9 DEF Reads, Begin
<1> QED BY <1>1, <1>2, <1>4

-----------------------------------------------------------------------------
LEMMA InitInv == Init => Inv
<1> SUFFICES ASSUME Init PROVE Inv
  OBVIOUS
<1>1. TypeOK
  BY InitType
<1>2. \A r \in Requests : req[r] = Idle /\ bookings[r] = NoBooking
  BY DEF Init
<1>3. \A s \in Slots : slots[s].state = "unborn"
  BY DEF Init, NoSlot
<1>4. SlotsHaveAttractions
  BY <1>3 DEF SlotsHaveAttractions
<1>5. RequestsAreWellFormed /\ LoadedRowsStand
  BY <1>2, IdleType, RowTypes DEF RequestsAreWellFormed, WellFormed, LoadedRowsStand, RowsStand
<1>6. SlotOfItsAttraction /\ TokenMatchesStatus
  BY <1>2, RowTypes DEF SlotOfItsAttraction, TokenMatchesStatus
<1> QED BY <1>1, <1>4, <1>5, <1>6 DEF Inv

\* Inv holds in every reachable state: it holds when the system starts and every
\* statement of every request, every commit and every crash preserves it.
THEOREM Invariance == Spec => []Inv
<1>1. Inv /\ [Next]_vars => Inv'
  <2> SUFFICES ASSUME Inv, [Next]_vars PROVE Inv'
    OBVIOUS
  <2>1. TypeOK'
    BY TypeStep DEF Inv
  <2>2. RequestsAreWellFormed' /\ LoadedRowsStand'
    BY RequestStandsStep DEF RequestsAreWellFormed, LoadedRowsStand
  <2> QED BY <2>1, <2>2, SlotsHaveAttractionsStep, SlotOfItsAttractionStep,
             TokenMatchesStatusStep DEF Inv
<1> QED BY <1>1, InitInv, PTL DEF Spec

\* The tables and the requests keep their types (Bookings!TypeOK).
THEOREM TypeCorrectness == Spec => []TypeOK
<1>1. Inv => TypeOK
  BY DEF Inv
<1> QED BY <1>1, Invariance, PTL

\* However many requests run at once, a booking never points at a deleted slot or
\* at a slot of another attraction (booking_service.py, _get_valid_time_slot).
THEOREM SlotIntegrity == Spec => []SlotOfItsAttraction
<1>1. Inv => SlotOfItsAttraction
  BY DEF Inv
<1> QED BY <1>1, Invariance, PTL

\* However many requests run at once, a pending booking has no entry token and a
\* confirmed one has one (booking_service.py, confirm_booking).
THEOREM TokenIntegrity == Spec => []TokenMatchesStatus
<1>1. Inv => TokenMatchesStatus
  BY DEF Inv
<1> QED BY <1>1, Invariance, PTL

\* However many requests run at once, a booking never vanishes, is never pending
\* again and never changes hands (booking_service.py, update_booking to
\* confirm_booking).
THEOREM LifecycleHolds == Spec => Lifecycle
<1> DEFINE Aged == \A b \in Requests :
       bookings[b].status # "absent" =>
         /\ bookings'[b].status # "absent"
         /\ bookings'[b].status = "pending" => bookings[b].status = "pending"
         /\ bookings'[b].tourist = bookings[b].tourist
         /\ bookings'[b].attraction \in {bookings[b].attraction, NULL}
<1>1. Inv /\ [Next]_vars => [Aged]_vars
  BY BookingsAge DEF BookingAges
<1> QED BY <1>1, Invariance, PTL DEF Spec, Lifecycle

-----------------------------------------------------------------------------
(***************************************************************************)
(* A server that serves one request after the other.                       *)
(***************************************************************************)
Served(r) == req[r].pc \notin {"idle", "spent"}

\* What a request under way has loaded of its booking is what the table holds, and it
\* has tested that it is pending.
Current(r) ==
  /\ req[r].op \in {"update", "confirm"} =>
       bookings[req[r].booking].status = req[r].seen.status
  /\ req[r].op = "update" => req[r].seen.status = "pending"
  /\ req[r].op = "confirm" /\ req[r].pc = "write" => req[r].seen.status = "pending"

Alone == \A r \in Requests : Served(r) => Current(r) /\ \A s \in Requests : Served(s) => s = r

\* Where there is room nobody is being served.
LEMMA RoomIsIdle ==
  ASSUME MaxInFlight = 1, Alone, HasRoom, NEW r \in Requests
  PROVE  ~Served(r)
<1> SUFFICES ASSUME Served(r) PROVE FALSE
  OBVIOUS
<1>1. InFlight = {r}
  BY DEF Alone, InFlight, Served
<1>2. Cardinality({r}) = 1
  BY FS_Singleton
<1> QED BY <1>1, <1>2 DEF HasRoom

\* A request that ends leaves nobody being served.
LEMMA EndsAlone ==
  ASSUME TypeOK, Alone, NEW r \in Requests, Served(r), Finish(r) \/ FinishSpent(r)
  PROVE  Alone'
<1>1. req'[r].pc \in {"idle", "spent"} /\ \A s \in Requests \ {r} : req'[s] = req[s]
  BY IdleType, SpentType DEF TypeOK, Finish, FinishSpent, Proceed
<1> QED BY <1>1 DEF Alone, Served

\* A request that moves on with what it has loaded stays alone.
LEMMA MovesAlone ==
  ASSUME TypeOK, Alone, NEW r \in Requests, Served(r), UNCHANGED bookings,
         NEW q, Proceed(r, q), q.op = req[r].op, q.booking = req[r].booking,
         q.seen = req[r].seen,
         q.op = "confirm" /\ q.pc = "write" => q.seen.status = "pending"
  PROVE  Alone'
<1>1. req'[r] = q /\ \A s \in Requests \ {r} : req'[s] = req[s]
  BY DEF TypeOK, Proceed
<1>2. Current(r)'
  BY <1>1 DEF Alone, Current
<1> QED BY <1>1, <1>2 DEF Alone, Served

\* A request that begins with what the table holds is alone.
LEMMA BeginsAlone ==
  ASSUME TypeOK, MaxInFlight = 1, Alone, HasRoom, NEW r \in Requests, UNCHANGED bookings,
         NEW q, Proceed(r, q),
         q.op \in {"update", "confirm"} => bookings[q.booking].status = q.seen.status,
         q.op = "update" => q.seen.status = "pending",
         q.op = "confirm" => q.pc # "write"
  PROVE  Alone'
<1>1. req'[r] = q /\ \A s \in Requests \ {r} : req'[s] = req[s]
  BY DEF TypeOK, Proceed
<1>2. \A s \in Requests \ {r} : ~Served(s)'
  BY <1>1, RoomIsIdle DEF Served
<1>3. Current(r)'
  BY <1>1 DEF Current
<1> QED BY <1>2, <1>3 DEF Alone

LEMMA BeginStep ==
  ASSUME TypeOK, MaxInFlight = 1, Alone, NEW r \in Requests, Begin(r)
  PROVE  Alone' /\ UNCHANGED bookings
<1>1. HasRoom /\ UNCHANGED bookings
  BY DEF Begin, CreateGetAttraction, UpdateGetBooking, CancelGetBooking, ConfirmGetBooking,
         DeleteSlotLoad, DeleteAttractionLoad, Tables
<1>2. \E q : /\ Proceed(r, q)
             /\ q.op \in {"update", "confirm"} => bookings[q.booking].status = q.seen.status
             /\ q.op = "update" => q.seen.status = "pending"
             /\ q.op = "confirm" => q.pc # "write"
  <2>1. CASE CreateGetAttraction(r)
    <3>1. PICK u \in Users, a \in Attractions, s \in OrNull(Slots), d \in Days, p \in Parties :
            Proceed(r, [Idle EXCEPT
              !.pc = IF s # NULL THEN "slot"
                     ELSE IF attractions[a].priced THEN "slotless" ELSE "write",
              !.op = "create", !.user = u, !.booking = r,
              !.attraction = a, !.slot = s, !.day = d, !.party = p])
      BY <2>1 DEF CreateGetAttraction
    <3>2. PICK pc : pc = IF s # NULL THEN "slot"
                         ELSE IF attractions[a].priced THEN "slotless" ELSE "write"
      OBVIOUS
    <3>3. PICK q : /\ q = [Idle EXCEPT !.pc = pc, !.op = "create", !.user = u, !.booking = r,
                             !.attraction = a, !.slot = s, !.day = d, !.party = p]
                   /\ Proceed(r, q)
      BY <3>1, <3>2
    <3>4. q.op = "create"
      BY <3>3 DEF Idle
    <3> QED BY <3>3, <3>4
  <2>2. CASE UpdateGetBooking(r)
    <3>1. PICK u \in Users, b \in Requests, s \in OrNull(Slots), d \in OrNull(Days),
               p \in OrNull(Parties) :
            /\ bookings[b].status = "pending"
            /\ Proceed(r, [Idle EXCEPT
                 !.pc = IF s # NULL \/ bookings[b].slot # NULL THEN "slot" ELSE "write",
                 !.op = "update", !.user = u, !.booking = b, !.seen = bookings[b],
                 !.attraction = bookings[b].attraction,
                 !.slot = s, !.day = d, !.party = p])
      BY <2>2 DEF UpdateGetBooking
    <3>2. PICK pc : pc = IF s # NULL \/ bookings[b].slot # NULL THEN "slot" ELSE "write"
      OBVIOUS
    <3>3. PICK q : /\ q = [Idle EXCEPT !.pc = pc, !.op = "update", !.user = u, !.booking = b,
                             !.seen = bookings[b], !.attraction = bookings[b].attraction,
                             !.slot = s, !.day = d, !.party = p]
                   /\ Proceed(r, q)
      BY <3>1, <3>2
    <3>4. q.op = "update" /\ q.booking = b /\ q.seen = bookings[b]
      BY <3>3 DEF Idle
    <3> QED BY <3>1, <3>3, <3>4
  <2>3. CASE CancelGetBooking(r)
    <3>1. PICK u, b, q :
            /\ u \in Users /\ b \in Requests
            /\ q = [Idle EXCEPT !.pc = "write", !.op = "cancel", !.user = u,
                                !.booking = b, !.seen = bookings[b]]
            /\ Proceed(r, q)
      BY <2>3 DEF CancelGetBooking
    <3>2. q.op = "cancel"
      BY <3>1 DEF Idle
    <3> QED BY <3>1, <3>2
  <2>4. CASE ConfirmGetBooking(r)
    <3>1. PICK u, b, q :
            /\ u \in Operators /\ b \in Requests
            /\ q = [Idle EXCEPT !.pc = "attraction", !.op = "confirm", !.user = u,
                                !.booking = b, !.seen = bookings[b]]
            /\ Proceed(r, q)
      BY <2>4 DEF ConfirmGetBooking
    <3>2. q.op = "confirm" /\ q.pc = "attraction" /\ q.booking = b /\ q.seen = bookings[b]
      BY <3>1 DEF Idle
    <3> QED BY <3>1, <3>2
  <2>5. CASE DeleteSlotLoad(r)
    <3>1. PICK u, s, q :
            /\ u \in Operators /\ s \in Slots
            /\ q = [Idle EXCEPT !.pc = "write", !.op = "deleteSlot", !.user = u,
                                !.slot = s, !.children = BookedIn({s})]
            /\ Proceed(r, q)
      BY <2>5 DEF DeleteSlotLoad
    <3>2. q.op = "deleteSlot"
      BY <3>1 DEF Idle
    <3> QED BY <3>1, <3>2
  <2>6. CASE DeleteAttractionLoad(r)
    <3>1. PICK a, q :
            /\ a \in Attractions
            /\ q = [Idle EXCEPT !.pc = "write", !.op = "deleteAttraction", !.attraction = a]
            /\ Proceed(r, q)
      BY <2>6 DEF DeleteAttractionLoad
    <3>2. q.op = "deleteAttraction"
      BY <3>1 DEF Idle
    <3> QED BY <3>1, <3>2
  <2> QED BY <2>1, <2>2, <2>3, <2>4, <2>5, <2>6 DEF Begin
<1> QED BY <1>1, <1>2, BeginsAlone

\* The properties, of one step.
ConfirmsPending ==
  \A b \in Requests :
    (/\ bookings'[b].status = "confirmed"
     /\ bookings[b].status # "confirmed" \/ bookings'[b].qr # bookings[b].qr)
    => bookings[b].status = "pending"

UpdatesPending ==
  \A b \in Requests :
    (\/ bookings'[b].day # bookings[b].day
     \/ bookings'[b].party # bookings[b].party
     \/ bookings'[b].slot \notin {bookings[b].slot, NULL})
    => bookings[b].status \in {"absent", "pending"}

LEMMA ReadingStep ==
  ASSUME Inv, Alone, NEW r \in Requests,
         \/ GetSlot(r) \/ EnsureCapacity(r) \/ CreateWithoutSlot(r)
         \/ ConfirmGetAttraction(r) \/ Crash(r)
  PROVE  Alone' /\ UNCHANGED bookings
<1>1. /\ Served(r) /\ UNCHANGED bookings /\ TypeOK /\ req[r] \in RequestState
      /\ req[r].pc = "capacity" => req[r].op # "confirm"
      /\ req[r].pc = "slotless" => req[r].op # "confirm"
  BY DEF GetSlot, EnsureCapacity, CreateWithoutSlot, ConfirmGetAttraction, Crash, InFlight,
         Served, Tables, Inv, TypeOK, RequestsAreWellFormed, WellFormed
<1>2. CASE Finish(r)
  BY <1>1, <1>2, EndsAlone
<1>3. CASE ~Finish(r)
  <2>1. \E pc \in {"capacity", "write"} : \E c :
          /\ Proceed(r, [req[r] EXCEPT !.pc = pc, !.capacity = c])
          /\ req[r].op = "confirm" /\ pc = "write" => req[r].seen.status = "pending"
    <3>1. CASE GetSlot(r)
      BY <1>3, <3>1 DEF GetSlot
    <3>2. CASE EnsureCapacity(r) \/ CreateWithoutSlot(r) \/ ConfirmGetAttraction(r)
      <4>1. /\ Proceed(r, [req[r] EXCEPT !.pc = "write"])
            /\ req[r].op = "confirm" => req[r].seen.status = "pending"
        BY <1>1, <1>3, <3>2 DEF EnsureCapacity, CreateWithoutSlot, ConfirmGetAttraction
      <4>2. [req[r] EXCEPT !.pc = "write"] =
              [req[r] EXCEPT !.pc = "write", !.capacity = req[r].capacity]
        BY <1>1 DEF RequestState
      <4> QED BY <4>1, <4>2
    <3>3. CASE Crash(r)
      BY <1>3, <3>3 DEF Crash
    <3> QED BY <3>1, <3>2, <3>3
  <2>2. PICK pc, c, q :
          /\ q = [req[r] EXCEPT !.pc = pc, !.capacity = c]
          /\ Proceed(r, q)
          /\ req[r].op = "confirm" /\ pc = "write" => req[r].seen.status = "pending"
    BY <2>1
  <2>3. /\ q.op = req[r].op /\ q.booking = req[r].booking /\ q.seen = req[r].seen /\ q.pc = pc
    BY <1>1, <2>2 DEF RequestState
  <2> QED BY <1>1, <2>2, <2>3, MovesAlone
<1> QED BY <1>1, <1>2, <1>3

LEMMA WritingStep ==
  ASSUME Inv, Alone, NEW r \in Requests,
         \/ CreateInsert(r) \/ UpdateWrite(r) \/ CancelWrite(r) \/ ConfirmWrite(r)
         \/ DeleteSlotWrite(r) \/ DeleteAttractionWrite(r)
  PROVE  Alone' /\ ConfirmsPending /\ UpdatesPending
<1>1. Served(r) /\ TypeOK /\ Current(r) /\ Alone'
  <2>1. Served(r) /\ (Finish(r) \/ FinishSpent(r))
    BY DEF Served, CreateInsert, UpdateWrite, CancelWrite, ConfirmWrite, DeleteSlotWrite,
           DeleteAttractionWrite
  <2> QED BY <2>1, EndsAlone DEF Inv, Alone
<1>2. CASE CreateInsert(r)
  <2>1. bookings[r].status = "absent"
    BY <1>1, <1>2 DEF Inv, RequestsAreWellFormed, WellFormed, Served
  <2>2. \A b \in Requests \ {r} : bookings'[b] = bookings[b]
    BY <1>1, <1>2 DEF CreateInsert, TypeOK
  <2>3. bookings'[r].status = "pending" \/ bookings'[r] = bookings[r]
    BY <1>1, <1>2 DEF CreateInsert, TypeOK
  <2> QED BY <1>1, <2>1, <2>2, <2>3 DEF ConfirmsPending, UpdatesPending
<1>3. CASE UpdateWrite(r)
  <2>1. PICK k \in Requests : k = req[r].booking
    BY <1>3 DEF Inv, RequestsAreWellFormed, WellFormed, UpdateWrite
  <2>2. bookings[k].status = "pending"
    BY <1>1, <1>3, <2>1 DEF Current, UpdateWrite
  <2>3. PICK s, d, p :
          bookings' = bookings \/
            bookings' = [bookings EXCEPT ![k].slot = s, ![k].day = d, ![k].party = p]
    BY <1>3, <2>1 DEF UpdateWrite
  <2>4. bookings[k] \in BookingRow /\ bookings \in [Requests -> BookingRow]
    BY <1>1 DEF TypeOK
  <2>5. \A b \in Requests : /\ b # k => bookings'[b] = bookings[b]
                            /\ bookings'[b].status = bookings[b].status
                            /\ bookings'[b].qr = bookings[b].qr
    BY <2>3, <2>4 DEF BookingRow
  <2> QED BY <1>1, <2>2, <2>5 DEF ConfirmsPending, UpdatesPending
<1>4. CASE CancelWrite(r)
  <2>1. \A b \in Requests :
          /\ bookings'[b].status \in {bookings[b].status, "cancelled"}
          /\ bookings'[b].qr = bookings[b].qr /\ bookings'[b].day = bookings[b].day
          /\ bookings'[b].party = bookings[b].party /\ bookings'[b].slot = bookings[b].slot
    BY <1>1, <1>4 DEF CancelWrite, TypeOK, BookingRow
  <2> QED BY <1>1, <2>1 DEF ConfirmsPending, UpdatesPending
<1>5. CASE ConfirmWrite(r)
  <2>1. PICK k \in Requests : k = req[r].booking
    BY <1>5 DEF Inv, RequestsAreWellFormed, WellFormed, ConfirmWrite
  <2>2. bookings[k].status = "pending"
    BY <1>1, <1>5, <2>1 DEF Current, ConfirmWrite
  <2>3. \A b \in Requests :
          /\ b # k => bookings'[b] = bookings[b]
          /\ bookings'[b].day = bookings[b].day /\ bookings'[b].party = bookings[b].party
          /\ bookings'[b].slot = bookings[b].slot
    BY <1>1, <1>5, <2>1 DEF ConfirmWrite, TypeOK, BookingRow
  <2> QED BY <1>1, <2>2, <2>3 DEF ConfirmsPending, UpdatesPending
<1>6. CASE DeleteSlotWrite(r)
  <2>1. \A b \in Requests :
          /\ bookings'[b].status = bookings[b].status
          /\ bookings'[b].qr = bookings[b].qr /\ bookings'[b].day = bookings[b].day
          /\ bookings'[b].party = bookings[b].party
          /\ bookings'[b].slot \in {bookings[b].slot, NULL}
    BY <1>1, <1>6 DEF DeleteSlotWrite, ClearSlot, TypeOK, BookingRow
  <2> QED BY <1>1, <2>1 DEF ConfirmsPending, UpdatesPending
<1>7. CASE DeleteAttractionWrite(r)
  <2>1. \A b \in Requests :
          /\ bookings'[b].status = bookings[b].status
          /\ bookings'[b].qr = bookings[b].qr /\ bookings'[b].day = bookings[b].day
          /\ bookings'[b].party = bookings[b].party
          /\ bookings'[b].slot \in {bookings[b].slot, NULL}
    <3> SUFFICES ASSUME NEW b \in Requests
                 PROVE  /\ bookings'[b].status = bookings[b].status
                        /\ bookings'[b].qr = bookings[b].qr /\ bookings'[b].day = bookings[b].day
                        /\ bookings'[b].party = bookings[b].party
                        /\ bookings'[b].slot \in {bookings[b].slot, NULL}
      OBVIOUS
    <3>1. bookings[b] \in BookingRow
      BY <1>1 DEF TypeOK
    <3>2. PICK a, s :
            /\ s \in {bookings[b].slot, NULL}
            /\ bookings'[b] = [bookings[b] EXCEPT !.attraction = a, !.slot = s]
      BY <1>7 DEF DeleteAttractionWrite
    <3> QED BY <3>1, <3>2 DEF BookingRow
  <2> QED BY <1>1, <2>1 DEF ConfirmsPending, UpdatesPending
<1> QED BY <1>2, <1>3, <1>4, <1>5, <1>6, <1>7

LEMMA SerialStep ==
  ASSUME Inv, MaxInFlight = 1, Alone, [Next]_vars
  PROVE  Alone' /\ ((ConfirmsPending /\ UpdatesPending) \/ UNCHANGED vars)
<1>t. TypeOK
  BY DEF Inv
<1>1. UNCHANGED bookings => ConfirmsPending /\ UpdatesPending
  BY DEF ConfirmsPending, UpdatesPending
<1>2. CASE UNCHANGED vars \/ CreateSlot \/ UpdateSlot \/ UpdateAttraction \/ NextMidnight
  <2>1. UNCHANGED <<bookings, req>>
    BY <1>2 DEF vars, CreateSlot, UpdateSlot, UpdateAttraction, NextMidnight
  <2> QED BY <1>1, <2>1 DEF Alone, Served, Current
<1>3. ASSUME NEW r \in Requests, Begin(r) \/ Advance(r) \/ Crash(r)
      PROVE  Alone' /\ ConfirmsPending /\ UpdatesPending
  <2>1. CASE Begin(r)
    BY <1>1, <1>t, <2>1, BeginStep
  <2>2. CASE \/ GetSlot(r) \/ EnsureCapacity(r) \/ CreateWithoutSlot(r)
             \/ ConfirmGetAttraction(r) \/ Crash(r)
    BY <1>1, <2>2, ReadingStep
  <2>3. CASE \/ CreateInsert(r) \/ UpdateWrite(r) \/ CancelWrite(r) \/ ConfirmWrite(r)
             \/ DeleteSlotWrite(r) \/ DeleteAttractionWrite(r)
    BY <2>3, WritingStep
  <2> QED BY <1>3, <2>1, <2>2, <2>3 DEF Advance
<1> QED BY <1>2, <1>3 DEF Next

LEMMA SerialInv ==
  ASSUME MaxInFlight = 1
  PROVE  Spec => [](Inv /\ Alone)
<1>1. Init => Alone
  BY IdleType DEF Init, Alone, Served
<1>2. Inv /\ Alone /\ [Next]_vars => Alone'
  BY SerialStep
<1> QED BY <1>1, <1>2, Invariance, PTL DEF Spec

\* Served one at a time, only a pending booking becomes confirmed, and none gets a second
\* token (booking_service.py, confirm_booking).
THEOREM SerialConfirmations ==
  ASSUME MaxInFlight = 1
  PROVE  Spec => ConfirmOnlyPending
<1>1. Inv /\ Alone /\ [Next]_vars => [ConfirmsPending]_vars
  BY SerialStep
<1> QED BY <1>1, SerialInv, PTL DEF Spec, ConfirmOnlyPending, ConfirmsPending

\* Served one at a time, only a pending booking gets another day, party or slot
\* (booking_service.py, update_booking).
THEOREM SerialUpdates ==
  ASSUME MaxInFlight = 1
  PROVE  Spec => UpdateOnlyPending
<1>1. Inv /\ Alone /\ [Next]_vars => [UpdatesPending]_vars
  BY SerialStep
<1> QED BY <1>1, SerialInv, PTL DEF Spec, UpdateOnlyPending, UpdatesPending

=============================================================================
