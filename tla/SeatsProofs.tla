------------------------------ MODULE SeatsProofs ------------------------------
(***************************************************************************)
(* Proofs about the seats of slots: how far racing requests overbook them, *)
(* for any number of requests served at once (Overbooking); and that a     *)
(* server that serves one request at a time keeps the booking ledger.      *)
(***************************************************************************)
EXTENDS Overbooking, BookingsProofs

-----------------------------------------------------------------------------
(***************************************************************************)
(* Seats and claims, one at a time.                                        *)
(***************************************************************************)

\* Seat k of booking b is taken in slot s on day d, or claimed by request r.
Sits(b, k, s, d) ==
  /\ bookings[b].status \in {"pending", "confirmed"}
  /\ b \notin unchecked
  /\ bookings[b].slot = s /\ bookings[b].day = d /\ k <= bookings[b].party

Granted(r, b, k, s, d) ==
  /\ req[r].pc = "write" /\ req[r].op \in {"create", "update"} /\ req[r].booking = b
  /\ NextSlot(req[r]) = s /\ NextDay(req[r]) = d /\ k <= NextParty(req[r])

Confirming(r, b, k, s, d) ==
  /\ req[r].op = "confirm" /\ req[r].booking = b
  /\ req[r].pc = "write" \/ req[r].seen.status = "pending"
  /\ b \notin unchecked
  /\ bookings[b].slot = s /\ bookings[b].day = d /\ k <= bookings[b].party

Taken(b, k, s, d) ==
  Sits(b, k, s, d) \/ \E r \in Requests : Granted(r, b, k, s, d) \/ Confirming(r, b, k, s, d)

LEMMA ClaimedSeats ==
  ASSUME RequestsAreWellFormed, NEW s, NEW d, NEW r \in Requests
  PROVE  Claimed(r, s, d) = {x \in Requests \X Parties :
           Granted(r, x[1], x[2], s, d) \/ Confirming(r, x[1], x[2], s, d)}
<1>1. ASSUME req[r].op \in {"create", "update", "confirm"}
      PROVE  req[r].booking \in Requests
  BY <1>1 DEF RequestsAreWellFormed, WellFormed
<1>2. ASSUME NEW x \in Claimed(r, s, d)
      PROVE  /\ x \in Requests \X Parties
             /\ Granted(r, x[1], x[2], s, d) \/ Confirming(r, x[1], x[2], s, d)
  BY <1>1, <1>2 DEF Claimed, Granted, Confirming
<1>3. ASSUME NEW x \in Requests \X Parties,
             Granted(r, x[1], x[2], s, d) \/ Confirming(r, x[1], x[2], s, d)
      PROVE  x \in Claimed(r, s, d)
  BY <1>3 DEF Claimed, Granted, Confirming
<1> QED BY <1>2, <1>3

LEMMA TakenSeats ==
  ASSUME RequestsAreWellFormed, NEW s, NEW d
  PROVE  SeatsOrClaims(s, d) = {x \in Requests \X Parties : Taken(x[1], x[2], s, d)}
<1>1. ASSUME NEW x
      PROVE  x \in CheckedSeats(s, d) <=> x \in Requests \X Parties /\ Sits(x[1], x[2], s, d)
  <2>1. Requests \ {NULL} = Requests
    BY IdsAssumption
  <2> QED BY <2>1 DEF CheckedSeats, Seats, Sits
<1>2. ASSUME NEW x
      PROVE  x \in UNION {Claimed(r, s, d) : r \in Requests} <=>
               /\ x \in Requests \X Parties
               /\ \E r \in Requests : Granted(r, x[1], x[2], s, d)
                                      \/ Confirming(r, x[1], x[2], s, d)
  <2>1. x \in UNION {Claimed(r, s, d) : r \in Requests} <=>
          \E r \in Requests : x \in Claimed(r, s, d)
    OBVIOUS
  <2> QED BY <2>1, ClaimedSeats
<1> QED BY <1>1, <1>2 DEF SeatsOrClaims, Taken

LEMMA TakenSeatsNext ==
  ASSUME NEW s, NEW d
  PROVE  RequestsAreWellFormed' =>
           SeatsOrClaims(s, d)' = {x \in Requests \X Parties : Taken(x[1], x[2], s, d)'}
<1>1. RequestsAreWellFormed =>
        SeatsOrClaims(s, d) = {x \in Requests \X Parties : Taken(x[1], x[2], s, d)}
  BY TakenSeats
<1>2. (RequestsAreWellFormed =>
        SeatsOrClaims(s, d) = {x \in Requests \X Parties : Taken(x[1], x[2], s, d)})'
  BY <1>1, PTL
<1> QED BY <1>2

-----------------------------------------------------------------------------
(***************************************************************************)
(* What the statements that only read leave in the request.                *)
(***************************************************************************)
LEMMA ProceedsTo ==
  ASSUME TypeOK, NEW r \in Requests, NEW q, Proceed(r, q)
  PROVE  req'[r] = q /\ \A x \in Requests \ {r} : req'[x] = req[x]
BY DEF TypeOK, Proceed

LEMMA IdleEmpty ==
  /\ Idle.capacity = 0 /\ Spent.capacity = 0 /\ NoSlot.capacity = 0
  /\ Idle.day = NULL
BY DEF Idle, Spent, NoSlot

LEMMA CreateLoads ==
  ASSUME TypeOK, NEW r \in Requests, CreateGetAttraction(r)
  PROVE  /\ req'[r].capacity = 0
         /\ req'[r].op = "create" /\ req'[r].booking = r /\ req'[r].seen = NoBooking
         /\ req'[r].user \in Users /\ req'[r].attraction \in Attractions
         /\ req'[r].slot \in OrNull(Slots) /\ req'[r].day \in Days /\ req'[r].party \in Parties
         /\ ApprovedAttraction(req'[r].attraction) /\ ValidVisitDate(req'[r].day)
         /\ req'[r].slot # NULL => req'[r].pc = "slot"
         /\ req'[r].slot = NULL =>
              req'[r].pc = IF attractions[req'[r].attraction].priced THEN "slotless" ELSE "write"
<1>1. PICK u \in Users, a \in Attractions, s \in OrNull(Slots), d \in Days, p \in Parties :
        /\ ApprovedAttraction(a) /\ ValidVisitDate(d)
        /\ Proceed(r, [Idle EXCEPT
             !.pc = IF s # NULL THEN "slot"
                    ELSE IF attractions[a].priced THEN "slotless" ELSE "write",
             !.op = "create", !.user = u, !.booking = r,
             !.attraction = a, !.slot = s, !.day = d, !.party = p])
  BY DEF CreateGetAttraction
<1> DEFINE pc == IF s # NULL THEN "slot"
                 ELSE IF attractions[a].priced THEN "slotless" ELSE "write"
<1>2. /\ s # NULL => pc = "slot"
      /\ s = NULL => pc = IF attractions[a].priced THEN "slotless" ELSE "write"
  OBVIOUS
<1> HIDE DEF pc
<1>3. req'[r] = [Idle EXCEPT !.pc = pc, !.op = "create", !.user = u, !.booking = r,
                   !.attraction = a, !.slot = s, !.day = d, !.party = p]
  BY <1>1, ProceedsTo DEF pc
<1>4. /\ req'[r].pc = pc /\ req'[r].op = "create" /\ req'[r].slot = s
      /\ req'[r].attraction = a /\ req'[r].seen = NoBooking
      /\ req'[r].booking = r /\ req'[r].user = u
      /\ req'[r].day = d /\ req'[r].party = p /\ req'[r].capacity = 0
  BY <1>3, IdleType, IdleEmpty DEF RequestState
<1> QED BY <1>1, <1>2, <1>4

LEMMA UpdateLoads ==
  ASSUME TypeOK, NEW r \in Requests, UpdateGetBooking(r)
  PROVE  /\ req'[r].capacity = 0
         /\ req'[r].op = "update" /\ req'[r].booking \in Requests
         /\ req'[r].seen = bookings[req'[r].booking] /\ req'[r].seen.status = "pending"
         /\ req'[r].attraction = req'[r].seen.attraction
         /\ req'[r].slot \in OrNull(Slots) /\ req'[r].day \in OrNull(Days)
         /\ req'[r].party \in OrNull(Parties)
         /\ req'[r].day # NULL => ValidVisitDate(req'[r].day)
         /\ NextSlot(req'[r]) # NULL => req'[r].pc = "slot"
         /\ NextSlot(req'[r]) = NULL => req'[r].pc = "write"
<1>1. PICK u \in Users, b \in Requests, s \in OrNull(Slots), d \in OrNull(Days),
           p \in OrNull(Parties) :
        /\ bookings[b].status = "pending" /\ bookings[b].tourist = u
        /\ d # NULL => ValidVisitDate(d)
        /\ Proceed(r, [Idle EXCEPT
             !.pc = IF s # NULL \/ bookings[b].slot # NULL THEN "slot" ELSE "write",
             !.op = "update", !.user = u, !.booking = b, !.seen = bookings[b],
             !.attraction = bookings[b].attraction,
             !.slot = s, !.day = d, !.party = p])
  BY Zenon DEF UpdateGetBooking
<1> DEFINE pc == IF s # NULL \/ bookings[b].slot # NULL THEN "slot" ELSE "write"
<1>2. /\ s # NULL \/ bookings[b].slot # NULL => pc = "slot"
      /\ ~(s # NULL \/ bookings[b].slot # NULL) => pc = "write"
  OBVIOUS
<1> HIDE DEF pc
<1>3. req'[r] = [Idle EXCEPT !.pc = pc, !.op = "update", !.user = u, !.booking = b,
                   !.seen = bookings[b], !.attraction = bookings[b].attraction,
                   !.slot = s, !.day = d, !.party = p]
  BY <1>1, ProceedsTo DEF pc
<1>4. /\ req'[r].pc = pc /\ req'[r].op = "update" /\ req'[r].slot = s
      /\ req'[r].attraction = bookings[b].attraction /\ req'[r].seen = bookings[b]
      /\ req'[r].booking = b /\ req'[r].day = d /\ req'[r].party = p /\ req'[r].capacity = 0
  BY <1>3, IdleType, IdleEmpty DEF RequestState
<1> QED BY <1>1, <1>2, <1>4 DEF NextSlot

LEMMA CancelLoads ==
  ASSUME TypeOK, NEW r \in Requests, CancelGetBooking(r)
  PROVE  /\ req'[r].capacity = 0
         /\ req'[r].pc = "write" /\ req'[r].op = "cancel" /\ req'[r].booking \in Requests
         /\ req'[r].day = NULL
         /\ bookings[req'[r].booking].status \in {"pending", "confirmed"}
<1>1. PICK u \in Users, b \in Requests :
        /\ bookings[b].status \in {"pending", "confirmed"} /\ bookings[b].tourist = u
        /\ Proceed(r, [Idle EXCEPT !.pc = "write", !.op = "cancel", !.user = u,
                                   !.booking = b, !.seen = bookings[b]])
  BY Zenon DEF CancelGetBooking
<1>2. req'[r] = [Idle EXCEPT !.pc = "write", !.op = "cancel", !.user = u,
                             !.booking = b, !.seen = bookings[b]]
  BY <1>1, ProceedsTo
<1>3. /\ req'[r].pc = "write" /\ req'[r].op = "cancel" /\ req'[r].booking = b
      /\ req'[r].capacity = 0 /\ req'[r].day = NULL
  BY <1>2, IdleType, IdleEmpty DEF RequestState
<1> QED BY <1>1, <1>3

LEMMA ConfirmLoads ==
  ASSUME TypeOK, NEW r \in Requests, ConfirmGetBooking(r)
  PROVE  /\ req'[r].capacity = 0
         /\ req'[r].pc = "attraction" /\ req'[r].op = "confirm" /\ req'[r].booking \in Requests
         /\ req'[r].day = NULL
         /\ req'[r].seen = bookings[req'[r].booking]
<1>1. PICK u \in Operators, b \in Requests :
        /\ bookings[b].status # "absent"
        /\ Proceed(r, [Idle EXCEPT !.pc = "attraction", !.op = "confirm", !.user = u,
                                   !.booking = b, !.seen = bookings[b]])
  BY Zenon DEF ConfirmGetBooking
<1>2. req'[r] = [Idle EXCEPT !.pc = "attraction", !.op = "confirm", !.user = u,
                             !.booking = b, !.seen = bookings[b]]
  BY <1>1, ProceedsTo
<1>3. /\ req'[r].pc = "attraction" /\ req'[r].op = "confirm" /\ req'[r].booking = b
      /\ req'[r].seen = bookings[b] /\ req'[r].capacity = 0 /\ req'[r].day = NULL
  BY <1>2, IdleType, IdleEmpty DEF RequestState
<1> QED BY <1>1, <1>3

LEMMA DeleteSlotLoads ==
  ASSUME TypeOK, NEW r \in Requests, DeleteSlotLoad(r)
  PROVE  /\ req'[r].capacity = 0
         /\ req'[r].pc = "write" /\ req'[r].op = "deleteSlot" /\ req'[r].slot \in Slots
         /\ req'[r].day = NULL
         /\ slots[req'[r].slot].state = "live" /\ req'[r].children = BookedIn({req'[r].slot})
<1>1. PICK u \in Operators, s \in Slots :
        /\ slots[s].state = "live" /\ OperatorOf[slots[s].attraction] = u
        /\ Proceed(r, [Idle EXCEPT !.pc = "write", !.op = "deleteSlot", !.user = u,
                                   !.slot = s, !.children = BookedIn({s})])
  BY Zenon DEF DeleteSlotLoad
<1>2. req'[r] = [Idle EXCEPT !.pc = "write", !.op = "deleteSlot", !.user = u,
                             !.slot = s, !.children = BookedIn({s})]
  BY <1>1, ProceedsTo
<1>3. /\ req'[r].pc = "write" /\ req'[r].op = "deleteSlot" /\ req'[r].slot = s
      /\ req'[r].children = BookedIn({s}) /\ req'[r].capacity = 0 /\ req'[r].day = NULL
  BY <1>2, IdleType, IdleEmpty DEF RequestState
<1> QED BY <1>1, <1>3

LEMMA DeleteAttractionLoads ==
  ASSUME TypeOK, NEW r \in Requests, DeleteAttractionLoad(r)
  PROVE  /\ req'[r].capacity = 0
         /\ req'[r].pc = "write" /\ req'[r].op = "deleteAttraction" /\ req'[r].day = NULL
         /\ req'[r].attraction \in Attractions /\ attractions[req'[r].attraction].live
         /\ \A s \in Slots : ~(/\ slots[s].state = "live"
                               /\ slots[s].attraction = req'[r].attraction)
<1>1. PICK a \in Attractions :
        /\ attractions[a].live
        /\ \A s \in Slots : ~(slots[s].state = "live" /\ slots[s].attraction = a)
        /\ Proceed(r, [Idle EXCEPT !.pc = "write", !.op = "deleteAttraction",
                                   !.attraction = a])
  BY Zenon DEF DeleteAttractionLoad
<1>2. req'[r] = [Idle EXCEPT !.pc = "write", !.op = "deleteAttraction", !.attraction = a]
  BY <1>1, ProceedsTo
<1>3. /\ req'[r].pc = "write" /\ req'[r].op = "deleteAttraction" /\ req'[r].attraction = a
      /\ req'[r].capacity = 0 /\ req'[r].day = NULL
  BY <1>2, IdleType, IdleEmpty DEF RequestState
<1> QED BY <1>1, <1>3

\* What a later statement keeps of what earlier ones have loaded.
Keeps(r) ==
  /\ req'[r].op = req[r].op /\ req'[r].user = req[r].user /\ req'[r].booking = req[r].booking
  /\ req'[r].attraction = req[r].attraction /\ req'[r].slot = req[r].slot
  /\ req'[r].day = req[r].day /\ req'[r].party = req[r].party /\ req'[r].seen = req[r].seen
  /\ req'[r].children = req[r].children

LEMMA LaterReads ==
  ASSUME TypeOK, NEW r \in Requests,
         GetSlot(r) \/ EnsureCapacity(r) \/ CreateWithoutSlot(r) \/ ConfirmGetAttraction(r)
  PROVE  \/ req'[r] = Idle
         \/ /\ Keeps(r)
            /\ GetSlot(r) => /\ req'[r].pc = "capacity"
                             /\ req'[r].capacity = slots[NextSlot(req[r])].capacity
                             /\ ValidSlot(NextSlot(req[r]), req[r].attraction)
            /\ ~GetSlot(r) => req'[r].pc = "write" /\ req'[r].capacity = req[r].capacity
<1>0. req[r] \in RequestState /\ \A x \in Requests : req[x].pc = "slot" => req[x].pc # "capacity"
  BY DEF TypeOK
<1>1. CASE GetSlot(r) /\ req'[r] # Idle
  <2>1. /\ req'[r] = [req[r] EXCEPT !.pc = "capacity",
                                    !.capacity = slots[NextSlot(req[r])].capacity]
        /\ ValidSlot(NextSlot(req[r]), req[r].attraction)
    BY <1>1, ProceedsTo DEF GetSlot, Finish
  <2>2. Keeps(r) /\ req'[r].pc = "capacity"
        /\ req'[r].capacity = slots[NextSlot(req[r])].capacity
    BY <1>0, <2>1 DEF RequestState, Keeps
  <2> QED BY <1>1, <2>1, <2>2
<1>2. CASE /\ EnsureCapacity(r) \/ CreateWithoutSlot(r) \/ ConfirmGetAttraction(r)
           /\ req'[r] # Idle
  <2>1. req'[r] = [req[r] EXCEPT !.pc = "write"]
    BY <1>2, ProceedsTo DEF EnsureCapacity, CreateWithoutSlot, ConfirmGetAttraction, Finish
  <2>2. Keeps(r) /\ req'[r].pc = "write" /\ req'[r].capacity = req[r].capacity
    BY <1>0, <2>1 DEF RequestState, Keeps
  <2>3. ~GetSlot(r)
    BY <1>2 DEF GetSlot, EnsureCapacity, CreateWithoutSlot, ConfirmGetAttraction
  <2> QED BY <2>2, <2>3
<1> QED BY <1>1, <1>2

LEMMA ReadsKeepTables ==
  ASSUME NEW r \in Requests, Reads(r)
  PROVE  UNCHANGED Tables
BY DEF Reads, Begin, GetSlot, EnsureCapacity, CreateWithoutSlot, ConfirmGetAttraction,
       CreateGetAttraction, UpdateGetBooking, CancelGetBooking, ConfirmGetBooking,
       DeleteSlotLoad, DeleteAttractionLoad

-----------------------------------------------------------------------------
(***************************************************************************)
(* Only a check that succeeds adds a seat to those taken or claimed.       *)
(***************************************************************************)

\* A booking that a step leaves at a place some request has checked sat there before,
\* or the request that checked it has claimed the place.
LEMMA PlaceWasClaimed ==
  ASSUME unchecked' = UncheckedNext, NEW s \in Slots, NEW d, NEW b \in Requests, NEW k,
         bookings[b].status # "absent", b \notin unchecked',
         bookings'[b].slot = s, bookings'[b].day = d, k <= bookings'[b].party
  PROVE  \/ \E r \in Requests : Granted(r, b, k, s, d)
         \/ Place(b)' = Place(b) /\ b \notin unchecked
<1>1. CASE Moved(b)
  <2>1. bookings'[b].slot # NULL
    BY IdsAssumption
  <2>2. Checked(b)
    BY <1>1, <2>1 DEF UncheckedNext
  <2>3. PICK r \in Requests : /\ req[r].pc = "write" /\ req[r].op = "update"
                              /\ req[r].booking = b /\ Aim(r) = Place(b)'
    BY <2>2 DEF Checked
  <2>4. /\ NextSlot(req[r]) = bookings'[b].slot /\ NextDay(req[r]) = bookings'[b].day
        /\ NextParty(req[r]) = bookings'[b].party
    BY <2>3 DEF Aim, Place
  <2>5. Granted(r, b, k, s, d)
    BY <2>3, <2>4 DEF Granted
  <2> QED BY <2>5
<1>2. CASE ~Moved(b)
  BY <1>2 DEF UncheckedNext, Moved
<1> QED BY <1>1, <1>2

\* A cancelled booking is confirmed by a confirmation that loaded it before.
LEMMA Resurrected ==
  ASSUME Inv, Next, NEW b \in Requests, bookings[b].status = "cancelled",
         bookings'[b].status \in {"pending", "confirmed"}
  PROVE  \E r \in Requests : req[r].op = "confirm" /\ req[r].pc = "write" /\ req[r].booking = b
<1> USE DEF Inv, TypeOK
<1>1. PICK r \in Requests : \/ CreateInsert(r) \/ UpdateWrite(r) \/ CancelWrite(r)
                            \/ ConfirmWrite(r) \/ DeleteSlotWrite(r) \/ DeleteAttractionWrite(r)
  BY Writers DEF Tables, CreateSlot, UpdateSlot, UpdateAttraction, NextMidnight
<1>2. CASE CreateInsert(r)
  <2>1. bookings[r].status = "absent"
    BY <1>2 DEF CreateInsert, RequestsAreWellFormed, WellFormed
  <2> QED BY <1>2, <2>1 DEF CreateInsert
<1>3. CASE UpdateWrite(r)
  BY <1>3 DEF UpdateWrite, BookingRow
<1>4. CASE CancelWrite(r)
  BY <1>4 DEF CancelWrite, BookingRow
<1>5. CASE ConfirmWrite(r)
  <2>1. req[r].booking # b => bookings'[b] = bookings[b]
    BY <1>5 DEF ConfirmWrite
  <2> QED BY <1>5, <2>1 DEF ConfirmWrite
<1>6. CASE DeleteSlotWrite(r)
  BY <1>6 DEF DeleteSlotWrite, ClearSlot, BookingRow
<1>7. CASE DeleteAttractionWrite(r)
  BY <1>7 DEF DeleteAttractionWrite, BookingRow
<1> QED BY <1>1, <1>2, <1>3, <1>4, <1>5, <1>6, <1>7

\* A booking appears where its request was granted the seats.
LEMMA Inserted ==
  ASSUME Inv, Next, NEW b \in Requests, NEW k, NEW s \in Slots, NEW d,
         bookings[b].status = "absent", bookings'[b].status # "absent",
         bookings'[b].slot = s, bookings'[b].day = d, k <= bookings'[b].party
  PROVE  Granted(b, b, k, s, d)
<1> USE DEF Inv, TypeOK
<1>1. PICK r \in Requests : \/ CreateInsert(r) \/ UpdateWrite(r) \/ CancelWrite(r)
                            \/ ConfirmWrite(r) \/ DeleteSlotWrite(r) \/ DeleteAttractionWrite(r)
  BY Writers DEF Tables, CreateSlot, UpdateSlot, UpdateAttraction, NextMidnight
<1>2. CASE CreateInsert(r)
  <2>1. r = b
    BY <1>2 DEF CreateInsert
  <2>2. /\ req[b].op = "create" /\ req[b].pc = "write" /\ req[b].booking = b
        /\ req[b].day \in Days /\ req[b].party \in Parties
    BY <1>2, <2>1 DEF CreateInsert, RequestsAreWellFormed, WellFormed
  <2>3. /\ bookings'[b].slot = req[b].slot /\ bookings'[b].day = req[b].day
        /\ bookings'[b].party = req[b].party
    BY <1>2, <2>1 DEF CreateInsert
  <2>4. req[b].slot # NULL /\ req[b].day # NULL /\ req[b].party # NULL
    BY <2>2, <2>3, IdsAssumption DEF Days, Parties
  <2> QED BY <2>2, <2>3, <2>4 DEF Granted, NextSlot, NextDay, NextParty
<1>3. CASE UpdateWrite(r)
  BY <1>3 DEF UpdateWrite, BookingRow
<1>4. CASE CancelWrite(r) \/ ConfirmWrite(r)
  <2>1. bookings[req[r].booking].status # "absent"
    BY <1>4 DEF CancelWrite, ConfirmWrite, RequestsAreWellFormed, WellFormed
  <2>2. bookings'[b] = bookings[b]
    BY <1>4, <2>1 DEF CancelWrite, ConfirmWrite
  <2> QED BY <2>2
<1>6. CASE DeleteSlotWrite(r)
  BY <1>6 DEF DeleteSlotWrite, ClearSlot, BookingRow
<1>7. CASE DeleteAttractionWrite(r)
  BY <1>7 DEF DeleteAttractionWrite, BookingRow
<1> QED BY <1>1, <1>2, <1>3, <1>4, <1>6, <1>7

\* A request that is granted seats by a step has had them checked by that step.
LEMMA GrantedByCheck ==
  ASSUME Inv, Next, NEW r \in Requests, NEW b, NEW k, NEW s \in Slots, NEW d,
         Granted(r, b, k, s, d)'
  PROVE  Granted(r, b, k, s, d) \/ EnsureCapacity(r)
<1>1. CASE req'[r] = req[r]
  BY <1>1 DEF Granted, NextSlot, NextDay, NextParty
<1>2. CASE req'[r] # req[r]
  <2>1. /\ req'[r].pc = "write" /\ req'[r].op \in {"create", "update"}
        /\ NextSlot(req'[r]) # NULL
    BY IdsAssumption DEF Granted, NextSlot
  <2>2. Reads(r) /\ TypeOK
    BY <1>2, <2>1, RequestMoves, IdleType, SpentType DEF Inv
  <2>3. ~CreateGetAttraction(r)
    BY <2>1, <2>2, CreateLoads, RowTypes DEF NextSlot
  <2>4. ~UpdateGetBooking(r)
    BY <2>1, <2>2, UpdateLoads
  <2>5. ~CancelGetBooking(r) /\ ~ConfirmGetBooking(r)
    BY <2>1, <2>2, CancelLoads, ConfirmLoads
  <2>6. ~DeleteSlotLoad(r) /\ ~DeleteAttractionLoad(r)
    BY <2>1, <2>2, DeleteSlotLoads, DeleteAttractionLoads
  <2>7. ~GetSlot(r)
    BY <2>1, <2>2, LaterReads, IdleType
  <2>8. ~ConfirmGetAttraction(r)
    <3>1. SUFFICES ASSUME ConfirmGetAttraction(r) PROVE FALSE
      OBVIOUS
    <3>2. req[r].op = "confirm"
      BY <3>1 DEF ConfirmGetAttraction, Inv, RequestsAreWellFormed, WellFormed
    <3> QED BY <2>1, <2>2, <3>1, <3>2, LaterReads, IdleType DEF Keeps
  <2>9. ~CreateWithoutSlot(r)
    <3>1. SUFFICES ASSUME CreateWithoutSlot(r) PROVE FALSE
      OBVIOUS
    <3>2. req[r].slot = NULL /\ req[r].seen = NoBooking
      BY <3>1 DEF CreateWithoutSlot, Inv, RequestsAreWellFormed, WellFormed
    <3> QED BY <2>1, <2>2, <3>1, <3>2, LaterReads, IdleType, RowTypes DEF Keeps, NextSlot
  <2> QED BY <2>2, <2>3, <2>4, <2>5, <2>6, <2>7, <2>8, <2>9 DEF Reads, Begin
<1> QED BY <1>1, <1>2

\* A request that confirms a booking claims the seats the booking has or had.
LEMMA ConfirmingLoaded ==
  ASSUME Inv, Next, unchecked' = UncheckedNext, NEW r \in Requests, req'[r] # req[r],
         NEW b \in Requests, NEW k, NEW s, NEW d, Confirming(r, b, k, s, d)'
  PROVE  Sits(b, k, s, d) \/ Confirming(r, b, k, s, d)
<1>1. /\ req'[r].op = "confirm" /\ req'[r].booking = b
      /\ req'[r].pc = "write" \/ req'[r].seen.status = "pending"
  BY DEF Confirming
<1>2. Reads(r) /\ TypeOK
  BY <1>1, RequestMoves, IdleType, SpentType DEF Inv
<1>3. UNCHANGED Tables
  BY <1>2, ReadsKeepTables
<1>4. b \notin unchecked /\ bookings[b].slot = s /\ bookings[b].day = d /\ k <= bookings[b].party
  BY <1>3 DEF Confirming, UncheckedNext, Moved, Place, Tables
<1>5. CASE ConfirmGetAttraction(r)
  <2>1. req[r].seen.status = "pending"
    BY <1>1, <1>2, <1>5, ProceedsTo, IdleType DEF ConfirmGetAttraction, Finish
  <2>2. req[r].op = "confirm" /\ req[r].booking = b
    BY <1>1, <1>2, <1>5, LaterReads, IdleType DEF Keeps
  <2> QED BY <1>4, <2>1, <2>2 DEF Confirming
<1>6. CASE ConfirmGetBooking(r)
  BY <1>1, <1>2, <1>4, <1>6, ConfirmLoads DEF Sits
<1>7. ~GetSlot(r) /\ ~EnsureCapacity(r) /\ ~CreateWithoutSlot(r)
  <2>1. SUFFICES ASSUME GetSlot(r) \/ EnsureCapacity(r) \/ CreateWithoutSlot(r) PROVE FALSE
    OBVIOUS
  <2>2. req[r].op # "confirm"
    BY <2>1 DEF GetSlot, EnsureCapacity, CreateWithoutSlot, Inv, RequestsAreWellFormed,
                WellFormed
  <2> QED BY <1>1, <1>2, <2>1, <2>2, LaterReads, IdleType DEF Keeps
<1>8. /\ ~CreateGetAttraction(r) /\ ~UpdateGetBooking(r) /\ ~CancelGetBooking(r)
      /\ ~DeleteSlotLoad(r) /\ ~DeleteAttractionLoad(r)
  BY <1>1, <1>2, CreateLoads, UpdateLoads, CancelLoads, DeleteSlotLoads, DeleteAttractionLoads
<1> QED BY <1>2, <1>5, <1>6, <1>7, <1>8 DEF Reads, Begin

LEMMA Newcomers ==
  ASSUME Inv, Next, unchecked' = UncheckedNext, NEW s \in Slots, NEW d,
         NEW b \in Requests, NEW k, Taken(b, k, s, d)'
  PROVE  \/ Taken(b, k, s, d)
         \/ \E r \in Requests : EnsureCapacity(r) /\ Granted(r, b, k, s, d)'
<1>1. CASE Sits(b, k, s, d)'
  <2>1. /\ bookings'[b].status \in {"pending", "confirmed"} /\ b \notin unchecked'
        /\ bookings'[b].slot = s /\ bookings'[b].day = d /\ k <= bookings'[b].party
    BY <1>1 DEF Sits
  <2>2. CASE bookings[b].status = "absent"
    <3>1. Granted(b, b, k, s, d)
      BY <2>1, <2>2, Inserted
    <3> QED BY <3>1 DEF Taken
  <2>3. CASE bookings[b].status # "absent" /\ ~Taken(b, k, s, d)
    <3>1. Place(b)' = Place(b) /\ b \notin unchecked
      BY <2>1, <2>3, PlaceWasClaimed DEF Taken
    <3>2. bookings[b].slot = s /\ bookings[b].day = d /\ k <= bookings[b].party
      BY <2>1, <3>1 DEF Place
    <3>3. bookings[b].status = "cancelled"
      BY <2>3, <3>1, <3>2 DEF Taken, Sits, Inv, TypeOK, BookingRow, BookingStatus
    <3>4. PICK r \in Requests : /\ req[r].op = "confirm" /\ req[r].pc = "write"
                                /\ req[r].booking = b
      BY <2>1, <3>3, Resurrected
    <3>5. Confirming(r, b, k, s, d)
      BY <3>1, <3>2, <3>4 DEF Confirming
    <3> QED BY <2>3, <3>5 DEF Taken
  <2> QED BY <2>2, <2>3
<1>2. ASSUME NEW r \in Requests, Granted(r, b, k, s, d)'
      PROVE  Taken(b, k, s, d) \/ (EnsureCapacity(r) /\ Granted(r, b, k, s, d)')
  BY <1>2, GrantedByCheck DEF Taken
<1>3. ASSUME NEW r \in Requests, Confirming(r, b, k, s, d)'
      PROVE  Taken(b, k, s, d)
  <2>1. CASE req'[r] # req[r]
    BY <1>3, <2>1, ConfirmingLoaded DEF Taken
  <2>2. CASE req'[r] = req[r] /\ ~Taken(b, k, s, d)
    <3>1. /\ req[r].op = "confirm" /\ req[r].booking = b
          /\ req[r].pc = "write" \/ req[r].seen.status = "pending"
          /\ b \notin unchecked'
          /\ bookings'[b].slot = s /\ bookings'[b].day = d /\ k <= bookings'[b].party
      BY <1>3, <2>2 DEF Confirming
    <3>2. bookings[b].status # "absent"
      BY <3>1 DEF Inv, RequestsAreWellFormed, WellFormed
    <3>3. Place(b)' = Place(b) /\ b \notin unchecked
      BY <2>2, <3>1, <3>2, PlaceWasClaimed DEF Taken
    <3>4. bookings[b].slot = s /\ bookings[b].day = d /\ k <= bookings[b].party
      BY <3>1, <3>3 DEF Place
    <3>5. Confirming(r, b, k, s, d)
      BY <3>1, <3>3, <3>4 DEF Confirming
    <3> QED BY <3>5 DEF Taken
  <2> QED BY <2>1, <2>2
<1> QED BY <1>1, <1>2, <1>3 DEF Taken

-----------------------------------------------------------------------------
(***************************************************************************)
(* Counting.                                                               *)
(***************************************************************************)

\* A set of numbers has a largest one when it is finite: of the sets of its members
\* larger than one of them some is minimal, and the member it belongs to is largest.
LEMMA LargestExists ==
  /\ LargestCapacity \in Capacities /\ LargestCapacity \in Nat
  /\ \A c \in Capacities \cup {0} : c <= LargestCapacity
<1> DEFINE S == Capacities
           Above(k) == {m \in S : m > k}
           T == {Above(k) : k \in S}
           R == StrictSubsetOrdering(S)
<1>1. IsFiniteSet(S) /\ S # {} /\ \A k \in S : k \in Nat
  BY BoundsAssumption
<1> HIDE DEF S
<1>2. IsWellFoundedOn(R, FiniteSubsetsOf(S)) /\ FiniteSubsetsOf(S) = SUBSET S
  BY <1>1, FS_StrictSubsetOrderingWellFounded, FS_FiniteSubsetsOfFinite
<1>3. T \subseteq FiniteSubsetsOf(S) /\ T # {}
  <2>1. T \subseteq SUBSET S
    OBVIOUS
  <2>2. \E k \in S : Above(k) \in T
    BY <1>1
  <2> HIDE DEF T
  <2> QED BY <1>2, <2>1, <2>2
<1>4. \E A \in T : \A B \in T : ~(<<B, A>> \in R)
  <2> HIDE DEF T, R
  <2> QED BY <1>2, <1>3, WFMin
<1>5. PICK k \in S : \A j \in S : <<Above(j), Above(k)>> \notin R
  <2>1. PICK A \in T : \A B \in T : <<B, A>> \notin R
    BY <1>4
  <2>2. PICK k \in S : A = Above(k)
    OBVIOUS
  <2>3. \A j \in S : Above(j) \in T
    OBVIOUS
  <2> HIDE DEF T, R, Above
  <2> QED BY <2>1, <2>2, <2>3
<1>6. ASSUME NEW j \in S, j > k PROVE FALSE
  <2>1. Above(j) \subseteq Above(k) /\ j \in Above(k) /\ j \notin Above(j)
    BY <1>1, <1>6
  <2>2. <<Above(j), Above(k)>> \in R
    BY <2>1 DEF StrictSubsetOrdering
  <2> QED BY <1>5, <2>2
<1>7. \A j \in S : k >= j
  BY <1>1, <1>6
<1>8. LargestCapacity \in S /\ \A j \in S : LargestCapacity >= j
  BY <1>7 DEF LargestCapacity, Max, S
<1> QED BY <1>1, <1>8 DEF S

LEMMA SegmentSize ==
  ASSUME NEW n \in Nat PROVE IsFiniteSet(1 .. n) /\ Cardinality(1 .. n) = n
<1>1. IsFiniteSet(1 .. n) /\ Cardinality(1 .. n) = IF 1 > n THEN 0 ELSE n - 1 + 1
  BY FS_Interval
<1> QED BY <1>1

LEMMA PartySize ==
  /\ MaxParty \in Nat /\ MaxInFlight \in Nat /\ MaxInFlight > 0
  /\ IsFiniteSet(Parties) /\ Cardinality(Parties) = MaxParty
BY SegmentSize, BoundsAssumption DEF Parties

LEMMA PartyOf ==
  ASSUME NEW b, NEW n \in Nat
  PROVE  IsFiniteSet({b} \X (1 .. n)) /\ Cardinality({b} \X (1 .. n)) = n
<1> DEFINE B == {b}
           K == 1 .. n
<1>1. IsFiniteSet(B) /\ Cardinality(B) = 1 /\ IsFiniteSet(K) /\ Cardinality(K) = n
  BY FS_Singleton, SegmentSize
<1> HIDE DEF B, K
<1>2. IsFiniteSet(B \X K) /\ Cardinality(B \X K) = 1 * n
  BY <1>1, FS_Product
<1> QED BY <1>2 DEF B, K

\* Each of the requests in I claims a party at most.
LEMMA ClaimsCounted ==
  ASSUME NEW I, IsFiniteSet(I), NEW s, NEW d, NEW C \in SUBSET (Requests \X Parties),
         \A x \in C : \E r \in I : Granted(r, x[1], x[2], s, d) \/ Confirming(r, x[1], x[2], s, d)
  PROVE  IsFiniteSet(C) /\ Cardinality(C) <= Cardinality(I) * MaxParty
<1> DEFINE Claimant(x, r) == Granted(r, x[1], x[2], s, d) \/ Confirming(r, x[1], x[2], s, d)
           f == [x \in C |-> <<CHOOSE r \in I : Claimant(x, r), x[2]>>]
<1>1. ASSUME NEW x \in C
      PROVE  f[x][1] \in I /\ Claimant(x, f[x][1]) /\ f[x][2] = x[2] /\ f[x] \in I \X Parties
  <2>1. \E r \in I : Claimant(x, r)
    OBVIOUS
  <2> DEFINE c == CHOOSE r \in I : Claimant(x, r)
  <2>2. c \in I /\ Claimant(x, c)
    <3> HIDE DEF Claimant
    <3> QED BY <2>1
  <2>3. f[x] = <<c, x[2]>> /\ x[2] \in Parties
    OBVIOUS
  <2> HIDE DEF c, f, Claimant
  <2> QED BY <2>2, <2>3
<1>2. \A x \in C : \A r \in I : Claimant(x, r) => req[r].booking = x[1]
  BY DEF Granted, Confirming
<1>3. f \in [C -> I \X Parties]
  <2>1. f = [x \in C |-> f[x]]
    OBVIOUS
  <2> HIDE DEF f, Claimant
  <2> QED BY <1>1, <2>1
<1> HIDE DEF f, Claimant
<1>4. ASSUME NEW x \in C, NEW y \in C, f[x] = f[y] PROVE x = y
  <2>1. x[1] = y[1] /\ x[2] = y[2]
    BY <1>1, <1>2, <1>4
  <2>2. x = <<x[1], x[2]>> /\ y = <<y[1], y[2]>>
    OBVIOUS
  <2> QED BY <2>1, <2>2
<1>5. f \in Injection(C, I \X Parties)
  BY <1>3, <1>4 DEF Injection, IsInjective
<1>6. IsFiniteSet(I \X Parties) /\ Cardinality(I \X Parties) = Cardinality(I) * MaxParty
  BY PartySize, FS_Product
<1> QED BY <1>5, <1>6, FS_Injection

-----------------------------------------------------------------------------
(***************************************************************************)
(* What the bound rests on: finitely many names are used, capacities are   *)
(* chosen by operators, and every booking has a day and a party.           *)
(***************************************************************************)
Used == {r \in Requests : req[r].pc # "idle"}

RequestsFit == IsFiniteSet(Used) /\ Cardinality(InFlight) <= MaxInFlight

CapacitiesFit ==
  /\ \A s \in Slots : slots[s].capacity \in Capacities \cup {0}
  /\ \A r \in Requests : req[r].capacity \in Capacities \cup {0}

RowFull(row) == row.day \in Days /\ row.party \in Parties

RowsFull ==
  /\ \A b \in Requests : bookings[b].status # "absent" => RowFull(bookings[b])
  /\ \A r \in Requests : req[r].op = "update" => RowFull(req[r].seen)

Fit == RequestsFit /\ CapacitiesFit /\ RowsFull

\* A step moves one request, and one more only where there is room.
LEMMA OneMoves ==
  ASSUME TypeOK, [Next]_vars, req' # req
  PROVE  \E r \in Requests : /\ \A x \in Requests \ {r} : req'[x] = req[x]
                             /\ HasRoom \/ r \in InFlight
<1>1. PICK r \in Requests : Begin(r) \/ Advance(r) \/ Crash(r)
  BY DEF Next, vars, CreateSlot, UpdateSlot, UpdateAttraction, NextMidnight
<1>2. CASE Begin(r)
  <2>1. \E q : Proceed(r, q)
    BY <1>2 DEF Begin, CreateGetAttraction, UpdateGetBooking, CancelGetBooking,
              ConfirmGetBooking, DeleteSlotLoad, DeleteAttractionLoad
  <2>2. HasRoom
    BY <1>2 DEF Begin, CreateGetAttraction, UpdateGetBooking, CancelGetBooking,
              ConfirmGetBooking, DeleteSlotLoad, DeleteAttractionLoad
  <2> QED BY <2>1, <2>2, ProceedsTo
<1>3. CASE GetSlot(r) \/ EnsureCapacity(r) \/ CreateWithoutSlot(r) \/ ConfirmGetAttraction(r)
  <2>1. \E q : Proceed(r, q)
    BY <1>3 DEF GetSlot, EnsureCapacity, CreateWithoutSlot, ConfirmGetAttraction, Finish
  <2>2. r \in InFlight
    BY <1>3 DEF GetSlot, EnsureCapacity, CreateWithoutSlot, ConfirmGetAttraction, InFlight
  <2> QED BY <2>1, <2>2, ProceedsTo
<1>4. CASE \/ CreateInsert(r) \/ UpdateWrite(r) \/ CancelWrite(r) \/ ConfirmWrite(r)
           \/ DeleteSlotWrite(r) \/ DeleteAttractionWrite(r) \/ Crash(r)
  <2>1. \E q : Proceed(r, q)
    BY <1>4 DEF CreateInsert, UpdateWrite, CancelWrite, ConfirmWrite, DeleteSlotWrite,
              DeleteAttractionWrite, Crash, Finish, FinishSpent
  <2>2. r \in InFlight
    BY <1>4 DEF CreateInsert, UpdateWrite, CancelWrite, ConfirmWrite, DeleteSlotWrite,
              DeleteAttractionWrite, Crash, InFlight
  <2> QED BY <2>1, <2>2, ProceedsTo
<1> QED BY <1>1, <1>2, <1>3, <1>4 DEF Advance

LEMMA InFlightFinite ==
  ASSUME RequestsFit
  PROVE  IsFiniteSet(InFlight) /\ Cardinality(InFlight) \in Nat
<1>1. InFlight \subseteq Used
  BY DEF InFlight, Used
<1> QED BY <1>1, FS_Subset, FS_CardinalityType DEF RequestsFit

LEMMA RequestsFitStep ==
  ASSUME TypeOK, RequestsFit, [Next]_vars
  PROVE  RequestsFit'
<1>1. CASE req' = req
  BY <1>1 DEF RequestsFit, Used, InFlight
<1>2. CASE req' # req
  <2>1. PICK r \in Requests : /\ \A x \in Requests \ {r} : req'[x] = req[x]
                              /\ HasRoom \/ r \in InFlight
    BY <1>2, OneMoves
  <2>2. Used' \subseteq Used \cup {r} /\ InFlight' \subseteq InFlight \cup {r}
    BY <2>1 DEF Used, InFlight
  <2>3. IsFiniteSet(Used')
    <3>1. IsFiniteSet(Used \cup {r})
      BY FS_AddElement DEF RequestsFit
    <3> QED BY <2>2, <3>1, FS_Subset
  <2>4. Cardinality(InFlight') <= MaxInFlight
    <3>1. /\ IsFiniteSet(InFlight \cup {r})
          /\ Cardinality(InFlight \cup {r}) =
               IF r \in InFlight THEN Cardinality(InFlight) ELSE Cardinality(InFlight) + 1
          /\ Cardinality(InFlight) \in Nat
      BY InFlightFinite, FS_AddElement
    <3>2. Cardinality(InFlight \cup {r}) <= MaxInFlight
      BY <2>1, <3>1, PartySize DEF HasRoom, RequestsFit
    <3>3. IsFiniteSet(InFlight') /\ Cardinality(InFlight') <= Cardinality(InFlight \cup {r})
      BY <2>2, <3>1, FS_Subset
    <3>4. Cardinality(InFlight') \in Nat /\ Cardinality(InFlight \cup {r}) \in Nat
      BY <3>1, <3>3, FS_CardinalityType
    <3> QED BY <3>2, <3>3, <3>4, PartySize
  <2> QED BY <2>3, <2>4 DEF RequestsFit
<1> QED BY <1>1, <1>2

LEMMA CapacitiesFitStep ==
  ASSUME TypeOK, CapacitiesFit, RequestsAreWellFormed, [Next]_vars
  PROVE  CapacitiesFit'
<1> DEFINE C == Capacities \cup {0}
<1>1. ASSUME NEW s \in Slots PROVE slots'[s].capacity \in C
  <2>0. slots[s].capacity \in C /\ slots[s] \in SlotRow
    BY DEF CapacitiesFit, TypeOK
  <2>1. CASE UNCHANGED slots
    BY <2>0, <2>1
  <2>2. CASE CreateSlot
    <3>1. PICK t \in Slots, a \in Attractions, c \in Capacities, active \in BOOLEAN :
            slots' = [slots EXCEPT ![t] = [state |-> "live", attraction |-> a,
                                           capacity |-> c, active |-> active]]
      BY <2>2, Zenon DEF CreateSlot
    <3> QED BY <2>0, <3>1 DEF TypeOK
  <2>3. CASE UpdateSlot
    <3>1. PICK t \in Slots, c \in Capacities, active \in BOOLEAN :
            slots' = [slots EXCEPT ![t].capacity = c, ![t].active = active]
      BY <2>3, Zenon DEF UpdateSlot
    <3> QED BY <2>0, <3>1 DEF TypeOK, SlotRow
  <2>4. ASSUME NEW r \in Requests, DeleteSlotWrite(r) \/ DeleteAttractionWrite(r)
        PROVE  slots'[s].capacity = slots[s].capacity
    <3>1. CASE DeleteSlotWrite(r)
      BY <2>0, <3>1 DEF DeleteSlotWrite, TypeOK, SlotRow
    <3>2. CASE DeleteAttractionWrite(r)
      BY <2>0, <3>2 DEF DeleteAttractionWrite, TypeOK, SlotRow
    <3> QED BY <2>4, <3>1, <3>2
  <2> HIDE DEF C
  <2> QED BY <2>0, <2>1, <2>2, <2>3, <2>4, Writers
          DEF Tables, CreateInsert, UpdateWrite, CancelWrite, ConfirmWrite, UpdateAttraction,
              NextMidnight
<1>2. ASSUME NEW r \in Requests PROVE req'[r].capacity \in C
  <2>0. req[r].capacity \in C
    BY DEF CapacitiesFit
  <2>1. CASE req'[r] = req[r] \/ req'[r] \in {Idle, Spent}
    BY <2>0, <2>1, IdleEmpty
  <2>2. CASE req'[r] # req[r] /\ req'[r] \notin {Idle, Spent}
    <3>1. Reads(r)
      BY <2>2, RequestMoves
    <3>2. CASE GetSlot(r)
      <4>1. req'[r].capacity = slots[NextSlot(req[r])].capacity
        BY <2>2, <3>2, LaterReads
      <4>2. NextSlot(req[r]) \in Slots
        BY <3>2 DEF GetSlot, RequestsAreWellFormed, WellFormed, NextSlot, TypeOK, RequestState,
                    BookingRow, OrNull
      <4> QED BY <4>1, <4>2 DEF CapacitiesFit
    <3>3. CASE EnsureCapacity(r) \/ CreateWithoutSlot(r) \/ ConfirmGetAttraction(r)
      <4>1. ~GetSlot(r)
        BY <3>3 DEF GetSlot, EnsureCapacity, CreateWithoutSlot, ConfirmGetAttraction
      <4> QED BY <2>0, <2>2, <3>3, <4>1, LaterReads
    <3>4. CASE Begin(r)
      <4>1. req'[r].capacity = 0
        BY <3>4, CreateLoads, UpdateLoads, CancelLoads, ConfirmLoads, DeleteSlotLoads,
           DeleteAttractionLoads DEF Begin
      <4> QED BY <4>1
    <3> QED BY <3>1, <3>2, <3>3, <3>4 DEF Reads
  <2> QED BY <2>1, <2>2
<1> QED BY <1>1, <1>2 DEF CapacitiesFit

LEMMA RowsFullStep ==
  ASSUME Inv, RowsFull, [Next]_vars
  PROVE  RowsFull'
<1>1. ASSUME NEW b \in Requests, bookings'[b].status # "absent" PROVE RowFull(bookings'[b])
  <2>0. /\ bookings \in [Requests -> BookingRow] /\ bookings[b] \in BookingRow
        /\ req \in [Requests -> RequestState]
        /\ bookings[b].status # "absent" => RowFull(bookings[b])
    BY DEF RowsFull, Inv, TypeOK
  <2>1. CASE bookings'[b].status = bookings[b].status /\ bookings'[b].day = bookings[b].day
             /\ bookings'[b].party = bookings[b].party
    BY <1>1, <2>0, <2>1 DEF RowFull
  <2>2. ASSUME NEW r \in Requests, CreateInsert(r) PROVE RowFull(bookings'[b])
    <3>1. req[r].day \in Days /\ req[r].party \in Parties
      BY <2>2 DEF CreateInsert, Inv, RequestsAreWellFormed, WellFormed
    <3>2. CASE bookings'[b] = bookings[b]
      BY <1>1, <2>0, <3>2
    <3>3. CASE bookings'[b] # bookings[b]
      <4>1. bookings'[b].day = req[r].day /\ bookings'[b].party = req[r].party
        BY <2>0, <2>2, <3>3 DEF CreateInsert
      <4> QED BY <3>1, <4>1 DEF RowFull
    <3> QED BY <3>2, <3>3
  <2>3. ASSUME NEW r \in Requests, UpdateWrite(r) PROVE RowFull(bookings'[b])
    <3>1. /\ req[r].day \in OrNull(Days) /\ req[r].party \in OrNull(Parties)
          /\ bookings[b].status # "absent"
      BY <1>1, <2>0, <2>3 DEF UpdateWrite, BookingRow, RequestState
    <3>2. ASSUME NEW S, NEW v \in OrNull(S), NEW old, NEW current
          PROVE  Changed(v, old, current) \in {current} \cup S
      BY DEF Changed, OrNull
    <3>3. /\ bookings'[b].day \in {bookings[b].day} \cup Days
          /\ bookings'[b].party \in {bookings[b].party} \cup Parties
      <4>1. CASE bookings'[b] = bookings[b]
        BY <4>1
      <4>2. CASE bookings'[b] # bookings[b]
        <5>1. /\ bookings'[b].day = Changed(req[r].day, req[r].seen.day, bookings[b].day)
              /\ bookings'[b].party = Changed(req[r].party, req[r].seen.party, bookings[b].party)
          BY <2>0, <2>3, <4>2 DEF UpdateWrite, BookingRow
        <5> QED BY <3>1, <3>2, <5>1
      <4> QED BY <4>1, <4>2
    <3> QED BY <2>0, <3>1, <3>3 DEF RowFull
  <2>4. ASSUME NEW r \in Requests, CancelWrite(r) \/ ConfirmWrite(r)
        PROVE  RowFull(bookings'[b])
    <3>1. bookings[req[r].booking].status # "absent"
      BY <2>4 DEF CancelWrite, ConfirmWrite, Inv, RequestsAreWellFormed, WellFormed
    <3>2. /\ bookings'[b].day = bookings[b].day /\ bookings'[b].party = bookings[b].party
          /\ bookings[b].status # "absent"
      BY <1>1, <2>0, <2>4, <3>1 DEF CancelWrite, ConfirmWrite, BookingRow
    <3> QED BY <2>0, <3>2 DEF RowFull
  <2>5. ASSUME NEW r \in Requests, DeleteSlotWrite(r) \/ DeleteAttractionWrite(r)
        PROVE  bookings'[b].status = bookings[b].status /\ bookings'[b].day = bookings[b].day
               /\ bookings'[b].party = bookings[b].party
    <3>1. CASE DeleteSlotWrite(r)
      BY <2>0, <3>1 DEF DeleteSlotWrite, ClearSlot, BookingRow
    <3>2. CASE DeleteAttractionWrite(r)
      BY <2>0, <3>2 DEF DeleteAttractionWrite, BookingRow
    <3> QED BY <2>5, <3>1, <3>2
  <2> QED BY <2>1, <2>2, <2>3, <2>4, <2>5, Writers
          DEF Tables, CreateSlot, UpdateSlot, UpdateAttraction, NextMidnight
<1>2. ASSUME NEW r \in Requests, req'[r].op = "update" PROVE RowFull(req'[r].seen)
  <2>0. TypeOK
    BY DEF Inv
  <2>1. CASE req'[r] = req[r]
    BY <1>2, <2>1 DEF RowsFull
  <2>2. CASE req'[r] # req[r]
    <3>1. Reads(r)
      BY <1>2, <2>0, <2>2, RequestMoves, IdleType, SpentType
    <3>2. CASE UpdateGetBooking(r)
      BY <2>0, <3>2, UpdateLoads DEF RowsFull
    <3>3. CASE GetSlot(r) \/ EnsureCapacity(r) \/ CreateWithoutSlot(r) \/ ConfirmGetAttraction(r)
      BY <1>2, <2>0, <3>3, LaterReads, IdleType DEF Keeps, RowsFull
    <3>4. /\ ~CreateGetAttraction(r) /\ ~CancelGetBooking(r) /\ ~ConfirmGetBooking(r)
          /\ ~DeleteSlotLoad(r) /\ ~DeleteAttractionLoad(r)
      BY <1>2, <2>0, CreateLoads, CancelLoads, ConfirmLoads, DeleteSlotLoads,
         DeleteAttractionLoads
    <3> QED BY <3>1, <3>2, <3>3, <3>4 DEF Reads, Begin
  <2> QED BY <2>1, <2>2
<1> QED BY <1>1, <1>2 DEF RowsFull

-----------------------------------------------------------------------------
(***************************************************************************)
(* The bound.                                                              *)
(***************************************************************************)
Bound == LargestCapacity + (MaxInFlight - 1) * MaxParty

LEMMA BoundIsNat == Bound \in Nat
<1>1. ASSUME NEW n \in Nat PROVE n * MaxParty \in Nat
  BY PartySize
<1> QED BY <1>1, PartySize, LargestExists DEF Bound

\* Seats are taken by bookings whose requests have begun.
LEMMA SeatsFinite ==
  ASSUME Inv, RequestsFit, NEW s \in Slots, NEW d, NEW b
  PROVE  IsFiniteSet(Seats(s, d, b)) /\ Cardinality(Seats(s, d, b)) \in Nat
<1>1. IsFiniteSet(Used \X Parties)
  BY PartySize, FS_Product DEF RequestsFit
<1>2. \A c \in Requests : bookings[c].status # "absent" => c \in Used
  BY DEF Used, Inv, RequestsAreWellFormed, WellFormed
<1>3. Seats(s, d, b) \subseteq Used \X Parties
  BY <1>2 DEF Seats
<1> QED BY <1>1, <1>3, FS_Subset, FS_CardinalityType

LEMMA SeatsOrClaimsFinite ==
  ASSUME Inv, RequestsFit, NEW s \in Slots, NEW d
  PROVE  IsFiniteSet(SeatsOrClaims(s, d)) /\ Cardinality(SeatsOrClaims(s, d)) \in Nat
<1>1. IsFiniteSet(Used \X Parties)
  BY PartySize, FS_Product DEF RequestsFit
<1>2. ASSUME NEW b \in Requests, bookings[b].status # "absent"
      PROVE  b \in Used
  BY <1>2 DEF Used, Inv, RequestsAreWellFormed, WellFormed
<1>3. ASSUME NEW b \in Requests, NEW k, Taken(b, k, s, d)
      PROVE  b \in Used
  <2>1. ASSUME NEW r \in Requests, req[r].booking = b, req[r].op \in {"create", "update", "confirm"}
        PROVE  b \in Used
    <3>1. CASE req[r].op = "create"
      BY <2>1, <3>1 DEF Used, Inv, RequestsAreWellFormed, WellFormed
    <3>2. CASE req[r].op # "create"
      BY <1>2, <2>1, <3>2 DEF Inv, RequestsAreWellFormed, WellFormed
    <3> QED BY <3>1, <3>2
  <2> QED BY <1>2, <1>3, <2>1 DEF Taken, Sits, Granted, Confirming
<1>4. SeatsOrClaims(s, d) \subseteq Used \X Parties
  BY <1>3, TakenSeats DEF Inv
<1> QED BY <1>1, <1>4, FS_Subset, FS_CardinalityType

LEMMA BoundStep ==
  ASSUME Inv, Inv', Fit, Fit', Next, unchecked' = UncheckedNext, NEW s \in Slots, NEW d \in Days,
         Cardinality(SeatsOrClaims(s, d)) <= Bound
  PROVE  Cardinality(SeatsOrClaims(s, d)') <= Bound
<1> DEFINE S == SeatsOrClaims(s, d)
           T == SeatsOrClaims(s, d)'
<1>0. TypeOK /\ IsFiniteSet(S) /\ Cardinality(S) \in Nat
  BY SeatsOrClaimsFinite DEF Inv, Fit
<1>1. /\ S = {x \in Requests \X Parties : Taken(x[1], x[2], s, d)}
      /\ T = {x \in Requests \X Parties : Taken(x[1], x[2], s, d)'}
  BY TakenSeats, TakenSeatsNext DEF Inv
<1> HIDE DEF S, T
\* A smaller set is within the bound too.
<1>2. CASE T \subseteq S
  <2>1. IsFiniteSet(T) /\ Cardinality(T) <= Cardinality(S) /\ Cardinality(T) \in Nat
    BY <1>0, <1>2, FS_Subset, FS_CardinalityType
  <2>2. Cardinality(S) <= Bound
    BY DEF S
  <2> QED BY <1>0, <2>1, <2>2, BoundIsNat DEF T
\* If it grows, request r has just passed its check.
<1>3. CASE ~(T \subseteq S)
  <2>1. PICK y \in T : y \notin S
    BY <1>3
  <2>2. PICK r \in Requests : EnsureCapacity(r) /\ Granted(r, y[1], y[2], s, d)'
    BY <1>1, <2>1, Newcomers
  <2> DEFINE q == req[r]
             b == q.booking
             p == NextParty(q)
             A == Seats(s, d, b)
             P == {b} \X (1 .. p)
             I == InFlight \ {r}
             C == {x \in Requests \X Parties :
                     \E i \in I : Granted(i, x[1], x[2], s, d) \/ Confirming(i, x[1], x[2], s, d)}
  <2>3. /\ q.pc = "capacity" /\ q.op \in {"create", "update"} /\ b \in Requests
        /\ req'[r].pc = "write" /\ Keeps(r)
        /\ \A x \in Requests \ {r} : req'[x] = req[x]
    <3>1. q.pc = "capacity" /\ q.op \in {"create", "update"}
      BY <2>2 DEF EnsureCapacity, Inv, RequestsAreWellFormed, WellFormed
    <3>2. b \in Requests
      BY <3>1 DEF Inv, RequestsAreWellFormed, WellFormed
    <3>3. req'[r].pc = "write"
      BY <2>2 DEF Granted
    <3>4. Keeps(r)
      BY <1>0, <2>2, <3>3, LaterReads, IdleType
    <3>5. \E z : Proceed(r, z)
      BY <2>2 DEF EnsureCapacity, Finish
    <3> QED BY <1>0, <3>1, <3>2, <3>3, <3>4, <3>5, ProceedsTo
  <2>4. NextSlot(q) = s /\ NextDay(q) = d /\ p \in Parties
    <3>1. NextSlot(q) = s /\ NextDay(q) = d
      BY <2>2, <2>3 DEF Granted, Keeps, NextSlot, NextDay
    <3>2. q.op = "create" => q.party \in Parties
      BY DEF Inv, RequestsAreWellFormed, WellFormed
    <3>3. q.op = "update" => q.party \in OrNull(Parties) /\ q.seen.party \in Parties
      BY <1>0 DEF Fit, RowsFull, RowFull, TypeOK, RequestState
    <3>4. \A v \in Parties : v # NULL
      BY IdsAssumption DEF Parties
    <3> QED BY <2>3, <3>1, <3>2, <3>3, <3>4 DEF NextParty, OrNull
  <2>5. Cardinality(A) + p <= q.capacity
    <3>1. req'[r] # Idle
      BY <2>3, IdleType
    <3>2. Cardinality(Seats(NextSlot(q), NextDay(q), b)) + p <= q.capacity
      BY <1>0, <2>2, <3>1, ProceedsTo DEF EnsureCapacity, Finish, Occupied
    <3> QED BY <2>4, <3>2
  <2>6. p \in Nat /\ p <= MaxParty /\ \A k \in Parties : k \in Nat
    BY <2>4, PartySize DEF Parties
  <2>7. ASSUME NEW i \in Requests, EnsureCapacity(i) PROVE i = r
    <3>1. req[i].pc = "capacity" /\ (req'[i].pc = "write" \/ req'[i] = Idle)
      BY <1>0, <2>7, LaterReads DEF EnsureCapacity, GetSlot
    <3> QED BY <2>3, <3>1, IdleType
  \* The seats of the booking were taken already, or are now counted in P.
  <2>8. ~Sits(b, p, s, d)
    <3>1. SUFFICES ASSUME Sits(b, p, s, d) PROVE FALSE
      OBVIOUS
    <3>2. y[1] = b /\ y[2] <= p
      BY <2>2, <2>3 DEF Granted, Keeps, NextParty
    <3>3. y[2] \in Nat /\ y \in Requests \X Parties
      BY <1>1, <2>1, <2>6
    <3>4. bookings[b].party \in Nat
      BY <2>3, <2>6, <3>1 DEF Sits, Fit, RowsFull, RowFull
    <3>5. Sits(b, y[2], s, d)
      BY <2>6, <3>1, <3>2, <3>3, <3>4 DEF Sits
    <3>6. y \in S
      BY <1>1, <3>2, <3>3, <3>5 DEF Taken
    <3> QED BY <2>1, <3>6
  <2>9. ASSUME NEW x \in T PROVE x \in A \cup P \cup C
    <3>1. x \in Requests \X Parties /\ x = <<x[1], x[2]>> /\ x[2] \in Nat /\ x[2] >= 1
      BY <1>1, <2>6, <2>9 DEF Parties
    <3>2. \/ Taken(x[1], x[2], s, d)
          \/ \E i \in Requests : EnsureCapacity(i) /\ Granted(i, x[1], x[2], s, d)'
      BY <1>1, <2>9, <3>1, Newcomers
    <3>3. CASE \E i \in Requests : EnsureCapacity(i) /\ Granted(i, x[1], x[2], s, d)'
      <4>1. Granted(r, x[1], x[2], s, d)'
        BY <2>7, <3>3
      <4>2. x[1] = b /\ x[2] <= p
        BY <2>3, <4>1 DEF Granted, Keeps, NextParty
      <4>3. x \in P
        BY <2>6, <3>1, <4>2
      <4> QED BY <4>3
    <3>4. CASE Sits(x[1], x[2], s, d)
      <4>1. CASE x[1] = b
        <5>1. bookings[b].party \in Nat
          BY <2>3, <2>6, <3>4, <4>1 DEF Sits, Fit, RowsFull, RowFull
        <5>2. x[2] <= p
          BY <2>6, <2>8, <3>1, <3>4, <4>1, <5>1 DEF Sits
        <5>3. x \in P
          BY <2>6, <3>1, <4>1, <5>2
        <5> QED BY <5>3
      <4>2. CASE x[1] # b
        <5>1. x \in A
          BY <3>1, <3>4, <4>2 DEF Sits, Seats
        <5> QED BY <5>1
      <4> QED BY <4>1, <4>2
    <3>5. ASSUME NEW i \in Requests,
                 Granted(i, x[1], x[2], s, d) \/ Confirming(i, x[1], x[2], s, d)
          PROVE  x \in C
      <4>1. i # r
        BY <2>3, <3>5 DEF Granted, Confirming
      <4>2. i \in InFlight
        BY <3>5 DEF Granted, Confirming, InFlight, Inv, RequestsAreWellFormed, WellFormed
      <4> QED BY <3>1, <3>5, <4>1, <4>2
    <3> HIDE DEF A, P, C
    <3> QED BY <3>2, <3>3, <3>4, <3>5 DEF Taken
  <2>10. IsFiniteSet(A) /\ Cardinality(A) \in Nat
    BY SeatsFinite DEF Fit
  <2>11. IsFiniteSet(P) /\ Cardinality(P) = p
    BY <2>6, PartyOf
  <2>12. /\ IsFiniteSet(C) /\ Cardinality(C) \in Nat
         /\ Cardinality(C) <= (MaxInFlight - 1) * MaxParty
    <3>1. r \in InFlight
      BY <2>3 DEF InFlight
    <3>2. /\ IsFiniteSet(InFlight) /\ Cardinality(InFlight) \in Nat
          /\ Cardinality(InFlight) <= MaxInFlight
      BY InFlightFinite DEF Fit, RequestsFit
    <3>3. IsFiniteSet(I) /\ Cardinality(I) = Cardinality(InFlight) - 1 /\ Cardinality(I) \in Nat
      BY <3>1, <3>2, FS_RemoveElement, FS_CardinalityType
    <3>4. /\ C \subseteq Requests \X Parties
          /\ \A x \in C : \E i \in I : \/ Granted(i, x[1], x[2], s, d)
                                       \/ Confirming(i, x[1], x[2], s, d)
      OBVIOUS
    <3> HIDE DEF C, I
    <3>5. IsFiniteSet(C) /\ Cardinality(C) <= Cardinality(I) * MaxParty
      BY <3>3, <3>4, ClaimsCounted
    <3>6. ASSUME NEW m \in Int, NEW n \in Int, m <= n PROVE m * MaxParty <= n * MaxParty
      BY <3>6, PartySize
    <3>7. Cardinality(I) * MaxParty <= (MaxInFlight - 1) * MaxParty
      BY <3>2, <3>3, <3>6, PartySize
    <3>8. /\ Cardinality(I) * MaxParty \in Nat /\ (MaxInFlight - 1) * MaxParty \in Int
          /\ Cardinality(C) \in Nat
      BY <3>3, <3>5, PartySize, FS_CardinalityType
    <3> QED BY <3>5, <3>7, <3>8
  <2> HIDE DEF A, P, C, p, q
  <2>13. IsFiniteSet(A \cup P) /\ Cardinality(A \cup P) <= Cardinality(A) + p
         /\ Cardinality(A \cup P) \in Nat
    <3>1. /\ IsFiniteSet(A \cup P)
          /\ Cardinality(A \cup P) = Cardinality(A) + Cardinality(P) - Cardinality(A \cap P)
      BY <2>10, <2>11, FS_Union
    <3>2. Cardinality(A \cap P) \in Nat /\ Cardinality(A \cup P) \in Nat
      BY <2>10, <3>1, FS_Intersection, FS_CardinalityType
    <3> QED BY <2>6, <2>10, <2>11, <3>1, <3>2
  <2>14. /\ IsFiniteSet(A \cup P \cup C)
         /\ Cardinality(A \cup P \cup C) <= Cardinality(A \cup P) + Cardinality(C)
         /\ Cardinality(A \cup P \cup C) \in Nat
    <3>1. /\ IsFiniteSet(A \cup P \cup C)
          /\ Cardinality(A \cup P \cup C) =
               Cardinality(A \cup P) + Cardinality(C) - Cardinality((A \cup P) \cap C)
      BY <2>12, <2>13, FS_Union
    <3>2. Cardinality((A \cup P) \cap C) \in Nat /\ Cardinality(A \cup P \cup C) \in Nat
      BY <2>13, <3>1, FS_Intersection, FS_CardinalityType
    <3> QED BY <2>12, <2>13, <3>1, <3>2
  <2>15. Cardinality(T) <= Cardinality(A \cup P \cup C) /\ Cardinality(T) \in Nat
    <3>1. T \subseteq A \cup P \cup C
      BY <2>9
    <3> QED BY <2>14, <3>1, FS_Subset, FS_CardinalityType
  <2>16. q.capacity <= LargestCapacity /\ q.capacity \in Nat
    <3>1. q.capacity \in Capacities \cup {0}
      BY DEF Fit, CapacitiesFit, q
    <3>2. \A c \in Capacities \cup {0} : c \in Nat
      BY BoundsAssumption
    <3> QED BY <3>1, <3>2, LargestExists
  <2>17. (MaxInFlight - 1) * MaxParty \in Int /\ LargestCapacity \in Nat
    BY PartySize, LargestExists
  <2>18. Cardinality(T) <= LargestCapacity + (MaxInFlight - 1) * MaxParty
    BY <2>5, <2>6, <2>10, <2>12, <2>13, <2>14, <2>15, <2>16, <2>17
  <2> QED BY <2>18 DEF T, Bound
<1> QED BY <1>2, <1>3

-----------------------------------------------------------------------------
(***************************************************************************)
(* Theorems about Overbooking.                                             *)
(***************************************************************************)
SeatsInv == Inv /\ Fit /\ \A s \in Slots, d \in Days : Cardinality(SeatsOrClaims(s, d)) <= Bound

LEMMA SeatsInit == Init /\ unchecked = {} => SeatsInv
<1> SUFFICES ASSUME Init, unchecked = {} PROVE SeatsInv
  OBVIOUS
<1>1. Inv
  BY InitInv
<1>2. \A r \in Requests : /\ req[r] = Idle /\ req[r].pc = "idle" /\ req[r].op = "none"
                          /\ bookings[r].status = "absent" /\ req[r].capacity = 0
  BY IdleType, IdleEmpty, RowTypes DEF Init
<1>3. Used = {} /\ InFlight = {}
  BY <1>2 DEF Used, InFlight
<1>4. RequestsFit
  BY <1>3, FS_EmptySet, PartySize DEF RequestsFit
<1>5. CapacitiesFit /\ RowsFull
  BY <1>2, IdleEmpty DEF CapacitiesFit, RowsFull, Init
<1>6. ASSUME NEW s \in Slots, NEW d \in Days
      PROVE  Cardinality(SeatsOrClaims(s, d)) <= Bound
  <2>1. SeatsOrClaims(s, d) = {}
    BY <1>1, <1>2, TakenSeats DEF Taken, Sits, Granted, Confirming, Inv
  <2> QED BY <2>1, FS_EmptySet, BoundIsNat
<1> QED BY <1>1, <1>4, <1>5, <1>6 DEF SeatsInv, Fit

LEMMA SeatsStep ==
  ASSUME SeatsInv, Inv', Next, unchecked' = UncheckedNext
  PROVE  SeatsInv'
<1>1. Inv /\ Fit /\ TypeOK /\ RequestsAreWellFormed
  BY DEF SeatsInv, Inv
<1>2. Fit'
  BY <1>1, RequestsFitStep, CapacitiesFitStep, RowsFullStep DEF Fit
<1>3. ASSUME NEW s \in Slots, NEW d \in Days
      PROVE  Cardinality(SeatsOrClaims(s, d)') <= Bound
  BY <1>1, <1>2, BoundStep DEF SeatsInv
<1> QED BY <1>2, <1>3 DEF SeatsInv, Bound

\* The history variable does not disturb the system it watches.
LEMMA WatchedSystem == USpec => Spec
<1>1. [Next /\ unchecked' = UncheckedNext]_uvars => [Next]_vars
  BY DEF uvars, vars
<1> QED BY <1>1, PTL DEF USpec, Spec

LEMMA SeatsInvariance == USpec => []SeatsInv
<1>1. Init /\ unchecked = {} => SeatsInv
  BY SeatsInit
<1>2. SeatsInv /\ Inv' /\ [Next /\ unchecked' = UncheckedNext]_uvars => SeatsInv'
  <2>1. CASE Next /\ unchecked' = UncheckedNext
    BY <2>1, SeatsStep
  <2>2. ASSUME SeatsInv, Inv', UNCHANGED uvars PROVE SeatsInv'
    <3>1. UNCHANGED vars /\ UNCHANGED unchecked
      BY <2>2 DEF uvars, vars
    <3>2. Fit'
      BY <2>2, <3>1 DEF SeatsInv, Fit, RequestsFit, CapacitiesFit, RowsFull, Used, InFlight, vars
    <3>3. ASSUME NEW s, NEW d PROVE SeatsOrClaims(s, d)' = SeatsOrClaims(s, d)
      BY <3>1 DEF vars, SeatsOrClaims, CheckedSeats, Seats, Claimed
    <3> QED BY <2>2, <3>2, <3>3 DEF SeatsInv, Bound
  <2> QED BY <2>1, <2>2
<1> QED BY <1>1, <1>2, WatchedSystem, Invariance, PTL DEF USpec

\* Seats taken and claimed by requests stay within the bound together: what every
\* check of _ensure_capacity leaves behind (booking_service.py).
THEOREM ClaimsBounded == USpec => []ClaimsAreBounded
<1>1. SeatsInv => ClaimsAreBounded
  BY DEF SeatsInv, ClaimsAreBounded, Fit, RequestsFit, Bound
<1> QED BY <1>1, SeatsInvariance, PTL

\* However many requests run at once, a slot holds at most a full slot and one party for
\* each other request served at the same time, but for the bookings that racing updates
\* have put where none of them checked (booking_service.py, _ensure_capacity).
THEOREM OverbookingBounded == USpec => []OverbookingIsBounded
<1>1. SeatsInv => OverbookingIsBounded
  <2> SUFFICES ASSUME SeatsInv, NEW s \in Slots, NEW d \in Days
               PROVE  Cardinality(CheckedSeats(s, d)) <= Bound
    BY DEF OverbookingIsBounded, Bound
  <2>1. IsFiniteSet(SeatsOrClaims(s, d)) /\ Cardinality(SeatsOrClaims(s, d)) \in Nat
    BY SeatsOrClaimsFinite DEF SeatsInv, Fit
  <2>2. CheckedSeats(s, d) \subseteq SeatsOrClaims(s, d)
    BY DEF SeatsOrClaims
  <2>3. Cardinality(CheckedSeats(s, d)) <= Cardinality(SeatsOrClaims(s, d))
        /\ Cardinality(CheckedSeats(s, d)) \in Nat
    BY <2>1, <2>2, FS_Subset, FS_CardinalityType
  <2> QED BY <2>1, <2>3, BoundIsNat DEF SeatsInv
<1> QED BY <1>1, SeatsInvariance, PTL

\* A booking is left unchecked only by an update that writes upon a row which has changed
\* since it was loaded (booking_service.py, update_booking).
THEOREM UncheckedByRaces == USpec => UncheckedOnlyByRacingUpdates
<1> DEFINE Races == \A b \in unchecked' \ unchecked :
       \E r \in Requests : UpdateWrite(r) /\ req[r].booking = b /\ Found(r) # Place(b)
<1>1. ASSUME Inv, Next, unchecked' = UncheckedNext PROVE Races
  <2>1. SUFFICES ASSUME NEW b \in unchecked', b \notin unchecked
                 PROVE  \E r \in Requests : /\ UpdateWrite(r) /\ req[r].booking = b
                                            /\ Found(r) # Place(b)
    OBVIOUS
  <2>2. /\ b \in Requests /\ bookings[b].status # "absent" /\ Place(b)' # Place(b)
        /\ bookings'[b].slot # NULL /\ ~Checked(b)
        /\ bookings[b] \in BookingRow /\ bookings \in [Requests -> BookingRow]
    BY <1>1, <2>1 DEF UncheckedNext, Moved, Inv, TypeOK
  <2>3. bookings' # bookings
    BY <2>2 DEF Place
  <2>4. PICK r \in Requests : \/ CreateInsert(r) \/ UpdateWrite(r) \/ CancelWrite(r)
                              \/ ConfirmWrite(r) \/ DeleteSlotWrite(r) \/ DeleteAttractionWrite(r)
    BY <1>1, <2>3, Writers DEF Tables, CreateSlot, UpdateSlot, UpdateAttraction, NextMidnight
  <2>5. ~CreateInsert(r)
    BY <1>1, <2>2 DEF CreateInsert, Place, Inv, RequestsAreWellFormed, WellFormed
  <2>6. ~CancelWrite(r) /\ ~ConfirmWrite(r)
    BY <2>2 DEF CancelWrite, ConfirmWrite, Place, BookingRow
  <2>7. ~DeleteSlotWrite(r)
    BY <2>2 DEF DeleteSlotWrite, ClearSlot, Place, BookingRow
  <2>8. ~DeleteAttractionWrite(r)
    <3>1. SUFFICES ASSUME DeleteAttractionWrite(r) PROVE FALSE
      OBVIOUS
    <3>2. PICK a, s : /\ s \in {bookings[b].slot, NULL}
                      /\ bookings'[b] = [bookings[b] EXCEPT !.attraction = a, !.slot = s]
      BY <2>2, <3>1 DEF DeleteAttractionWrite
    <3>3. /\ bookings'[b].slot = s /\ bookings'[b].day = bookings[b].day
          /\ bookings'[b].party = bookings[b].party
      BY <2>2, <3>2 DEF BookingRow
    <3> QED BY <2>2, <3>2, <3>3 DEF Place
  <2>9. UpdateWrite(r)
    BY <2>4, <2>5, <2>6, <2>7, <2>8
  <2>10. req[r].booking = b
    BY <2>2, <2>9 DEF UpdateWrite, Place
  <2>11. Place(b)' = <<Changed(req[r].slot, req[r].seen.slot, bookings[b].slot),
                       Changed(req[r].day, req[r].seen.day, bookings[b].day),
                       Changed(req[r].party, req[r].seen.party, bookings[b].party)>>
    BY <2>2, <2>3, <2>9, <2>10 DEF UpdateWrite, Place, BookingRow
  <2>12. ASSUME Found(r) = Place(b) PROVE FALSE
    <3>1. /\ bookings[b].slot = req[r].seen.slot /\ bookings[b].day = req[r].seen.day
          /\ bookings[b].party = req[r].seen.party
      BY <2>12 DEF Found, Place
    <3>2. Place(b)' = Aim(r)
      BY <2>11, <3>1 DEF Aim, Changed, NextSlot, NextDay, NextParty
    <3>3. Checked(b)
      BY <2>9, <2>10, <3>2 DEF Checked, UpdateWrite
    <3> QED BY <2>2, <3>3
  <2> QED BY <2>9, <2>10, <2>12
<1>2. Inv /\ [Next /\ unchecked' = UncheckedNext]_uvars => [Races]_uvars
  BY <1>1
<1> QED BY <1>2, WatchedSystem, Invariance, PTL DEF USpec, UncheckedOnlyByRacingUpdates

-----------------------------------------------------------------------------
(***************************************************************************)
(* One request at a time: what a request has read stays what the tables    *)
(* hold until it writes.  Only the calendar may move on meanwhile.         *)
(***************************************************************************)
RoomLeft(q) ==
  \A s \in Slots, d \in Days, b \in Requests :
    NextSlot(q) = s /\ NextDay(q) = d /\ q.booking = b =>
      Occupied(s, d, b) + NextParty(q) <= q.capacity

\* What request r has read and tested so far holds of the tables now.
CreateStands(q) ==
  /\ ApprovedAttraction(q.attraction)
  /\ (q.pc = "write" /\ q.slot = NULL /\ attractions[q.attraction].priced) =>
       \A s \in Slots : ~ValidSlot(s, q.attraction)

SlotStands(q) ==
  NextSlot(q) # NULL =>
    /\ q.pc \in {"slot", "capacity", "write"}
    /\ q.pc \in {"capacity", "write"} =>
         ValidSlot(NextSlot(q), q.attraction) /\ q.capacity = slots[NextSlot(q)].capacity
    /\ q.pc = "write" => RoomLeft(q)

ConfirmStands(q) ==
  q.pc = "write" => q.seen.attraction # NULL /\ attractions[q.seen.attraction].open

DeleteSlotStands(q) == slots[q.slot].state = "live" /\ q.children = BookedIn({q.slot})

DeleteAttractionStands(q) ==
  /\ attractions[q.attraction].live
  /\ \A s \in Slots : ~(slots[s].state = "live" /\ slots[s].attraction = q.attraction)

Stands(q) ==
  /\ q.op = "create" => CreateStands(q)
  /\ q.op \in {"update", "confirm"} => q.seen = bookings[q.booking]
  /\ q.op = "update" => q.attraction = q.seen.attraction
  /\ q.op \in {"create", "update"} => SlotStands(q)
  /\ q.op \notin {"create", "update"} => q.day = NULL
  /\ q.op = "cancel" => bookings[q.booking].status \in {"pending", "confirmed"}
  /\ q.op = "confirm" => ConfirmStands(q)
  /\ q.op = "deleteSlot" => DeleteSlotStands(q)
  /\ q.op = "deleteAttraction" => DeleteAttractionStands(q)

ReadsStand == \A r \in Requests : Served(r) => Stands(req[r])

LEMMA OccupiedSame ==
  ASSUME UNCHANGED bookings, NEW s, NEW d, NEW b
  PROVE  Occupied(s, d, b)' = Occupied(s, d, b)
BY DEF Occupied, Seats

\* A step that leaves the rows alone leaves what stands of them.
LEMMA StillStands ==
  ASSUME UNCHANGED <<attractions, slots, bookings>>, NEW r \in Requests, NEW q, req'[r] = q, Stands(q)
  PROVE  Stands(req[r])'
<1>1. q.op = "create" => CreateStands(req[r])'
  BY DEF Stands, CreateStands, ApprovedAttraction, ValidSlot
<1>2. q.op \in {"update", "confirm"} => (req[r].seen = bookings[req[r].booking])'
  BY DEF Stands
<1>3. /\ q.op = "update" => (req[r].attraction = req[r].seen.attraction)'
      /\ q.op \notin {"create", "update"} => req'[r].day = NULL
  BY DEF Stands
<1>4. q.op \in {"create", "update"} => SlotStands(req[r])'
  <2>1. RoomLeft(q) => RoomLeft(req[r])'
    BY OccupiedSame DEF RoomLeft, NextSlot, NextDay, NextParty
  <2> QED BY <2>1 DEF Stands, SlotStands, ValidSlot, NextSlot
<1>5. /\ q.op = "cancel" => (bookings[req[r].booking].status \in {"pending", "confirmed"})'
      /\ q.op = "confirm" => ConfirmStands(req[r])'
  BY DEF Stands, ConfirmStands
<1>6. /\ q.op = "deleteSlot" => DeleteSlotStands(req[r])'
      /\ q.op = "deleteAttraction" => DeleteAttractionStands(req[r])'
  BY DEF Stands, DeleteSlotStands, DeleteAttractionStands, BookedIn
<1> QED BY <1>1, <1>2, <1>3, <1>4, <1>5, <1>6 DEF Stands

LEMMA BeginStands ==
  ASSUME TypeOK, NEW r \in Requests, Begin(r)
  PROVE  Stands(req'[r])
<1> DEFINE q == req'[r]
<1>1. CASE CreateGetAttraction(r)
  <2>1. /\ q.op = "create" /\ q.seen = NoBooking
        /\ ApprovedAttraction(q.attraction)
        /\ q.slot # NULL => q.pc = "slot"
        /\ q.slot = NULL =>
             q.pc = IF attractions[q.attraction].priced THEN "slotless" ELSE "write"
    BY <1>1, CreateLoads
  <2> HIDE DEF q
  <2>2. CreateStands(q)
    BY <2>1 DEF CreateStands
  <2>3. SlotStands(q)
    BY <2>1, RowTypes DEF SlotStands, NextSlot
  <2> QED BY <2>1, <2>2, <2>3 DEF Stands, q
<1>2. CASE UpdateGetBooking(r)
  <2>1. /\ q.op = "update" /\ q.seen = bookings[q.booking] /\ q.attraction = q.seen.attraction
        /\ NextSlot(q) # NULL => q.pc = "slot"
    BY <1>2, UpdateLoads
  <2> HIDE DEF q
  <2>2. SlotStands(q)
    BY <2>1 DEF SlotStands
  <2> QED BY <2>1, <2>2 DEF Stands, q
<1>3. CASE CancelGetBooking(r)
  BY <1>3, CancelLoads DEF Stands
<1>4. CASE ConfirmGetBooking(r)
  BY <1>4, ConfirmLoads DEF Stands, ConfirmStands
<1>5. CASE DeleteSlotLoad(r)
  BY <1>5, DeleteSlotLoads DEF Stands, DeleteSlotStands
<1>6. CASE DeleteAttractionLoad(r)
  BY <1>6, DeleteAttractionLoads DEF Stands, DeleteAttractionStands
<1> QED BY <1>1, <1>2, <1>3, <1>4, <1>5, <1>6 DEF Begin

LEMMA ReadStands ==
  ASSUME Inv, NEW r \in Requests, Stands(req[r]), req'[r] # Idle,
         GetSlot(r) \/ EnsureCapacity(r) \/ CreateWithoutSlot(r) \/ ConfirmGetAttraction(r)
  PROVE  Stands(req'[r])
<1> DEFINE q == req[r]
           n == req'[r]
<1>0. TypeOK /\ WellFormed(r) /\ Proceed(r, n)
  BY ProceedsTo DEF Inv, RequestsAreWellFormed, GetSlot, EnsureCapacity, CreateWithoutSlot,
       ConfirmGetAttraction, Finish
<1>1. /\ Keeps(r)
      /\ NextSlot(n) = NextSlot(q) /\ NextDay(n) = NextDay(q) /\ NextParty(n) = NextParty(q)
  BY <1>0, LaterReads DEF Keeps, NextSlot, NextDay, NextParty
<1>2. CASE GetSlot(r)
  <2>1. /\ n.pc = "capacity" /\ n.capacity = slots[NextSlot(q)].capacity
        /\ ValidSlot(NextSlot(q), q.attraction) /\ q.op \in {"create", "update"}
    BY <1>0, <1>2, LaterReads DEF GetSlot, WellFormed
  <2> HIDE DEF q, n
  <2>2. q.op = "create" => CreateStands(n)
    BY <1>1, <2>1 DEF q, n, Keeps, Stands, CreateStands
  <2>3. SlotStands(n)
    BY <1>1, <2>1 DEF q, n, Keeps, SlotStands
  <2> QED BY <1>1, <2>1, <2>2, <2>3 DEF q, n, Keeps, Stands
<1>3. CASE EnsureCapacity(r)
  <2>1. /\ n.pc = "write" /\ n.capacity = q.capacity /\ q.pc = "capacity"
        /\ q.op \in {"create", "update"} /\ NextSlot(q) # NULL
        /\ Occupied(NextSlot(q), NextDay(q), q.booking) + NextParty(q) <= q.capacity
    BY <1>0, <1>3, ProceedsTo, LaterReads DEF EnsureCapacity, GetSlot, Finish, WellFormed
  <2> HIDE DEF q, n
  <2>2. q.op = "create" => CreateStands(n)
    <3>1. q.op = "create" => n.slot # NULL
      BY <1>0, <1>1, <2>1, RowTypes DEF q, n, Keeps, WellFormed, NextSlot
    <3> QED BY <1>1, <2>1, <3>1 DEF q, n, Keeps, Stands, CreateStands
  <2>3. RoomLeft(n)
    BY <1>1, <2>1 DEF q, n, Keeps, RoomLeft
  <2>4. SlotStands(n)
    BY <1>1, <2>1, <2>3 DEF q, n, Keeps, Stands, SlotStands
  <2> QED BY <1>1, <2>1, <2>2, <2>4 DEF q, n, Keeps, Stands
<1>4. CASE CreateWithoutSlot(r)
  <2>1. /\ n.pc = "write" /\ q.op = "create" /\ q.slot = NULL /\ q.seen = NoBooking
        /\ \A s \in Slots : ~ValidSlot(s, q.attraction)
    BY <1>0, <1>4, ProceedsTo, LaterReads DEF CreateWithoutSlot, GetSlot, Finish, WellFormed
  <2> HIDE DEF q, n
  <2>2. CreateStands(n)
    BY <1>1, <2>1 DEF q, n, Keeps, Stands, CreateStands
  <2>3. SlotStands(n)
    BY <1>1, <2>1, RowTypes DEF SlotStands, NextSlot
  <2> QED BY <1>1, <2>1, <2>2, <2>3 DEF q, n, Keeps, Stands
<1>5. CASE ConfirmGetAttraction(r)
  <2>1. /\ q.op = "confirm" /\ q.seen.attraction # NULL /\ ApprovedAttraction(q.seen.attraction)
    BY <1>0, <1>5, ProceedsTo DEF ConfirmGetAttraction, Finish, WellFormed
  <2> HIDE DEF q, n
  <2> QED BY <1>1, <2>1 DEF q, n, Keeps, Stands, ConfirmStands, ApprovedAttraction
<1> QED BY <1>2, <1>3, <1>4, <1>5

LEMMA ReadsStandStep ==
  ASSUME MaxInFlight = 1, Inv, Alone, ReadsStand, [Next]_vars
  PROVE  ReadsStand'
<1> SUFFICES ASSUME NEW r \in Requests, Served(r)' PROVE Stands(req[r])'
  BY DEF ReadsStand
<1>0. TypeOK /\ req'[r] # Idle /\ req'[r] # Spent
  BY IdleType, SpentType DEF Inv, Served
\* A request that stands still is served alone, and nothing else happens but midnight.
<1>1. ASSUME req'[r] = req[r] PROVE UNCHANGED <<attractions, slots, bookings>>
  <2>1. Served(r) /\ ~HasRoom
    BY <1>1, RoomIsIdle DEF Served
  <2>2. ~CreateSlot /\ ~UpdateSlot /\ ~UpdateAttraction
    BY <2>1 DEF CreateSlot, UpdateSlot, UpdateAttraction
  <2>3. ASSUME NEW x \in Requests, Begin(x) \/ Advance(x) \/ Crash(x) PROVE FALSE
    <3>1. ~Begin(x)
      BY <2>1 DEF Begin, CreateGetAttraction, UpdateGetBooking, CancelGetBooking,
                ConfirmGetBooking, DeleteSlotLoad, DeleteAttractionLoad
    <3>2. Served(x)
      BY <2>3, <3>1 DEF Served, Advance, Crash, InFlight, GetSlot, EnsureCapacity,
           CreateWithoutSlot, ConfirmGetAttraction, CreateInsert, UpdateWrite, CancelWrite,
           ConfirmWrite, DeleteSlotWrite, DeleteAttractionWrite
    <3>3. x = r
      BY <2>1, <3>2 DEF Alone
    <3>4. CASE \/ CreateInsert(x) \/ UpdateWrite(x) \/ CancelWrite(x) \/ ConfirmWrite(x)
               \/ DeleteSlotWrite(x) \/ DeleteAttractionWrite(x) \/ Crash(x)
      <4>1. Proceed(x, Idle) \/ Proceed(x, Spent)
        BY <3>4 DEF CreateInsert, UpdateWrite, CancelWrite, ConfirmWrite, DeleteSlotWrite,
                  DeleteAttractionWrite, Crash, Finish, FinishSpent
      <4> QED BY <1>0, <3>3, <4>1, ProceedsTo
    <3>5. CASE GetSlot(x) \/ EnsureCapacity(x) \/ CreateWithoutSlot(x) \/ ConfirmGetAttraction(x)
      <4>1. req[x].pc \notin {"write"} /\ (GetSlot(x) => req[x].pc = "slot")
        BY <3>5 DEF GetSlot, EnsureCapacity, CreateWithoutSlot, ConfirmGetAttraction
      <4> QED BY <1>0, <1>1, <3>3, <3>5, <4>1, LaterReads
    <3> QED BY <2>3, <3>1, <3>4, <3>5 DEF Advance
  <2> QED BY <2>2, <2>3 DEF Next, NextMidnight, vars
<1>2. CASE req'[r] = req[r]
  <2>1. Stands(req[r])
    BY <1>2 DEF ReadsStand, Served
  <2> QED BY <1>1, <1>2, <2>1, StillStands
<1>3. CASE req'[r] # req[r]
  <2>1. Reads(r)
    BY <1>0, <1>3, RequestMoves
  <2>2. Stands(req'[r])
    <3>1. CASE Begin(r)
      BY <1>0, <3>1, BeginStands
    <3>2. CASE GetSlot(r) \/ EnsureCapacity(r) \/ CreateWithoutSlot(r) \/ ConfirmGetAttraction(r)
      <4>1. Stands(req[r])
        BY <3>2 DEF ReadsStand, Served, GetSlot, EnsureCapacity, CreateWithoutSlot,
                  ConfirmGetAttraction
      <4> QED BY <1>0, <3>2, <4>1, ReadStands
    <3> QED BY <2>1, <3>1, <3>2 DEF Reads
  <2> QED BY <2>1, <2>2, ReadsKeepTables, StillStands DEF Tables
<1> QED BY <1>2, <1>3

-----------------------------------------------------------------------------
(***************************************************************************)
(* What the tables keep besides, one request at a time or many.            *)
(***************************************************************************)

\* A booking that does not exist has no slot, and a token names the request, now spent,
\* that issued it.
AbsentEmpty == \A b \in Requests : bookings[b].status = "absent" => bookings[b].slot = NULL

TokensSpent == \A b \in Requests : bookings[b].qr # NULL => req[bookings[b].qr].pc = "spent"

LEMMA AbsentEmptyStep ==
  ASSUME Inv, AbsentEmpty, [Next]_vars
  PROVE  AbsentEmpty'
<1> SUFFICES ASSUME NEW b \in Requests, bookings'[b].status = "absent"
             PROVE  bookings'[b].slot = NULL
  BY DEF AbsentEmpty
<1>0. /\ bookings \in [Requests -> BookingRow] /\ bookings[b] \in BookingRow
      /\ bookings[b].status = "absent" /\ bookings[b].slot = NULL
  BY BookingsAge DEF Inv, TypeOK, BookingAges, AbsentEmpty
<1>1. ASSUME NEW r \in Requests, CreateInsert(r) PROVE bookings'[b] = bookings[b]
  BY <1>0, <1>1 DEF CreateInsert
<1>2. ASSUME NEW r \in Requests, UpdateWrite(r) \/ CancelWrite(r) \/ ConfirmWrite(r)
      PROVE  bookings'[b] = bookings[b]
  <2>1. req[r].booking # b
    BY <1>0, <1>2 DEF UpdateWrite, CancelWrite, ConfirmWrite, Inv, RequestsAreWellFormed,
                      WellFormed
  <2> QED BY <1>0, <1>2, <2>1 DEF UpdateWrite, CancelWrite, ConfirmWrite
<1>3. ASSUME NEW r \in Requests, DeleteSlotWrite(r) PROVE bookings'[b].slot = NULL
  BY <1>0, <1>3 DEF DeleteSlotWrite, ClearSlot, BookingRow
<1>4. ASSUME NEW r \in Requests, DeleteAttractionWrite(r) PROVE bookings'[b].slot = NULL
  BY <1>0, <1>4 DEF DeleteAttractionWrite, BookingRow
<1> QED BY <1>0, <1>1, <1>2, <1>3, <1>4, Writers
        DEF Tables, CreateSlot, UpdateSlot, UpdateAttraction, NextMidnight

LEMMA TokensSpentStep ==
  ASSUME Inv, TokensSpent, [Next]_vars
  PROVE  TokensSpent'
<1> SUFFICES ASSUME NEW b \in Requests, bookings'[b].qr # NULL
             PROVE  req'[bookings'[b].qr].pc = "spent"
  BY DEF TokensSpent
<1>0. /\ bookings \in [Requests -> BookingRow] /\ bookings[b] \in BookingRow /\ TypeOK
      /\ bookings[b].qr \in OrNull(Requests)
  BY DEF Inv, TypeOK, BookingRow
<1>1. CASE bookings'[b].qr = bookings[b].qr
  <2>1. bookings[b].qr \in Requests /\ req[bookings[b].qr].pc = "spent"
    BY <1>0, <1>1 DEF TokensSpent, OrNull
  <2>2. req'[bookings[b].qr] = req[bookings[b].qr]
    BY <1>0, <2>1, RequestMoves
  <2> QED BY <1>1, <2>1, <2>2
<1>2. CASE bookings'[b].qr # bookings[b].qr
  <2>1. PICK r \in Requests : \/ CreateInsert(r) \/ UpdateWrite(r) \/ CancelWrite(r)
                              \/ ConfirmWrite(r) \/ DeleteSlotWrite(r) \/ DeleteAttractionWrite(r)
    BY <1>2, Writers DEF Tables, CreateSlot, UpdateSlot, UpdateAttraction, NextMidnight
  <2>2. ~CreateInsert(r)
    BY <1>0, <1>2 DEF CreateInsert
  <2>3. ~UpdateWrite(r) /\ ~CancelWrite(r)
    BY <1>0, <1>2 DEF UpdateWrite, CancelWrite, BookingRow
  <2>4. ~DeleteSlotWrite(r) /\ ~DeleteAttractionWrite(r)
    <3>1. ~DeleteSlotWrite(r)
      BY <1>0, <1>2 DEF DeleteSlotWrite, ClearSlot, BookingRow
    <3>2. ~DeleteAttractionWrite(r)
      <4>1. SUFFICES ASSUME DeleteAttractionWrite(r) PROVE FALSE
        OBVIOUS
      <4>2. PICK a, s : bookings'[b] = [bookings[b] EXCEPT !.attraction = a, !.slot = s]
        BY <4>1 DEF DeleteAttractionWrite
      <4> QED BY <1>0, <1>2, <4>2 DEF BookingRow
    <3> QED BY <3>1, <3>2
  <2>5. ConfirmWrite(r)
    BY <2>1, <2>2, <2>3, <2>4
  <2>6. bookings'[b].qr = r
    BY <1>0, <1>2, <2>5 DEF ConfirmWrite, BookingRow
  <2>7. req'[r].pc = "spent"
    BY <1>0, <2>5, ProceedsTo, SpentType DEF ConfirmWrite, FinishSpent
  <2> QED BY <2>6, <2>7
<1> QED BY <1>1, <1>2

SerialState == /\ Inv /\ Alone /\ ReadsStand
               /\ RequestsFit /\ RowsFull /\ AbsentEmpty /\ TokensSpent

LEMMA SerialStateHolds ==
  ASSUME MaxInFlight = 1
  PROVE  Spec => []SerialState
<1>1. Init => ReadsStand /\ RequestsFit /\ RowsFull /\ AbsentEmpty /\ TokensSpent
  <2> SUFFICES ASSUME Init
               PROVE  ReadsStand /\ RequestsFit /\ RowsFull /\ AbsentEmpty /\ TokensSpent
    OBVIOUS
  <2>1. \A r \in Requests : /\ req[r] = Idle /\ req[r].pc = "idle" /\ req[r].op = "none"
                            /\ bookings[r].status = "absent" /\ bookings[r].slot = NULL
                            /\ bookings[r].qr = NULL
    BY IdleType, RowTypes DEF Init
  <2>2. Used = {} /\ InFlight = {}
    BY <2>1 DEF Used, InFlight
  <2>3. RequestsFit
    BY <2>2, FS_EmptySet, PartySize DEF RequestsFit
  <2> QED BY <2>1, <2>3 DEF ReadsStand, Served, RowsFull, AbsentEmpty, TokensSpent
<1>2. SerialState /\ [Next]_vars
        => ReadsStand' /\ RequestsFit' /\ RowsFull' /\ AbsentEmpty' /\ TokensSpent'
  BY ReadsStandStep, RequestsFitStep, RowsFullStep, AbsentEmptyStep, TokensSpentStep
     DEF SerialState, Inv
<1>3. SerialState <=> /\ Inv /\ Alone
                      /\ ReadsStand /\ RequestsFit /\ RowsFull /\ AbsentEmpty /\ TokensSpent
  BY DEF SerialState
<1> QED BY <1>1, <1>2, <1>3, SerialInv, PTL DEF Spec

-----------------------------------------------------------------------------
(***************************************************************************)
(* Each write is an entry of the ledger.                                   *)
(***************************************************************************)
LEMMA Payload ==
  ASSUME Inv, RowsFull, NEW r \in Requests, req[r].pc = "write",
         req[r].op \in {"create", "update"}
  PROVE  /\ req[r].booking \in Requests /\ NextSlot(req[r]) \in OrNull(Slots)
         /\ NextDay(req[r]) \in Days /\ NextParty(req[r]) \in Parties
         /\ req[r].op = "create" =>
              /\ NextSlot(req[r]) = req[r].slot /\ NextDay(req[r]) = req[r].day
              /\ NextParty(req[r]) = req[r].party
<1> DEFINE q == req[r]
<1>1. \A v \in Parties \cup Days : v # NULL
  BY IdsAssumption DEF Parties, Days
<1>2. /\ q.slot \in OrNull(Slots) /\ q.day \in OrNull(Days) /\ q.party \in OrNull(Parties)
      /\ q.seen.slot \in OrNull(Slots) /\ WellFormed(r)
      /\ q.op = "update" => q.seen.day \in Days /\ q.seen.party \in Parties
  BY DEF Inv, TypeOK, RequestState, BookingRow, RowsFull, RowFull, RequestsAreWellFormed
<1>3. q.op = "create" => q.day \in Days /\ q.party \in Parties /\ q.seen.slot = NULL
  BY <1>2, RowTypes DEF WellFormed
<1>4. q.booking \in Requests
  BY <1>2 DEF WellFormed
<1> HIDE DEF q
<1> QED BY <1>1, <1>2, <1>3, <1>4 DEF NextSlot, NextDay, NextParty, OrNull, q

\* A request that is about to write a booking has found room for it.
LEMMA FitsNow ==
  ASSUME SerialState, NEW r \in Requests, req[r].pc = "write",
         req[r].op \in {"create", "update"}, NextSlot(req[r]) # NULL
  PROVE  /\ ValidSlot(NextSlot(req[r]), req[r].attraction)
         /\ Occupied(NextSlot(req[r]), NextDay(req[r]), req[r].booking) + NextParty(req[r])
              <= slots[NextSlot(req[r])].capacity
<1>1. SlotStands(req[r])
  BY DEF SerialState, ReadsStand, Served, Stands
<1>2. /\ NextSlot(req[r]) \in Slots /\ NextDay(req[r]) \in Days /\ req[r].booking \in Requests
  BY Payload DEF SerialState, OrNull
<1> QED BY <1>1, <1>2 DEF SlotStands, RoomLeft

\* What an update makes of the booking when the row has not changed since.
LEMMA UpdateInPlace ==
  ASSUME SerialState, NEW r \in Requests, UpdateWrite(r)
  PROVE  /\ req[r].seen = bookings[req[r].booking] /\ req[r].booking \in Requests
         /\ \/ UNCHANGED bookings
            \/ bookings' = [bookings EXCEPT ![req[r].booking].slot = NextSlot(req[r]),
                                            ![req[r].booking].day = NextDay(req[r]),
                                            ![req[r].booking].party = NextParty(req[r])]
<1> DEFINE q == req[r]
           b == q.booking
<1>1. q.seen = bookings[b] /\ b \in Requests
  BY Payload DEF UpdateWrite, SerialState, ReadsStand, Served, Stands
<1>2. /\ Changed(q.slot, q.seen.slot, bookings[b].slot) = NextSlot(q)
      /\ Changed(q.day, q.seen.day, bookings[b].day) = NextDay(q)
      /\ Changed(q.party, q.seen.party, bookings[b].party) = NextParty(q)
  BY <1>1 DEF Changed, NextSlot, NextDay, NextParty
<1>3. bookings \in [Requests -> BookingRow] /\ bookings[b] \in BookingRow
  BY <1>1 DEF SerialState, Inv, TypeOK
<1>4. \/ UNCHANGED bookings
      \/ bookings' = [bookings EXCEPT ![b] =
           [bookings[b] EXCEPT !.slot = Changed(q.slot, q.seen.slot, @),
                               !.day = Changed(q.day, q.seen.day, @),
                               !.party = Changed(q.party, q.seen.party, @)]]
  BY <1>1, <1>3 DEF UpdateWrite
<1>5. [bookings[b] EXCEPT !.slot = Changed(q.slot, q.seen.slot, @),
                          !.day = Changed(q.day, q.seen.day, @),
                          !.party = Changed(q.party, q.seen.party, @)] =
        [bookings[b] EXCEPT !.slot = NextSlot(q), !.day = NextDay(q), !.party = NextParty(q)]
  BY <1>2, <1>3 DEF BookingRow
<1>6. [bookings EXCEPT ![b].slot = NextSlot(q), ![b].day = NextDay(q), ![b].party = NextParty(q)]
        = [bookings EXCEPT ![b] =
             [bookings[b] EXCEPT !.slot = NextSlot(q), !.day = NextDay(q), !.party = NextParty(q)]]
  BY <1>1, <1>3 DEF BookingRow
<1> HIDE DEF q, b
<1> QED BY <1>1, <1>4, <1>5, <1>6 DEF q, b

LEMMA LedgerSeats ==
  ASSUME NEW s, NEW d, NEW b
  PROVE  Ledger!Seats(s, d, b) = Seats(s, d, b)
BY DEF Ledger!Seats, Seats

LEMMA LedgerCardinality ==
  ASSUME NEW S
  PROVE  Ledger!Cardinality(S) = Cardinality(S)
BY DEF Ledger!Cardinality, Cardinality

\* The days asked for are those of the request being served, if one is.
LEMMA NobodyAsks ==
  ASSUME MaxInFlight = 1, SerialState, HasRoom
  PROVE  AskedDays = {}
<1>1. InFlight = {}
  BY RoomIsIdle DEF SerialState, InFlight, Served
<1> QED BY <1>1 DEF AskedDays

LEMMA OneAsks ==
  ASSUME SerialState, NEW r \in InFlight
  PROVE  AskedDays = {req[r].day} \ {NULL}
<1>1. InFlight = {r}
  BY DEF SerialState, Alone, InFlight, Served
<1> QED BY <1>1 DEF AskedDays

LEMMA AskedNext ==
  ASSUME MaxInFlight = 1, SerialState, NEW r \in Requests, HasRoom \/ r \in InFlight,
         NEW q, Proceed(r, q)
  PROVE  AskedDays' = IF q.pc \in {"idle", "spent"} THEN {} ELSE {q.day} \ {NULL}
<1>1. req'[r] = q /\ \A x \in Requests \ {r} : req'[x] = req[x]
  BY ProceedsTo DEF SerialState, Inv
<1>2. \A x \in Requests \ {r} : req[x].pc \in {"idle", "spent"}
  BY RoomIsIdle DEF SerialState, Alone, InFlight, Served
<1>3. InFlight' = IF q.pc \in {"idle", "spent"} THEN {} ELSE {r}
  BY <1>1, <1>2 DEF InFlight
<1> QED BY <1>1, <1>3 DEF AskedDays

\* A request that ends asks for nothing any more.
LEMMA AskedEnds ==
  ASSUME MaxInFlight = 1, SerialState, NEW r \in InFlight, Finish(r) \/ FinishSpent(r)
  PROVE  AskedDays' = {}
<1>1. PICK q \in {Idle, Spent} : Proceed(r, q)
  BY DEF Finish, FinishSpent
<1> QED BY <1>1, AskedNext, IdleType, SpentType DEF InFlight

\* The first statement of a request asks for a day or for none.
LEMMA BeginAsks ==
  ASSUME MaxInFlight = 1, SerialState, NEW r \in Requests, Begin(r)
  PROVE  Ledger!Ask \/ UNCHANGED AskedDays
<1> DEFINE q == req'[r]
<1>1. HasRoom /\ UNCHANGED Tables /\ \E n : Proceed(r, n)
  BY DEF Begin, CreateGetAttraction, UpdateGetBooking, CancelGetBooking, ConfirmGetBooking,
         DeleteSlotLoad, DeleteAttractionLoad
<1>2. Proceed(r, q) /\ TypeOK
  BY <1>1, ProceedsTo DEF SerialState, Inv
<1>3. q.day # NULL => q.day \in Days /\ q.day >= today
  BY <1>2, CreateLoads, UpdateLoads, CancelLoads, ConfirmLoads, DeleteSlotLoads,
     DeleteAttractionLoads DEF Begin, ValidVisitDate, OrNull
<1> HIDE DEF q
<1>4. AskedDays = {} /\ AskedDays' \in {{}, {q.day} \ {NULL}}
  BY <1>1, <1>2, NobodyAsks, AskedNext
<1>5. CASE AskedDays' = {}
  BY <1>4, <1>5
<1>6. CASE AskedDays' # {}
  <2>1. q.day \in Days /\ q.day >= today /\ AskedDays' = AskedDays \cup {q.day}
    BY <1>3, <1>4, <1>6
  <2> QED BY <1>1, <2>1 DEF Ledger!Ask, Tables
<1> QED BY <1>5, <1>6

\* A later statement that writes nothing asks for the same day or gives it up.
LEMMA LaterKeepsOrGivesUp ==
  ASSUME MaxInFlight = 1, SerialState, NEW r \in Requests, Advance(r) \/ Crash(r),
         UNCHANGED Tables
  PROVE  Ledger!GiveUp \/ UNCHANGED AskedDays
<1>1. r \in InFlight /\ TypeOK
  BY DEF Advance, Crash, InFlight, GetSlot, EnsureCapacity, CreateWithoutSlot,
         ConfirmGetAttraction, CreateInsert, UpdateWrite, CancelWrite, ConfirmWrite,
         DeleteSlotWrite, DeleteAttractionWrite, SerialState, Inv
<1>2. AskedDays = {req[r].day} \ {NULL}
  BY <1>1, OneAsks
<1>3. ASSUME AskedDays' = {} PROVE Ledger!GiveUp \/ UNCHANGED AskedDays
  <2>1. CASE req[r].day = NULL
    BY <1>2, <1>3, <2>1
  <2>2. CASE req[r].day # NULL
    <3>1. req[r].day \in AskedDays /\ AskedDays' = AskedDays \ {req[r].day}
      BY <1>2, <1>3, <2>2
    <3> QED BY <3>1 DEF Ledger!GiveUp, Tables
  <2> QED BY <2>1, <2>2
<1>4. CASE \/ CreateInsert(r) \/ UpdateWrite(r) \/ CancelWrite(r) \/ ConfirmWrite(r)
           \/ DeleteSlotWrite(r) \/ DeleteAttractionWrite(r) \/ Crash(r)
  <2>1. Finish(r) \/ FinishSpent(r)
    BY <1>4 DEF CreateInsert, UpdateWrite, CancelWrite, ConfirmWrite, DeleteSlotWrite,
                DeleteAttractionWrite, Crash
  <2> QED BY <1>1, <1>3, <2>1, AskedEnds
<1>5. CASE GetSlot(r) \/ EnsureCapacity(r) \/ CreateWithoutSlot(r) \/ ConfirmGetAttraction(r)
  <2>1. \E n : Proceed(r, n)
    BY <1>5 DEF GetSlot, EnsureCapacity, CreateWithoutSlot, ConfirmGetAttraction, Finish
  <2>2. Proceed(r, req'[r])
    BY <1>1, <2>1, ProceedsTo
  <2>3. req'[r] = Idle \/ (req'[r].day = req[r].day /\ req'[r].pc \in {"capacity", "write"})
    BY <1>1, <1>5, LaterReads DEF Keeps
  <2>4. AskedDays' = {} \/ AskedDays' = {req[r].day} \ {NULL}
    BY <1>1, <2>2, <2>3, AskedNext, IdleType DEF InFlight
  <2> QED BY <1>2, <1>3, <2>4
<1> QED BY <1>4, <1>5 DEF Advance

\* What a write finds asked for, and leaves.
LEMMA WriteAnswers ==
  ASSUME MaxInFlight = 1, SerialState, NEW r \in Requests,
         \/ CreateInsert(r) \/ UpdateWrite(r) \/ CancelWrite(r)
         \/ ConfirmWrite(r) \/ DeleteSlotWrite(r) \/ DeleteAttractionWrite(r)
  PROVE  /\ AskedDays = {req[r].day} \ {NULL} /\ AskedDays' = {}
         /\ req[r].op \notin {"create", "update"} => UNCHANGED AskedDays
<1>1. r \in InFlight /\ (Finish(r) \/ FinishSpent(r))
  BY DEF CreateInsert, UpdateWrite, CancelWrite, ConfirmWrite, DeleteSlotWrite,
         DeleteAttractionWrite, InFlight
<1>2. req[r].op \notin {"create", "update"} => req[r].day = NULL
  BY <1>1 DEF SerialState, ReadsStand, Served, Stands, InFlight
<1> QED BY <1>1, <1>2, OneAsks, AskedEnds

LEMMA CreateIsBook ==
  ASSUME MaxInFlight = 1, SerialState, NEW r \in Requests, CreateInsert(r), bookings' # bookings
  PROVE  Ledger!Book
<1> DEFINE q == req[r]
<1>1. /\ q.op = "create" /\ q.pc = "write" /\ q.booking = r
      /\ q.user \in Users /\ q.attraction \in Attractions
      /\ bookings[r].status = "absent" /\ Stands(q)
  BY DEF CreateInsert, SerialState, Inv, RequestsAreWellFormed, WellFormed, ReadsStand, Served
<1>2. q.slot \in Slots \cup {NULL} /\ q.day \in Days /\ q.party \in Parties
      /\ NextSlot(q) = q.slot /\ NextDay(q) = q.day /\ NextParty(q) = q.party
  BY <1>1, Payload DEF SerialState, OrNull
<1>3. Ledger!Fits(r, q.attraction, q.slot, q.day, q.party)
  BY <1>1, <1>2, FitsNow, LedgerSeats, LedgerCardinality
     DEF Ledger!Fits, ValidSlot, Occupied
<1>4. /\ attractions[q.attraction].live /\ attractions[q.attraction].open
      /\ (q.slot = NULL /\ attractions[q.attraction].priced) =>
           ~\E t \in Slots : slots[t].state = "live" /\ slots[t].attraction = q.attraction
                             /\ slots[t].active
  BY <1>1 DEF Stands, CreateStands, ApprovedAttraction, ValidSlot
<1>5. /\ bookings' = [bookings EXCEPT ![r] =
           [status |-> "pending", tourist |-> q.user, attraction |-> q.attraction,
            slot |-> q.slot, day |-> q.day, party |-> q.party, qr |-> NULL]]
      /\ UNCHANGED <<today, attractions, slots>>
  BY DEF CreateInsert
<1>6. q.day \in AskedDays /\ AskedDays' = AskedDays \ {q.day}
  <2>1. AskedDays = {q.day} \ {NULL} /\ AskedDays' = {}
    BY WriteAnswers
  <2>2. q.day # NULL
    BY <1>2, IdsAssumption DEF Days
  <2> QED BY <2>1, <2>2
<1> HIDE DEF q
<1> QED BY <1>1, <1>2, <1>3, <1>4, <1>5, <1>6 DEF Ledger!Book

LEMMA UpdateIsChange ==
  ASSUME MaxInFlight = 1, SerialState, NEW r \in Requests, UpdateWrite(r), bookings' # bookings
  PROVE  Ledger!Change
<1> DEFINE q == req[r]
           b == q.booking
<1>1. /\ q.op = "update" /\ q.pc = "write" /\ Stands(q) /\ q.seen.status = "pending"
  BY DEF UpdateWrite, SerialState, Alone, Current, ReadsStand, Served
<1>2. /\ q.seen = bookings[b] /\ b \in Requests
      /\ bookings' = [bookings EXCEPT ![b].slot = NextSlot(q), ![b].day = NextDay(q),
                                      ![b].party = NextParty(q)]
  BY UpdateInPlace
<1>3. NextSlot(q) \in Slots \cup {NULL} /\ NextDay(q) \in Days /\ NextParty(q) \in Parties
  BY <1>1, Payload DEF SerialState, OrNull
<1>4. q.attraction = bookings[b].attraction
  BY <1>1, <1>2 DEF Stands
<1>5. Ledger!Fits(b, bookings[b].attraction, NextSlot(q), NextDay(q), NextParty(q))
  BY <1>1, <1>4, FitsNow, LedgerSeats, LedgerCardinality
     DEF Ledger!Fits, ValidSlot, Occupied
<1>6. /\ bookings[b].slot # NULL => NextSlot(q) # NULL
      /\ NextDay(q) # bookings[b].day => NextDay(q) \in AskedDays
      /\ AskedDays' = AskedDays \ {NextDay(q)}
  <2>1. AskedDays = {q.day} \ {NULL} /\ AskedDays' = {}
    BY WriteAnswers
  <2> QED BY <1>2, <2>1 DEF NextSlot, NextDay
<1>7. UNCHANGED <<today, attractions, slots>>
  BY DEF UpdateWrite
<1> HIDE DEF q, b
<1> QED BY <1>1, <1>2, <1>3, <1>5, <1>6, <1>7 DEF Ledger!Change

LEMMA CancelIsCancel ==
  ASSUME MaxInFlight = 1, SerialState, NEW r \in Requests, CancelWrite(r)
  PROVE  Ledger!Cancel
<1>1. /\ req[r].booking \in Requests
      /\ bookings[req[r].booking].status \in {"pending", "confirmed"}
  BY DEF CancelWrite, SerialState, ReadsStand, Served, Stands, Inv, RequestsAreWellFormed,
         WellFormed
<1>2. UNCHANGED AskedDays
  BY WriteAnswers DEF CancelWrite
<1> QED BY <1>1, <1>2 DEF CancelWrite, Ledger!Cancel

LEMMA ConfirmIsConfirm ==
  ASSUME MaxInFlight = 1, SerialState, NEW r \in Requests, ConfirmWrite(r)
  PROVE  Ledger!Confirm
<1> DEFINE b == req[r].booking
<1>1. /\ b \in Requests /\ req[r].seen = bookings[b] /\ req[r].seen.status = "pending"
      /\ bookings[b].attraction # NULL /\ attractions[bookings[b].attraction].open
  BY DEF ConfirmWrite, SerialState, Alone, Current, ReadsStand, Served, Stands, ConfirmStands,
         Inv, RequestsAreWellFormed, WellFormed
<1>2. \A c \in Requests : bookings[c].qr # r
  <2>1. req[r].pc # "spent" /\ r # NULL
    BY IdsAssumption DEF ConfirmWrite
  <2> QED BY <2>1 DEF SerialState, TokensSpent
<1>3. /\ bookings' = [bookings EXCEPT ![b].status = "confirmed", ![b].qr = r]
      /\ UNCHANGED <<today, attractions, slots>>
  BY DEF ConfirmWrite
<1> HIDE DEF b
<1>4. UNCHANGED AskedDays
  BY WriteAnswers DEF ConfirmWrite
<1> QED BY <1>1, <1>2, <1>3, <1>4 DEF Ledger!Confirm

LEMMA DeletionIsWithdrawal ==
  ASSUME MaxInFlight = 1, SerialState, NEW r \in Requests, DeleteSlotWrite(r)
  PROVE  Ledger!WithdrawSlot
<1> DEFINE s == req[r].slot
<1>1. s \in Slots /\ slots[s].state = "live" /\ req[r].children = BookedIn({s})
  BY DEF DeleteSlotWrite, SerialState, ReadsStand, Served, Stands, DeleteSlotStands, Inv,
         RequestsAreWellFormed, WellFormed
<1>2. \A b \in Requests : bookings[b] \in BookingRow
  BY DEF SerialState, Inv, TypeOK
<1>3. bookings' = ClearSlot(BookedIn({s}))
  BY <1>1 DEF DeleteSlotWrite
<1> HIDE DEF s
<1>4. ASSUME NEW b \in Requests
      PROVE  (IF b \in BookedIn({s}) THEN [bookings[b] EXCEPT !.slot = NULL] ELSE bookings[b])
               = [bookings[b] EXCEPT !.slot = IF @ = s THEN NULL ELSE @]
  BY <1>2 DEF BookedIn, BookingRow
<1>5. bookings' = [b \in Requests |-> [bookings[b] EXCEPT !.slot = IF @ = s THEN NULL ELSE @]]
  BY <1>3, <1>4 DEF ClearSlot
<1>6. slots' = [slots EXCEPT ![s].state = "gone"] /\ UNCHANGED <<today, attractions>>
  BY DEF DeleteSlotWrite, s
<1>7. UNCHANGED AskedDays
  BY WriteAnswers DEF DeleteSlotWrite
<1> QED BY <1>1, <1>5, <1>6, <1>7 DEF Ledger!WithdrawSlot

LEMMA DeletionIsWithdrawalOfAttraction ==
  ASSUME MaxInFlight = 1, SerialState, NEW r \in Requests, DeleteAttractionWrite(r)
  PROVE  Ledger!WithdrawAttraction
<1> DEFINE a == req[r].attraction
           cascade == {s \in Slots : slots[s].state = "live" /\ slots[s].attraction = a}
<1>1. /\ a \in Attractions /\ attractions[a].live
      /\ \A s \in Slots : ~(slots[s].state = "live" /\ slots[s].attraction = a)
  BY DEF DeleteAttractionWrite, SerialState, ReadsStand, Served, Stands, DeleteAttractionStands,
         Inv, RequestsAreWellFormed, WellFormed
<1>2. cascade = {}
  BY <1>1
<1>3. /\ \A b \in Requests : bookings[b] \in BookingRow
      /\ slots = [s \in Slots |-> slots[s]]
  BY DEF SerialState, Inv, TypeOK
<1>4. /\ attractions' = [attractions EXCEPT ![a].live = FALSE, ![a].open = FALSE]
      /\ slots' = [s \in Slots |-> IF s \in cascade THEN [slots[s] EXCEPT !.state = "gone"]
                                                    ELSE slots[s]]
      /\ bookings' = [b \in Requests |->
           [bookings[b] EXCEPT !.attraction = IF @ = a THEN NULL ELSE @,
                               !.slot = IF @ \in cascade THEN NULL ELSE @]]
      /\ UNCHANGED today
  BY DEF DeleteAttractionWrite
<1> HIDE DEF a, cascade
<1>5. slots' = slots
  BY <1>2, <1>3, <1>4
<1>6. ASSUME NEW b \in Requests
      PROVE  [bookings[b] EXCEPT !.attraction = IF @ = a THEN NULL ELSE @,
                                 !.slot = IF @ \in cascade THEN NULL ELSE @]
               = [bookings[b] EXCEPT !.attraction = IF @ = a THEN NULL ELSE @]
  BY <1>2, <1>3 DEF BookingRow
<1>7. bookings' = [b \in Requests |->
                     [bookings[b] EXCEPT !.attraction = IF @ = a THEN NULL ELSE @]]
  BY <1>4, <1>6
<1>8. UNCHANGED AskedDays
  BY WriteAnswers DEF DeleteAttractionWrite
<1> QED BY <1>1, <1>4, <1>5, <1>7, <1>8 DEF Ledger!WithdrawAttraction

LEMMA LedgerStep ==
  ASSUME MaxInFlight = 1, SerialState, [Next]_vars
  PROVE  [Ledger!Next]_(Ledger!vars)
\* A step that leaves the requests alone.
<1>0. req' = req => UNCHANGED AskedDays
  BY DEF AskedDays, InFlight
<1>1. CASE UNCHANGED vars
  BY <1>0, <1>1 DEF vars, Ledger!vars
<1>2. ASSUME NEW r \in Requests, Begin(r)
      PROVE  [Ledger!Next]_(Ledger!vars)
  <2>1. UNCHANGED Tables
    BY <1>2, ReadsKeepTables DEF Reads
  <2> QED BY <1>2, <2>1, BeginAsks DEF Tables, Ledger!Next, Ledger!vars
<1>3. ASSUME NEW r \in Requests, Advance(r) \/ Crash(r)
      PROVE  [Ledger!Next]_(Ledger!vars)
  <2>1. CASE UNCHANGED Tables
    BY <1>3, <2>1, LaterKeepsOrGivesUp DEF Tables, Ledger!Next, Ledger!vars
  <2>2. CASE ~UNCHANGED Tables
    <3>1. \/ CreateInsert(r) \/ UpdateWrite(r) \/ CancelWrite(r)
          \/ ConfirmWrite(r) \/ DeleteSlotWrite(r) \/ DeleteAttractionWrite(r)
      BY <1>3, <2>2, ReadsKeepTables DEF Advance, Crash, Reads
    <3>2. CASE CreateInsert(r) \/ UpdateWrite(r)
      <4>1. UNCHANGED <<today, attractions, slots>>
        BY <3>2 DEF CreateInsert, UpdateWrite
      <4> QED BY <2>2, <3>2, <4>1, CreateIsBook, UpdateIsChange DEF Ledger!Next, Tables
    <3> QED BY <3>1, <3>2, CancelIsCancel, ConfirmIsConfirm, DeletionIsWithdrawal,
               DeletionIsWithdrawalOfAttraction DEF Ledger!Next
  <2> QED BY <2>1, <2>2
<1>4. CASE CreateSlot
  BY <1>0, <1>4 DEF CreateSlot, Ledger!OpenSlot, Ledger!Next
<1>5. CASE UpdateSlot
  BY <1>0, <1>5 DEF UpdateSlot, Ledger!ChangeSlot, Ledger!Next
<1>6. CASE UpdateAttraction
  BY <1>0, <1>6 DEF UpdateAttraction, Ledger!ChangeAttraction, Ledger!Next
<1>7. CASE NextMidnight
  BY <1>0, <1>7 DEF NextMidnight, Ledger!NextDay, Ledger!Next
<1> QED BY <1>1, <1>2, <1>3, <1>4, <1>5, <1>6, <1>7 DEF Next

\* Served one at a time, requests make exactly the entries of the ledger: the checks of
\* booking_service.py and its writes are together one indivisible operation, but for
\* _validate_visit_date, whose day may have passed by the time of the write.
THEOREM SerialImplementsLedger ==
  ASSUME MaxInFlight = 1
  PROVE  Spec => ImplementsLedger
<1>1. ASSUME Init PROVE Ledger!Init
  <2>1. InFlight = {}
    BY <1>1, IdleType DEF Init, InFlight
  <2>2. AskedDays = {}
    BY <2>1 DEF AskedDays
  <2> QED BY <1>1, <2>2, RowTypes DEF Init, Ledger!Init, NoSlot
<1>2. SerialState /\ [Next]_vars => [Ledger!Next]_(Ledger!vars)
  BY LedgerStep
<1> QED BY <1>1, <1>2, SerialStateHolds, PTL DEF Spec, ImplementsLedger, Ledger!Spec

-----------------------------------------------------------------------------
(***************************************************************************)
(* Admission and the loss of slots.                                        *)
(***************************************************************************)
LEMMA SeatsOnlyLeave ==
  ASSUME SerialState, NEW s \in Slots, NEW d, Seats(s, d, NULL)' \subseteq Seats(s, d, NULL)
  PROVE  ~(Occupied(s, d, NULL)' > Occupied(s, d, NULL))
<1>1. IsFiniteSet(Seats(s, d, NULL)) /\ Cardinality(Seats(s, d, NULL)) \in Nat
  BY SeatsFinite DEF SerialState
<1>2. /\ Cardinality(Seats(s, d, NULL)') <= Cardinality(Seats(s, d, NULL))
      /\ Cardinality(Seats(s, d, NULL)') \in Nat
  BY <1>1, FS_Subset, FS_CardinalityType
<1> QED BY <1>1, <1>2 DEF Occupied

\* Booking b takes p seats besides those of the others.
LEMMA SeatsAreAdded ==
  ASSUME SerialState, NEW s \in Slots, NEW d, NEW b, NEW p \in Nat,
         Seats(s, d, NULL)' \subseteq Seats(s, d, b) \cup ({b} \X (1 .. p))
  PROVE  Occupied(s, d, NULL)' <= Occupied(s, d, b) + p
<1> DEFINE A == Seats(s, d, b)
           P == {b} \X (1 .. p)
<1>1. IsFiniteSet(A) /\ Cardinality(A) \in Nat /\ IsFiniteSet(P) /\ Cardinality(P) = p
  BY SeatsFinite, PartyOf DEF SerialState
<1> HIDE DEF A, P
<1>2. /\ IsFiniteSet(A \cup P)
      /\ Cardinality(A \cup P) = Cardinality(A) + Cardinality(P) - Cardinality(A \cap P)
  BY <1>1, FS_Union
<1>3. Cardinality(A \cap P) \in Nat /\ Cardinality(A \cup P) \in Nat
  BY <1>1, <1>2, FS_Intersection, FS_CardinalityType
<1>4. /\ Cardinality(Seats(s, d, NULL)') <= Cardinality(A \cup P)
      /\ Cardinality(Seats(s, d, NULL)') \in Nat
  <2>1. Seats(s, d, NULL)' \subseteq A \cup P
    BY DEF A, P
  <2> QED BY <1>2, <2>1, FS_Subset, FS_CardinalityType
<1> QED BY <1>1, <1>2, <1>3, <1>4 DEF Occupied, A

\* A step that rewrites one booking b, to a place where party p fits or in no slot.
LEMMA OneBookingAdmitted ==
  ASSUME SerialState, NEW b \in Requests, NEW t \in OrNull(Slots), NEW e \in Days,
         NEW p \in Parties,
         \A c \in Requests \ {b} : bookings'[c] = bookings[c],
         bookings'[b].slot = t /\ bookings'[b].day = e /\ bookings'[b].party = p,
         t # NULL => Occupied(t, e, b) + p <= slots[t].capacity,
         UNCHANGED slots,
         NEW s \in Slots, NEW d \in Days
  PROVE  Occupied(s, d, NULL)' > Occupied(s, d, NULL)
           => Occupied(s, d, NULL)' <= slots'[s].capacity
<1>0. Requests \ {NULL} = Requests /\ \A k \in Parties : k \in Nat /\ k >= 1
  BY IdsAssumption DEF Parties
<1>1. ASSUME NEW x \in Seats(s, d, NULL)', x[1] # b
      PROVE  x \in Seats(s, d, b) /\ x \in Seats(s, d, NULL)
  BY <1>0, <1>1 DEF Seats
<1>2. ASSUME NEW x \in Seats(s, d, NULL)', x[1] = b
      PROVE  s = t /\ d = e /\ x \in {b} \X (1 .. p)
  <2>1. x \in Requests \X Parties /\ s = t /\ d = e /\ x[2] <= p
    BY <1>0, <1>2 DEF Seats
  <2>2. x = <<b, x[2]>> /\ x[2] \in Nat /\ x[2] >= 1 /\ p \in Nat
    BY <1>0, <1>2, <2>1
  <2>3. x[2] \in 1 .. p
    BY <2>1, <2>2
  <2> QED BY <2>1, <2>2, <2>3
<1>3. CASE s = t /\ d = e
  <2>1. Seats(s, d, NULL)' \subseteq Seats(s, d, b) \cup ({b} \X (1 .. p))
    BY <1>1, <1>2
  <2>2. Occupied(s, d, NULL)' <= Occupied(s, d, b) + p
    BY <1>0, <2>1, SeatsAreAdded
  <2>3. Occupied(s, d, b) + p <= slots[s].capacity /\ s # NULL
    BY <1>3, IdsAssumption
  <2>4. /\ Occupied(s, d, b) \in Nat /\ p \in Nat /\ slots[s].capacity \in Nat
        /\ slots'[s].capacity = slots[s].capacity
    BY <1>0, SeatsFinite DEF SerialState, Inv, TypeOK, SlotRow, Occupied
  <2>5. Occupied(s, d, NULL)' \in Nat
    <3>1. IsFiniteSet(Seats(s, d, NULL)')
      <4>1. IsFiniteSet(Seats(s, d, b)) /\ IsFiniteSet({b} \X (1 .. p))
        BY <1>0, SeatsFinite, PartyOf DEF SerialState
      <4>2. IsFiniteSet(Seats(s, d, b) \cup ({b} \X (1 .. p)))
        BY <4>1, FS_Union
      <4> QED BY <2>1, <4>2, FS_Subset
    <3> QED BY <3>1, FS_CardinalityType DEF Occupied
  <2> QED BY <2>2, <2>3, <2>4, <2>5
<1>4. CASE ~(s = t /\ d = e)
  BY <1>1, <1>2, <1>4, SeatsOnlyLeave
<1> QED BY <1>3, <1>4

Admission ==
  \A s \in Slots, d \in Days :
    Occupied(s, d, NULL)' > Occupied(s, d, NULL)
      => Occupied(s, d, NULL)' <= slots'[s].capacity

LEMMA AdmissionStep ==
  ASSUME SerialState, [Next]_vars
  PROVE  Admission
<1> SUFFICES ASSUME NEW s \in Slots, NEW d \in Days
             PROVE  Occupied(s, d, NULL)' > Occupied(s, d, NULL)
                      => Occupied(s, d, NULL)' <= slots'[s].capacity
  BY DEF Admission
<1>0. bookings \in [Requests -> BookingRow] /\ TypeOK
  BY DEF SerialState, Inv, TypeOK
<1>1. CASE UNCHANGED bookings
  <2>1. Seats(s, d, NULL)' \subseteq Seats(s, d, NULL)
    BY <1>1 DEF Seats
  <2> QED BY <2>1, SeatsOnlyLeave
<1>2. ASSUME NEW r \in Requests, CreateInsert(r), bookings' # bookings
      PROVE  Occupied(s, d, NULL)' > Occupied(s, d, NULL)
               => Occupied(s, d, NULL)' <= slots'[s].capacity
  <2>1. /\ req[r].op = "create" /\ req[r].pc = "write" /\ req[r].booking = r
    BY <1>2 DEF CreateInsert, SerialState, Inv, RequestsAreWellFormed, WellFormed
  <2>2. /\ NextSlot(req[r]) \in OrNull(Slots) /\ NextDay(req[r]) \in Days
        /\ NextParty(req[r]) \in Parties /\ NextSlot(req[r]) = req[r].slot
        /\ NextDay(req[r]) = req[r].day /\ NextParty(req[r]) = req[r].party
    BY <2>1, Payload DEF SerialState
  <2>3. NextSlot(req[r]) # NULL =>
          Occupied(NextSlot(req[r]), NextDay(req[r]), r) + NextParty(req[r])
            <= slots[NextSlot(req[r])].capacity
    BY <2>1, FitsNow
  <2>4. /\ \A c \in Requests \ {r} : bookings'[c] = bookings[c]
        /\ bookings'[r].slot = req[r].slot /\ bookings'[r].day = req[r].day
        /\ bookings'[r].party = req[r].party /\ UNCHANGED slots
    BY <1>0, <1>2 DEF CreateInsert
  <2> QED BY <2>2, <2>3, <2>4, OneBookingAdmitted
<1>3. ASSUME NEW r \in Requests, UpdateWrite(r), bookings' # bookings
      PROVE  Occupied(s, d, NULL)' > Occupied(s, d, NULL)
               => Occupied(s, d, NULL)' <= slots'[s].capacity
  <2>1. req[r].op = "update" /\ req[r].pc = "write" /\ UNCHANGED slots
    BY <1>3 DEF UpdateWrite
  <2>2. /\ NextSlot(req[r]) \in OrNull(Slots) /\ NextDay(req[r]) \in Days
        /\ NextParty(req[r]) \in Parties /\ req[r].booking \in Requests
    BY <2>1, Payload DEF SerialState
  <2>3. NextSlot(req[r]) # NULL =>
          Occupied(NextSlot(req[r]), NextDay(req[r]), req[r].booking) + NextParty(req[r])
            <= slots[NextSlot(req[r])].capacity
    BY <2>1, FitsNow
  <2>4. bookings' = [bookings EXCEPT ![req[r].booking].slot = NextSlot(req[r]),
                                     ![req[r].booking].day = NextDay(req[r]),
                                     ![req[r].booking].party = NextParty(req[r])]
    BY <1>3, UpdateInPlace
  <2>5. /\ \A c \in Requests \ {req[r].booking} : bookings'[c] = bookings[c]
        /\ bookings'[req[r].booking].slot = NextSlot(req[r])
        /\ bookings'[req[r].booking].day = NextDay(req[r])
        /\ bookings'[req[r].booking].party = NextParty(req[r])
    BY <1>0, <2>2, <2>4 DEF BookingRow
  <2> QED BY <2>1, <2>2, <2>3, <2>5, OneBookingAdmitted
<1>4. ASSUME NEW r \in Requests,
             CancelWrite(r) \/ ConfirmWrite(r) \/ DeleteSlotWrite(r) \/ DeleteAttractionWrite(r)
      PROVE  Seats(s, d, NULL)' \subseteq Seats(s, d, NULL)
  <2>1. ASSUME NEW b \in Requests
        PROVE  /\ bookings'[b].slot \in {bookings[b].slot, NULL}
               /\ bookings'[b].day = bookings[b].day /\ bookings'[b].party = bookings[b].party
               /\ bookings'[b].status \in {"pending", "confirmed"}
                    => bookings[b].status \in {"pending", "confirmed"}
    <3>1. CASE CancelWrite(r)
      BY <1>0, <3>1 DEF CancelWrite, BookingRow
    <3>2. CASE ConfirmWrite(r)
      <4>1. bookings[req[r].booking].status = "pending"
        BY <3>2 DEF ConfirmWrite, SerialState, Alone, Current, Served
      <4> QED BY <1>0, <3>2, <4>1 DEF ConfirmWrite, BookingRow
    <3>3. CASE DeleteSlotWrite(r)
      BY <1>0, <3>3 DEF DeleteSlotWrite, ClearSlot, BookingRow
    <3>4. CASE DeleteAttractionWrite(r)
      <4>1. PICK a, t : /\ t \in {bookings[b].slot, NULL}
                        /\ bookings'[b] = [bookings[b] EXCEPT !.attraction = a, !.slot = t]
        BY <3>4 DEF DeleteAttractionWrite
      <4> QED BY <1>0, <4>1 DEF BookingRow
    <3> QED BY <1>4, <3>1, <3>2, <3>3, <3>4
  <2>2. s # NULL
    BY IdsAssumption
  <2> QED BY <2>1, <2>2 DEF Seats
<1> QED BY <1>1, <1>2, <1>3, <1>4, SeatsOnlyLeave, Writers
        DEF Tables, CreateSlot, UpdateSlot, UpdateAttraction, NextMidnight

\* Served one at a time, a request that adds visitors to a slot leaves it within its
\* capacity (booking_service.py, _ensure_capacity).
THEOREM SerialAdmission ==
  ASSUME MaxInFlight = 1
  PROVE  Spec => AdmissionWithinCapacity
<1>1. SerialState /\ [Next]_vars => [Admission]_vars
  BY AdmissionStep
<1> QED BY <1>1, SerialStateHolds, PTL DEF Spec, AdmissionWithinCapacity, Admission

SlotsLost ==
  \A b \in Requests :
    bookings[b].slot # NULL /\ bookings'[b].slot = NULL
      => slots'[bookings[b].slot].state = "gone"

LEMMA SlotsLostStep ==
  ASSUME SerialState, [Next]_vars
  PROVE  SlotsLost
<1> SUFFICES ASSUME NEW b \in Requests, bookings[b].slot # NULL, bookings'[b].slot = NULL
             PROVE  slots'[bookings[b].slot].state = "gone"
  BY DEF SlotsLost
<1>0. /\ bookings \in [Requests -> BookingRow] /\ bookings[b] \in BookingRow
      /\ slots \in [Slots -> SlotRow] /\ bookings[b].slot \in Slots
  BY DEF SerialState, Inv, TypeOK, BookingRow, OrNull
<1>1. PICK r \in Requests : \/ CreateInsert(r) \/ UpdateWrite(r) \/ CancelWrite(r)
                            \/ ConfirmWrite(r) \/ DeleteSlotWrite(r) \/ DeleteAttractionWrite(r)
  BY Writers DEF Tables, CreateSlot, UpdateSlot, UpdateAttraction, NextMidnight
<1>2. ~CreateInsert(r)
  <2>1. CreateInsert(r) => bookings[r].status = "absent"
    BY DEF CreateInsert, SerialState, Inv, RequestsAreWellFormed, WellFormed
  <2> QED BY <1>0, <2>1 DEF CreateInsert, SerialState, AbsentEmpty
<1>3. ~UpdateWrite(r)
  BY <1>0 DEF UpdateWrite, Changed, BookingRow
<1>4. ~CancelWrite(r) /\ ~ConfirmWrite(r)
  BY <1>0 DEF CancelWrite, ConfirmWrite, BookingRow
<1>5. CASE DeleteSlotWrite(r)
  <2>1. req[r].slot \in Slots /\ req[r].children = BookedIn({req[r].slot})
    BY <1>5 DEF DeleteSlotWrite, SerialState, ReadsStand, Served, Stands, DeleteSlotStands, Inv,
                RequestsAreWellFormed, WellFormed
  <2>2. b \in BookedIn({req[r].slot})
    BY <1>0, <1>5, <2>1 DEF DeleteSlotWrite, ClearSlot
  <2>3. bookings[b].slot = req[r].slot
    BY <2>2 DEF BookedIn
  <2> QED BY <1>0, <1>5, <2>1, <2>3 DEF DeleteSlotWrite, SlotRow
<1>6. CASE DeleteAttractionWrite(r)
  <2> DEFINE cascade == {s \in Slots : /\ slots[s].state = "live"
                                       /\ slots[s].attraction = req[r].attraction}
             attractionOf(c) == IF bookings[c].attraction = req[r].attraction
                                  THEN NULL ELSE bookings[c].attraction
             slotOf(c) == IF bookings[c].slot \in cascade THEN NULL ELSE bookings[c].slot
             Cleared(c) == [bookings[c] EXCEPT !.attraction = attractionOf(c),
                                               !.slot = slotOf(c)]
  <2>1. bookings' = [c \in Requests |-> Cleared(c)]
    BY <1>6 DEF DeleteAttractionWrite
  <2>2. slots' = [s \in Slots |-> IF s \in cascade THEN [slots[s] EXCEPT !.state = "gone"]
                                                   ELSE slots[s]]
    BY <1>6 DEF DeleteAttractionWrite
  <2> HIDE DEF cascade, attractionOf
  <2>3. bookings'[b].slot = slotOf(b)
    <3> HIDE DEF slotOf
    <3> QED BY <1>0, <2>1 DEF BookingRow
  <2>4. bookings[b].slot \in cascade
    BY <2>3
  <2> QED BY <1>0, <2>2, <2>4 DEF SlotRow
<1> QED BY <1>1, <1>2, <1>3, <1>4, <1>5, <1>6

\* Served one at a time, a booking loses its slot only when that very slot is deleted
\* (time_slots.py, delete_time_slot).
THEOREM SerialSlotLoss ==
  ASSUME MaxInFlight = 1
  PROVE  Spec => SlotLostOnlyByDeletion
<1>1. SerialState /\ [Next]_vars => [SlotsLost]_vars
  BY SlotsLostStep
<1> QED BY <1>1, SerialStateHolds, PTL DEF Spec, SlotLostOnlyByDeletion, SlotsLost

=============================================================================
