------------------------------ MODULE Bookings ------------------------------
(***************************************************************************)
(* The booking engine: BookingService and the time-slot and attraction     *)
(* handlers that change the rows it reads.  The API is a set of HTTP       *)
(* requests served concurrently, each in a database transaction of its own *)
(* at PostgreSQL's default isolation level, READ COMMITTED.                *)
(*                                                                         *)
(* A request takes one step per database statement that matters: it reads, *)
(* decides on what it read, and at the end writes and commits.  A write    *)
(* takes the row locks it needs and nothing is read after it, so a flush   *)
(* and the commit that follows are one step.  Refusals (400, 403, 404,     *)
(* 409), failed constraints (500) and crashes roll the transaction back:   *)
(* the request ends and the tables keep their contents.                    *)
(*                                                                         *)
(* The elements of Requests name requests.  The booking a create request   *)
(* inserts and the QR token a confirm request issues (both random in the   *)
(* code, never repeated) carry the name of the request that made them, and *)
(* that name is spent; the name of a request that ends in any other way    *)
(* names a later request again.  A request that its first statement        *)
(* refuses has read one row and leaves no trace: it is not represented.    *)
(***************************************************************************)
EXTENDS Integers, FiniteSets

CONSTANTS Requests,         \* names of HTTP requests
          Users,            \* authenticated accounts
          Operators,        \* those with the operator role and is_verified
          Attractions,      \* attraction ids
          OperatorOf,       \* Attraction.operator_id, which no handler changes
          Slots,            \* time-slot ids
          MaxDay,           \* bound on the calendar
          MaxParty,         \* bound on party sizes
          Capacities,       \* the max_capacity values operators choose
          MaxInFlight,      \* bound on requests being served at once
          NULL              \* SQL NULL, and an omitted field of a payload

ASSUME IdsAssumption ==
  /\ NULL \notin Requests \cup Users \cup Attractions \cup Slots \cup Int
  /\ Operators \subseteq Users
  /\ OperatorOf \in [Attractions -> Operators]

ASSUME BoundsAssumption ==
  /\ MaxDay \in Nat \ {0}
  /\ MaxParty \in Nat \ {0}
  /\ Capacities \subseteq Nat \ {0} /\ Capacities # {} /\ IsFiniteSet(Capacities)
  /\ MaxInFlight \in Nat \ {0}

VARIABLES today,        \* datetime.now(timezone.utc).date()
          attractions,  \* table attractions
          slots,        \* table time_slots
          bookings,     \* table bookings
          req           \* what each request has read and where it stands

vars == <<today, attractions, slots, bookings, req>>

Days == 1 .. MaxDay
Parties == 1 .. MaxParty
OrNull(S) == S \cup {NULL}

(***************************************************************************)
(* Rows.  An attraction is open when it is APPROVED and is_available: the  *)
(* code tests the two together.  It is priced when entry_fee_ghs is set.   *)
(* No handler sets BookingStatus.COMPLETED.                                *)
(***************************************************************************)
AttractionRow == [live : BOOLEAN, open : BOOLEAN, priced : BOOLEAN]

SlotRow == [state : {"unborn", "live", "gone"}, attraction : OrNull(Attractions),
            capacity : Nat, active : BOOLEAN]

NoSlot == [state |-> "unborn", attraction |-> NULL, capacity |-> 0, active |-> FALSE]

BookingStatus == {"absent", "pending", "confirmed", "cancelled"}

BookingRow == [status : BookingStatus, tourist : OrNull(Users),
               attraction : OrNull(Attractions), slot : OrNull(Slots),
               day : OrNull(Days), party : OrNull(Parties), qr : OrNull(Requests)]

NoBooking == [status |-> "absent", tourist |-> NULL, attraction |-> NULL,
              slot |-> NULL, day |-> NULL, party |-> NULL, qr |-> NULL]

(***************************************************************************)
(* A request: its operation, the statement it executes next, its payload,  *)
(* the booking row and the capacity it has loaded, and for the deletion of *)
(* a slot the child bookings loaded with it.                               *)
(***************************************************************************)
Operations == {"create", "update", "cancel", "confirm", "deleteSlot", "deleteAttraction"}

RequestState ==
  [pc : {"idle", "slotless", "slot", "capacity", "attraction", "write", "spent"},
   op : Operations \cup {"none"}, user : OrNull(Users), booking : OrNull(Requests),
   attraction : OrNull(Attractions), slot : OrNull(Slots), day : OrNull(Days),
   party : OrNull(Parties), seen : BookingRow, capacity : Nat,
   children : SUBSET Requests]

Idle == [pc |-> "idle", op |-> "none", user |-> NULL, booking |-> NULL,
         attraction |-> NULL, slot |-> NULL, day |-> NULL, party |-> NULL,
         seen |-> NoBooking, capacity |-> 0, children |-> {}]

Spent == [Idle EXCEPT !.pc = "spent"]

InFlight == {r \in Requests : req[r].pc \notin {"idle", "spent"}}

\* The server accepts one more request.
HasRoom == Cardinality(InFlight) < MaxInFlight

\* Request r moves on to the state q, or ends.
Proceed(r, q) == req' = [req EXCEPT ![r] = q]
Finish(r) == Proceed(r, Idle)
FinishSpent(r) == Proceed(r, Spent)

Tables == <<today, attractions, slots, bookings>>

Init ==
  /\ today = 1
  /\ attractions \in [Attractions -> {[live |-> TRUE, open |-> FALSE, priced |-> p] :
                                        p \in BOOLEAN}]
  /\ slots = [s \in Slots |-> NoSlot]
  /\ bookings = [b \in Requests |-> NoBooking]
  /\ req = [r \in Requests |-> Idle]

-----------------------------------------------------------------------------
(***************************************************************************)
(* Creating and updating a booking: what the two share.                    *)
(***************************************************************************)

\* _get_approved_attraction and _validate_visit_date.
ApprovedAttraction(a) == attractions[a].live /\ attractions[a].open
ValidVisitDate(d) == d >= today

\* The slot, day and party the booking would have: the payload's, or for the
\* fields an update omits the ones of the row it loaded.
NextSlot(q) == IF q.slot # NULL THEN q.slot ELSE q.seen.slot
NextDay(q) == IF q.day # NULL THEN q.day ELSE q.seen.day
NextParty(q) == IF q.party # NULL THEN q.party ELSE q.seen.party

\* Mutant: only confirmed bookings take seats.
ConfirmedSeats(s, d, b) ==
  {seat \in (Requests \ {b}) \X Parties :
     LET row == bookings[seat[1]]
     IN  /\ row.slot = s /\ row.day = d /\ row.status = "confirmed"
         /\ seat[2] <= row.party}

\* The seats taken in slot s on day d, booking b left out: those of a booking are
\* numbered, so that their number is the sum of the party sizes.
Seats(s, d, b) ==
  {seat \in (Requests \ {b}) \X Parties :
     LET row == bookings[seat[1]]
     IN  /\ row.slot = s /\ row.day = d /\ row.status \in {"pending", "confirmed"}
         /\ seat[2] <= row.party}

\* sum_party_size_for_slot.
Occupied(s, d, b) == Cardinality(Seats(s, d, b))

\* Mutant: the slot may belong to any attraction.
ValidAnywhere(s, a) == slots[s].state = "live" /\ slots[s].active

ValidSlot(s, a) == /\ slots[s].state = "live"
                   /\ slots[s].attraction = a
                   /\ slots[s].active

\* _get_valid_time_slot: the row stays in the session with the capacity it had.
GetSlot(r) ==
  /\ req[r].pc = "slot"
  /\ IF ValidSlot(NextSlot(req[r]), req[r].attraction)
       THEN Proceed(r, [req[r] EXCEPT !.pc = "capacity",
                                      !.capacity = slots[NextSlot(req[r])].capacity])
       ELSE Finish(r)
  /\ UNCHANGED Tables

\* Mutants: a slot admits a party until it is full; the party alone is compared
\* with the capacity; a request waits until there is room.
EnsureNotFull(r) ==
  /\ req[r].pc = "capacity"
  /\ LET q == req[r]
     IN  IF Occupied(NextSlot(q), NextDay(q), q.booking) < q.capacity
           THEN Proceed(r, [q EXCEPT !.pc = "write"])
           ELSE Finish(r)
  /\ UNCHANGED Tables

EnsurePartyFits(r) ==
  /\ req[r].pc = "capacity"
  /\ IF NextParty(req[r]) <= req[r].capacity
       THEN Proceed(r, [req[r] EXCEPT !.pc = "write"])
       ELSE Finish(r)
  /\ UNCHANGED Tables

AwaitCapacity(r) ==
  /\ req[r].pc = "capacity"
  /\ LET q == req[r]
     IN  /\ Occupied(NextSlot(q), NextDay(q), q.booking) + NextParty(q) <= q.capacity
         /\ Proceed(r, [q EXCEPT !.pc = "write"])
  /\ UNCHANGED Tables

\* _ensure_capacity: the sum is read now, the capacity was read before.
EnsureCapacity(r) ==
  /\ req[r].pc = "capacity"
  /\ LET q == req[r]
     IN  IF Occupied(NextSlot(q), NextDay(q), q.booking) + NextParty(q) <= q.capacity
           THEN Proceed(r, [q EXCEPT !.pc = "write"])
           ELSE Finish(r)
  /\ UNCHANGED Tables

\* create_booking loads the attraction and validates the date.  A booking
\* without a slot goes on to look for one it should have named.  A request that
\* names no amount for an attraction without a fee is refused: no later
\* statement can save it, so it may end here.
CreateGetAttraction(r) ==
  /\ req[r].pc = "idle" /\ HasRoom
  /\ \E u \in Users, a \in Attractions, s \in OrNull(Slots), d \in Days,
        p \in Parties, amount \in BOOLEAN :
       /\ ApprovedAttraction(a)
       /\ ValidVisitDate(d)
       /\ amount \/ attractions[a].priced
       /\ Proceed(r, [Idle EXCEPT
            !.pc = IF s # NULL THEN "slot"
                   ELSE IF attractions[a].priced THEN "slotless" ELSE "write",
            !.op = "create", !.user = u, !.booking = r,
            !.attraction = a, !.slot = s, !.day = d, !.party = p])
  /\ UNCHANGED Tables

\* A priced attraction with an active slot needs a slot.
CreateWithoutSlot(r) ==
  /\ req[r].pc = "slotless"
  /\ IF \E s \in Slots : ValidSlot(s, req[r].attraction)
       THEN Finish(r)
       ELSE Proceed(r, [req[r] EXCEPT !.pc = "write"])
  /\ UNCHANGED Tables

\* The INSERT, with its foreign keys, and the commit.
CreateInsert(r) ==
  /\ req[r].pc = "write" /\ req[r].op = "create"
  /\ LET q == req[r]
         foreignKeys == /\ attractions[q.attraction].live
                        /\ q.slot # NULL => slots[q.slot].state = "live"
         row == [status |-> "pending", tourist |-> q.user, attraction |-> q.attraction,
                 slot |-> q.slot, day |-> q.day, party |-> q.party, qr |-> NULL]
     IN  /\ bookings' = IF foreignKeys THEN [bookings EXCEPT ![r] = row] ELSE bookings
         /\ IF foreignKeys THEN FinishSpent(r) ELSE Finish(r)
  /\ UNCHANGED <<today, attractions, slots>>

\* Mutant: the status of the booking is not looked at.
UpdateGetAnyBooking(r) ==
  /\ req[r].pc = "idle" /\ HasRoom
  /\ \E u \in Users, b \in Requests, s \in OrNull(Slots), d \in OrNull(Days),
        p \in OrNull(Parties) :
       /\ bookings[b].status # "absent" /\ bookings[b].tourist = u
       /\ d # NULL => ValidVisitDate(d)
       /\ Proceed(r, [Idle EXCEPT
            !.pc = IF s # NULL \/ bookings[b].slot # NULL THEN "slot" ELSE "write",
            !.op = "update", !.user = u, !.booking = b, !.seen = bookings[b],
            !.attraction = bookings[b].attraction,
            !.slot = s, !.day = d, !.party = p])
  /\ UNCHANGED Tables

\* update_booking loads the tourist's own booking, which must be pending.
UpdateGetBooking(r) ==
  /\ req[r].pc = "idle" /\ HasRoom
  /\ \E u \in Users, b \in Requests, s \in OrNull(Slots), d \in OrNull(Days),
        p \in OrNull(Parties) :
       /\ bookings[b].status = "pending" /\ bookings[b].tourist = u
       /\ d # NULL => ValidVisitDate(d)
       /\ Proceed(r, [Idle EXCEPT
            !.pc = IF s # NULL \/ bookings[b].slot # NULL THEN "slot" ELSE "write",
            !.op = "update", !.user = u, !.booking = b, !.seen = bookings[b],
            !.attraction = bookings[b].attraction,
            !.slot = s, !.day = d, !.party = p])
  /\ UNCHANGED Tables

\* The UPDATE names the columns that differ from the row loaded, and no other
\* condition than the booking's id.
Changed(new, old, current) == IF new # NULL /\ new # old THEN new ELSE current

\* Mutants: the slot is written although the payload omits it; the UPDATE writes
\* every column of the row loaded.
UpdateSlotAlways(r) ==
  /\ req[r].pc = "write" /\ req[r].op = "update"
  /\ LET q == req[r]
     IN  bookings' = [bookings EXCEPT
           ![q.booking].slot = q.slot,
           ![q.booking].day = Changed(q.day, q.seen.day, @),
           ![q.booking].party = Changed(q.party, q.seen.party, @)]
  /\ Finish(r)
  /\ UNCHANGED <<today, attractions, slots>>

UpdateWholeRow(r) ==
  /\ req[r].pc = "write" /\ req[r].op = "update"
  /\ LET q == req[r]
     IN  bookings' = [bookings EXCEPT ![q.booking] =
           [q.seen EXCEPT !.slot = NextSlot(q), !.day = NextDay(q), !.party = NextParty(q)]]
  /\ Finish(r)
  /\ UNCHANGED <<today, attractions, slots>>

\* Mutant: the new party is not written.
UpdateForgetsParty(r) ==
  /\ req[r].pc = "write" /\ req[r].op = "update"
  /\ LET q == req[r]
     IN  bookings' = [bookings EXCEPT
                       ![q.booking].slot = Changed(q.slot, q.seen.slot, @),
                       ![q.booking].day = Changed(q.day, q.seen.day, @)]
  /\ Finish(r)
  /\ UNCHANGED <<today, attractions, slots>>

UpdateWrite(r) ==
  /\ req[r].pc = "write" /\ req[r].op = "update"
  /\ LET q == req[r]
         writesSlot == q.slot # NULL /\ q.slot # q.seen.slot
         foreignKeys == writesSlot => slots[q.slot].state = "live"
     IN  bookings' = IF foreignKeys
           THEN [bookings EXCEPT
                  ![q.booking].slot = Changed(q.slot, q.seen.slot, @),
                  ![q.booking].day = Changed(q.day, q.seen.day, @),
                  ![q.booking].party = Changed(q.party, q.seen.party, @)]
           ELSE bookings
  /\ Finish(r)
  /\ UNCHANGED <<today, attractions, slots>>

-----------------------------------------------------------------------------
(***************************************************************************)
(* Cancelling and confirming a booking.                                    *)
(***************************************************************************)

\* cancel_booking loads the tourist's own booking; a cancelled one is returned
\* as it is.
CancelGetBooking(r) ==
  /\ req[r].pc = "idle" /\ HasRoom
  /\ \E u \in Users, b \in Requests :
       /\ bookings[b].status \in {"pending", "confirmed"} /\ bookings[b].tourist = u
       /\ Proceed(r, [Idle EXCEPT !.pc = "write", !.op = "cancel", !.user = u,
                                  !.booking = b, !.seen = bookings[b]])
  /\ UNCHANGED Tables

CancelWrite(r) ==
  /\ req[r].pc = "write" /\ req[r].op = "cancel"
  /\ bookings' = [bookings EXCEPT ![req[r].booking].status = "cancelled"]
  /\ Finish(r)
  /\ UNCHANGED <<today, attractions, slots>>

\* confirm_booking loads the booking, then its attraction ...
ConfirmGetBooking(r) ==
  /\ req[r].pc = "idle" /\ HasRoom
  /\ \E u \in Operators, b \in Requests :
       /\ bookings[b].status # "absent"
       /\ Proceed(r, [Idle EXCEPT !.pc = "attraction", !.op = "confirm", !.user = u,
                                  !.booking = b, !.seen = bookings[b]])
  /\ UNCHANGED Tables

\* Mutant: only a cancelled booking is not confirmed.
ConfirmUncancelled(r) ==
  /\ req[r].pc = "attraction"
  /\ LET q == req[r]
         a == q.seen.attraction
     IN  IF /\ a # NULL /\ ApprovedAttraction(a)
            /\ OperatorOf[a] = q.user
            /\ q.seen.status # "cancelled"
           THEN Proceed(r, [q EXCEPT !.pc = "write"])
           ELSE Finish(r)
  /\ UNCHANGED Tables

\* ... which must be open and the operator's own; the status tested last is the
\* one loaded first.
ConfirmGetAttraction(r) ==
  /\ req[r].pc = "attraction"
  /\ LET q == req[r]
         a == q.seen.attraction
     IN  IF /\ a # NULL /\ ApprovedAttraction(a)
            /\ OperatorOf[a] = q.user
            /\ q.seen.status = "pending"
           THEN Proceed(r, [q EXCEPT !.pc = "write"])
           ELSE Finish(r)
  /\ UNCHANGED Tables

\* Mutant: no token is issued.
ConfirmWithoutToken(r) ==
  /\ req[r].pc = "write" /\ req[r].op = "confirm"
  /\ bookings' = [bookings EXCEPT ![req[r].booking].status = "confirmed"]
  /\ FinishSpent(r)
  /\ UNCHANGED <<today, attractions, slots>>

ConfirmWrite(r) ==
  /\ req[r].pc = "write" /\ req[r].op = "confirm"
  /\ bookings' = [bookings EXCEPT ![req[r].booking].status = "confirmed",
                                  ![req[r].booking].qr = r]
  /\ FinishSpent(r)
  /\ UNCHANGED <<today, attractions, slots>>

-----------------------------------------------------------------------------
(***************************************************************************)
(* Time slots and attractions.                                             *)
(***************************************************************************)

\* UPDATE bookings SET time_slot_id = NULL for the bookings in lost.
ClearSlot(lost) == [b \in Requests |-> IF b \in lost THEN [bookings[b] EXCEPT !.slot = NULL]
                                                     ELSE bookings[b]]

BookedIn(S) == {b \in Requests : bookings[b].slot \in S}

\* create_time_slot: one read that nothing can invalidate, one insert.
CreateSlot ==
  /\ HasRoom
  /\ \E s \in Slots, a \in Attractions, c \in Capacities, active \in BOOLEAN :
       /\ slots[s].state = "unborn" /\ attractions[a].live
       /\ slots' = [slots EXCEPT ![s] = [state |-> "live", attraction |-> a,
                                         capacity |-> c, active |-> active]]
  /\ UNCHANGED <<today, attractions, bookings, req>>

\* update_time_slot: sets the columns of the payload without looking at bookings.
UpdateSlot ==
  /\ HasRoom
  /\ \E s \in Slots, c \in Capacities, active \in BOOLEAN :
       /\ slots[s].state = "live"
       /\ slots' = [slots EXCEPT ![s].capacity = c, ![s].active = active]
  /\ UNCHANGED <<today, attractions, bookings, req>>

\* delete_time_slot: session.delete loads the bookings of the slot ...
DeleteSlotLoad(r) ==
  /\ req[r].pc = "idle" /\ HasRoom
  /\ \E u \in Operators, s \in Slots :
       /\ slots[s].state = "live" /\ OperatorOf[slots[s].attraction] = u
       /\ Proceed(r, [Idle EXCEPT !.pc = "write", !.op = "deleteSlot", !.user = u,
                                  !.slot = s, !.children = BookedIn({s})])
  /\ UNCHANGED Tables

\* Mutant: the foreign key without ON DELETE SET NULL.
DeleteSlotOfLoaded(r) ==
  /\ req[r].pc = "write" /\ req[r].op = "deleteSlot"
  /\ bookings' = ClearSlot(req[r].children)
  /\ slots' = [slots EXCEPT ![req[r].slot].state = "gone"]
  /\ Finish(r)
  /\ UNCHANGED <<today, attractions>>

\* ... and the flush sets time_slot_id of each of them to NULL, by booking id,
\* before the DELETE, whose ON DELETE SET NULL clears the bookings made since.
DeleteSlotWrite(r) ==
  /\ req[r].pc = "write" /\ req[r].op = "deleteSlot"
  /\ bookings' = ClearSlot(req[r].children \cup BookedIn({req[r].slot}))
  /\ slots' = [slots EXCEPT ![req[r].slot].state = "gone"]
  /\ Finish(r)
  /\ UNCHANGED <<today, attractions>>

\* delete_attraction by its operator or an administrator: the flush loads the
\* slots first, and fails when there are any, for it would set their
\* attraction_id, a NOT NULL column, to NULL.
DeleteAttractionLoad(r) ==
  /\ req[r].pc = "idle" /\ HasRoom
  /\ \E a \in Attractions :
       /\ attractions[a].live
       /\ \A s \in Slots : ~(slots[s].state = "live" /\ slots[s].attraction = a)
       /\ Proceed(r, [Idle EXCEPT !.pc = "write", !.op = "deleteAttraction",
                                  !.attraction = a])
  /\ UNCHANGED Tables

\* The DELETE cascades to slots created since and clears the bookings' columns.
DeleteAttractionWrite(r) ==
  /\ req[r].pc = "write" /\ req[r].op = "deleteAttraction"
  /\ LET a == req[r].attraction
         cascade == {s \in Slots : slots[s].state = "live" /\ slots[s].attraction = a}
     IN  /\ attractions' = [attractions EXCEPT ![a].live = FALSE, ![a].open = FALSE]
         /\ slots' = [s \in Slots |-> IF s \in cascade
                                        THEN [slots[s] EXCEPT !.state = "gone"]
                                        ELSE slots[s]]
         /\ bookings' = [b \in Requests |->
              [bookings[b] EXCEPT
                 !.attraction = IF @ = a THEN NULL ELSE @,
                 !.slot = IF @ \in cascade THEN NULL ELSE @]]
  /\ Finish(r)
  /\ UNCHANGED today

\* set_approval_status and update_attraction: approval, availability and the fee,
\* which an update can set and never unset.
UpdateAttraction ==
  /\ HasRoom
  /\ \E a \in Attractions, open, priced \in BOOLEAN :
       /\ attractions[a].live
       /\ attractions[a].priced => priced
       /\ attractions' = [attractions EXCEPT ![a].open = open, ![a].priced = priced]
  /\ UNCHANGED <<today, slots, bookings, req>>

\* Midnight passes, whatever requests are being served.
NextMidnight ==
  /\ today < MaxDay
  /\ today' = today + 1
  /\ UNCHANGED <<attractions, slots, bookings, req>>

\* The request fails or the process dies: get_db rolls back.
Crash(r) == r \in InFlight /\ Finish(r) /\ UNCHANGED Tables

-----------------------------------------------------------------------------
\* The next statement of a request that has begun.
Advance(r) ==
  \/ GetSlot(r) \/ EnsureCapacity(r)
  \/ CreateWithoutSlot(r) \/ CreateInsert(r)
  \/ UpdateWrite(r)
  \/ CancelWrite(r)
  \/ ConfirmGetAttraction(r) \/ ConfirmWrite(r)
  \/ DeleteSlotWrite(r) \/ DeleteAttractionWrite(r)

Begin(r) ==
  \/ CreateGetAttraction(r)
  \/ UpdateGetBooking(r)
  \/ CancelGetBooking(r)
  \/ ConfirmGetBooking(r)
  \/ DeleteSlotLoad(r)
  \/ DeleteAttractionLoad(r)

Next ==
  \/ \E r \in Requests : Begin(r) \/ Advance(r) \/ Crash(r)
  \/ CreateSlot \/ UpdateSlot \/ UpdateAttraction \/ NextMidnight

Spec == Init /\ [][Next]_vars

\* A request that has begun is not abandoned by the event loop: its next
\* statement is executed in the end.  Nothing has to begin, and nothing crashes
\* by necessity.
FairSpec == Spec /\ \A r \in Requests : WF_vars(Advance(r))

-----------------------------------------------------------------------------
(***************************************************************************)
(* Properties.                                                             *)
(***************************************************************************)

\* Every variable has the type its declaration gives it: the rows of the three
\* tables and the state of each request.
TypeOK ==
  /\ today \in Days
  /\ attractions \in [Attractions -> AttractionRow]
  /\ slots \in [Slots -> SlotRow]
  /\ bookings \in [Requests -> BookingRow]
  /\ req \in [Requests -> RequestState]

\* A booking that names a slot names one that exists, and one of the booking's
\* own attraction: create and update validate the slot in one statement and use
\* it in a later one, while slots and attractions are deleted by other requests
\* (booking_service.py, _get_valid_time_slot; time_slots.py, delete_time_slot).
SlotOfItsAttraction ==
  \A b \in Requests : bookings[b].slot # NULL =>
    /\ bookings[b].attraction # NULL
    /\ slots[bookings[b].slot].state = "live"
    /\ slots[bookings[b].slot].attraction = bookings[b].attraction

\* A booking that still waits for its confirmation carries no entry token, and
\* a confirmed one carries a token that a confirmation issued, whatever update,
\* cancellation or second confirmation ran at the same time
\* (booking_service.py, confirm_booking).
TokenMatchesStatus ==
  \A b \in Requests :
    /\ bookings[b].status \in {"absent", "pending"} => bookings[b].qr = NULL
    /\ bookings[b].status = "confirmed" => bookings[b].qr # NULL

\* What holds between the statements of a request, whatever the others commit:
\* slots belong to attractions, and disappear with them ...
SlotsHaveAttractions ==
  \A s \in Slots :
    /\ slots[s].state # "unborn" => slots[s].attraction \in Attractions
    /\ slots[s].state = "live" => attractions[slots[s].attraction].live

\* ... a request's step fits its operation, and a name not spent has no booking;
WellFormed(r) ==
  /\ req[r].pc \in {"slot", "capacity"} =>
       req[r].op \in {"create", "update"} /\ NextSlot(req[r]) # NULL
  /\ req[r].pc = "slotless" => req[r].op = "create" /\ req[r].slot = NULL
  /\ req[r].pc = "attraction" => req[r].op = "confirm"
  /\ req[r].pc \in {"idle", "spent"} => req[r].op = "none"
  /\ req[r].pc = "write" => req[r].op \in Operations
  /\ bookings[r].status # "absent" => req[r].pc = "spent"
  /\ req[r].op = "create" =>
       /\ req[r].booking = r /\ req[r].seen = NoBooking
       /\ req[r].user \in Users /\ req[r].attraction \in Attractions
       /\ req[r].day \in Days /\ req[r].party \in Parties
  /\ req[r].op \in {"update", "cancel", "confirm"} =>
       req[r].booking \in Requests /\ bookings[req[r].booking].status # "absent"
  /\ req[r].op = "deleteSlot" =>
       req[r].slot \in Slots /\ slots[req[r].slot].state # "unborn"
  /\ req[r].op = "deleteAttraction" => req[r].attraction \in Attractions

RequestsAreWellFormed == \A r \in Requests : WellFormed(r)

\* ... the attraction an update loaded is still the booking's unless it was
\* deleted; and a slot that passed _get_valid_time_slot stays a slot of the
\* attraction it was validated for, even after its deletion.
RowsStand(r) ==
  /\ req[r].op = "update" =>
       LET a == bookings[req[r].booking].attraction
       IN  a # req[r].attraction =>
             a = NULL /\ ~attractions[req[r].attraction].live
  /\ (/\ req[r].op \in {"create", "update"}
      /\ req[r].pc \in {"capacity", "write"}
      /\ req[r].slot # NULL)
     => /\ slots[req[r].slot].state # "unborn"
        /\ slots[req[r].slot].attraction = req[r].attraction

LoadedRowsStand == \A r \in Requests : RowsStand(r)

\* The inductive invariant of the proofs.
Inv == /\ TypeOK
       /\ SlotsHaveAttractions
       /\ RequestsAreWellFormed
       /\ LoadedRowsStand
       /\ SlotOfItsAttraction
       /\ TokenMatchesStatus

\* A booking never returns to an earlier stage: once it has left the pending
\* state it is never pending again, it never vanishes, and it keeps its tourist;
\* its attraction can only be lost, with the attraction.
Lifecycle ==
  [][\A b \in Requests :
       bookings[b].status # "absent" =>
         /\ bookings'[b].status # "absent"
         /\ bookings'[b].status = "pending" => bookings[b].status = "pending"
         /\ bookings'[b].tourist = bookings[b].tourist
         /\ bookings'[b].attraction \in {bookings[b].attraction, NULL}]_vars

\* No slot and day holds more visitors than the capacity of the slot, the promise
\* of _ensure_capacity.
NoOverbooking ==
  \A s \in Slots, d \in Days :
    slots[s].state = "live" => Occupied(s, d, NULL) <= slots[s].capacity

\* A step that adds visitors to a slot leaves it within the capacity it has at
\* that moment, even when the operator has lowered the capacity before.
AdmissionWithinCapacity ==
  [][\A s \in Slots, d \in Days :
       Occupied(s, d, NULL)' > Occupied(s, d, NULL)
         => Occupied(s, d, NULL)' <= slots'[s].capacity]_vars

\* Only a pending booking becomes confirmed, so that it is confirmed once and
\* keeps the entry token it was given (the 409 of confirm_booking), when requests
\* are served one at a time: the status tested is the one loaded.
ConfirmOnlyPending ==
  [][\A b \in Requests :
       (/\ bookings'[b].status = "confirmed"
        /\ bookings[b].status # "confirmed" \/ bookings'[b].qr # bookings[b].qr)
       => bookings[b].status = "pending"]_vars

\* The day, the party and the slot a booking has chosen change only while it is
\* pending (the 409 of update_booking), when requests are served one at a time;
\* losing a deleted slot is no such change.
UpdateOnlyPending ==
  [][\A b \in Requests :
       (\/ bookings'[b].day # bookings[b].day
        \/ bookings'[b].party # bookings[b].party
        \/ bookings'[b].slot \notin {bookings[b].slot, NULL})
       => bookings[b].status \in {"absent", "pending"}]_vars

\* A booking loses its slot only when that very slot is deleted (time_slots.py,
\* delete_time_slot), when requests are served one at a time: the bookings cleared by
\* id are the ones loaded, and one of them may have moved to another slot since.
SlotLostOnlyByDeletion ==
  [][\A b \in Requests :
       bookings[b].slot # NULL /\ bookings'[b].slot = NULL
         => slots'[bookings[b].slot].state = "gone"]_vars

\* The days that requests now being served have asked for, all of them accepted by
\* _validate_visit_date when they began.
AskedDays == {req[r].day : r \in InFlight} \ {NULL}

Ledger == INSTANCE BookingLedger WITH
            BookingIds <- Requests, Tokens <- Requests, asked <- AskedDays

\* Served one at a time, requests make exactly the entries of the ledger: each
\* commit is one indivisible operation on the tables, for a day that had not passed
\* when the request asked for it, and every other step of a request asks for a day,
\* gives it up or is invisible.  Midnights may pass at any moment of a request
\* (booking_service.py, _validate_visit_date and create_booking).
ImplementsLedger == Ledger!Spec

\* Every request that has begun is answered.
EveryRequestAnswered ==
  \A r \in Requests : r \in InFlight ~> r \notin InFlight

=============================================================================
