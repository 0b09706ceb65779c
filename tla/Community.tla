------------------------------- MODULE Community -------------------------------
(***************************************************************************)
(* What is attached to an attraction: favourites, reviews and schedules,   *)
(* and what becomes of them when it is deleted.                            *)
(*                                                                         *)
(* As in Bookings, a request takes one step per statement it decides on    *)
(* and one for its write and the commit.  The row a request inserts has    *)
(* the name of the request, which is then spent.  A request its first      *)
(* statement refuses is not represented.                                   *)
(***************************************************************************)
EXTENDS FiniteSets, Integers

CONSTANTS Requests,     \* names of HTTP requests
          Users,        \* authenticated accounts
          Attractions,  \* attraction ids
          Bookings,     \* bookings already made
          TouristOf,    \* Booking.tourist_id
          AttractionOf, \* the attraction a booking was made for
          MaxInFlight,  \* bound on requests being served at once
          NULL          \* SQL NULL, and no such row

ASSUME ConstantsAssumption ==
  /\ NULL \notin Requests \cup Users \cup Attractions \cup Bookings
  /\ TouristOf \in [Bookings -> Users]
  /\ AttractionOf \in [Bookings -> Attractions]
  /\ MaxInFlight \in Nat \ {0}

VARIABLES live,       \* table attractions
          favorites,  \* table favorites
          reviews,    \* table reviews
          schedules,  \* table schedules
          req         \* the requests

vars == <<live, favorites, reviews, schedules, req>>

OrNull(S) == S \cup {NULL}

FavoriteRow == [user : OrNull(Users), attraction : OrNull(Attractions)]
NoFavorite == [user |-> NULL, attraction |-> NULL]

\* target_id has no foreign key; is_verified_booking says whether there is a
\* booking_id, for bookings are never deleted.
ReviewRow == [present : BOOLEAN, reviewer : OrNull(Users), target : OrNull(Attractions),
              attraction : OrNull(Attractions), booking : OrNull(Bookings)]
NoReview == [present |-> FALSE, reviewer |-> NULL, target |-> NULL, attraction |-> NULL,
             booking |-> NULL]

\* Of the hours only is_open is told apart.
ScheduleRow == [attraction : OrNull(Attractions), open : BOOLEAN]
NoSchedule == [attraction |-> NULL, open |-> FALSE]

RequestState ==
  [pc : {"idle", "existing", "favorite", "unfavorite", "booking", "review", "schedule",
         "owner", "change", "delete", "deleteAttraction", "spent"},
   user : OrNull(Users), attraction : OrNull(Attractions), booking : OrNull(Bookings),
   row : OrNull(Requests), open : BOOLEAN, deletes : BOOLEAN]

Idle == [pc |-> "idle", user |-> NULL, attraction |-> NULL, booking |-> NULL,
         row |-> NULL, open |-> FALSE, deletes |-> FALSE]

Proceed(r, q) == req' = [req EXCEPT ![r] = q]
Goto(r, pc) == Proceed(r, [req[r] EXCEPT !.pc = pc])
Finish(r) == Proceed(r, Idle)
FinishSpent(r) == Proceed(r, [Idle EXCEPT !.pc = "spent"])

InFlight == {r \in Requests : req[r].pc \notin {"idle", "spent"}}

Begins(r) == req[r].pc = "idle" /\ Cardinality(InFlight) < MaxInFlight

Tables == <<live, favorites, reviews, schedules>>

Init ==
  /\ live = Attractions
  /\ favorites = [n \in Requests |-> NoFavorite]
  /\ reviews = [n \in Requests |-> NoReview]
  /\ schedules = [n \in Requests |-> NoSchedule]
  /\ req = [r \in Requests |-> Idle]

-----------------------------------------------------------------------------
(***************************************************************************)
(* Favourites.                                                             *)
(***************************************************************************)
Favored(u, a) == \E n \in Requests : favorites[n] = [user |-> u, attraction |-> a]

FavoriteGetAttraction(r) ==
  /\ Begins(r)
  /\ \E u \in Users, a \in live :
       Proceed(r, [Idle EXCEPT !.pc = "existing", !.user = u, !.attraction = a])
  /\ UNCHANGED Tables

FavoriteGetExisting(r) ==
  /\ req[r].pc = "existing"
  /\ IF Favored(req[r].user, req[r].attraction) THEN Finish(r) ELSE Goto(r, "favorite")
  /\ UNCHANGED Tables

\* Mutant: the pair is not unique.
FavoriteInsertAgain(r) ==
  /\ req[r].pc = "favorite"
  /\ IF req[r].attraction \in live
       THEN /\ favorites' = [favorites EXCEPT ![r] =
                 [user |-> req[r].user, attraction |-> req[r].attraction]]
            /\ FinishSpent(r)
       ELSE Finish(r) /\ UNCHANGED favorites
  /\ UNCHANGED <<live, reviews, schedules>>

\* The INSERT, with the foreign key and uq_user_attraction_favorite.
FavoriteInsert(r) ==
  /\ req[r].pc = "favorite"
  /\ LET u == req[r].user
         a == req[r].attraction
     IN  IF a \in live /\ ~Favored(u, a)
           THEN /\ favorites' = [favorites EXCEPT ![r] = [user |-> u, attraction |-> a]]
                /\ FinishSpent(r)
           ELSE Finish(r) /\ UNCHANGED favorites
  /\ UNCHANGED <<live, reviews, schedules>>

\* delete_favorite loads the user's own favourite ...
FavoriteGet(r) ==
  /\ Begins(r)
  /\ \E n \in Requests :
       /\ favorites[n].user # NULL
       /\ Proceed(r, [Idle EXCEPT !.pc = "unfavorite", !.user = favorites[n].user, !.row = n])
  /\ UNCHANGED Tables

\* ... and deletes it by its id, when it is still there.
FavoriteDelete(r) ==
  /\ req[r].pc = "unfavorite"
  /\ favorites' = [favorites EXCEPT ![req[r].row] = NoFavorite]
  /\ Finish(r)
  /\ UNCHANGED <<live, reviews, schedules>>

-----------------------------------------------------------------------------
(***************************************************************************)
(* Reviews.                                                                *)
(***************************************************************************)

\* Booking.attraction_id: ON DELETE SET NULL.
BookedAttraction(b) == IF AttractionOf[b] \in live THEN AttractionOf[b] ELSE NULL

ReviewGetAttraction(r) ==
  /\ Begins(r)
  /\ \E u \in Users, a \in live, b \in OrNull(Bookings) :
       Proceed(r, [Idle EXCEPT !.pc = IF b = NULL THEN "review" ELSE "booking",
                               !.user = u, !.attraction = a, !.booking = b])
  /\ UNCHANGED Tables

\* Mutant: the booking may be for any attraction.
ReviewGetAnyBooking(r) ==
  /\ req[r].pc = "booking"
  /\ IF TouristOf[req[r].booking] = req[r].user THEN Goto(r, "review") ELSE Finish(r)
  /\ UNCHANGED Tables

\* The booking is the reviewer's own and for this attraction; its status is not looked
\* at.
ReviewGetBooking(r) ==
  /\ req[r].pc = "booking"
  /\ IF /\ TouristOf[req[r].booking] = req[r].user
        /\ BookedAttraction(req[r].booking) = req[r].attraction
       THEN Goto(r, "review") ELSE Finish(r)
  /\ UNCHANGED Tables

Reviewed(b) == \E n \in Requests : reviews[n].present /\ reviews[n].booking = b

\* Mutant: booking_id is not unique.
ReviewInsertAgain(r) ==
  /\ req[r].pc = "review"
  /\ LET q == req[r]
     IN  IF q.attraction \in live
           THEN /\ reviews' = [reviews EXCEPT ![r] =
                     [present |-> TRUE, reviewer |-> q.user, target |-> q.attraction,
                      attraction |-> q.attraction, booking |-> q.booking]]
                /\ FinishSpent(r)
           ELSE Finish(r) /\ UNCHANGED reviews
  /\ UNCHANGED <<live, favorites, schedules>>

\* The INSERT, with the foreign key and the unique booking_id.
ReviewInsert(r) ==
  /\ req[r].pc = "review"
  /\ LET q == req[r]
     IN  IF q.attraction \in live /\ (q.booking # NULL => ~Reviewed(q.booking))
           THEN /\ reviews' = [reviews EXCEPT ![r] =
                     [present |-> TRUE, reviewer |-> q.user, target |-> q.attraction,
                      attraction |-> q.attraction, booking |-> q.booking]]
                /\ FinishSpent(r)
           ELSE Finish(r) /\ UNCHANGED reviews
  /\ UNCHANGED <<live, favorites, schedules>>

-----------------------------------------------------------------------------
(***************************************************************************)
(* Schedules, by the verified operator of the attraction.                  *)
(***************************************************************************)
ScheduleGetAttraction(r) ==
  /\ Begins(r)
  /\ \E a \in live, open \in BOOLEAN :
       Proceed(r, [Idle EXCEPT !.pc = "schedule", !.attraction = a, !.open = open])
  /\ UNCHANGED Tables

ScheduleInsert(r) ==
  /\ req[r].pc = "schedule"
  /\ IF req[r].attraction \in live
       THEN /\ schedules' = [schedules EXCEPT ![r] =
                 [attraction |-> req[r].attraction, open |-> req[r].open]]
            /\ FinishSpent(r)
       ELSE Finish(r) /\ UNCHANGED schedules
  /\ UNCHANGED <<live, favorites, reviews>>

\* update_schedule and delete_schedule load the schedule, then its attraction.
ScheduleGet(r) ==
  /\ Begins(r)
  /\ \E n \in Requests, open, deletes \in BOOLEAN :
       /\ schedules[n].attraction # NULL
       /\ deletes => ~open
       /\ Proceed(r, [Idle EXCEPT !.pc = "owner", !.row = n, !.open = open, !.deletes = deletes,
                                  !.attraction = schedules[n].attraction])
  /\ UNCHANGED Tables

ScheduleGetOwner(r) ==
  /\ req[r].pc = "owner"
  /\ IF req[r].attraction \in live
       THEN Goto(r, IF req[r].deletes THEN "delete" ELSE "change") ELSE Finish(r)
  /\ UNCHANGED Tables

\* An UPDATE of a schedule that is gone fails.
ScheduleUpdate(r) ==
  /\ req[r].pc = "change"
  /\ schedules' = IF schedules[req[r].row].attraction # NULL
                    THEN [schedules EXCEPT ![req[r].row].open = req[r].open] ELSE schedules
  /\ Finish(r)
  /\ UNCHANGED <<live, favorites, reviews>>

ScheduleDelete(r) ==
  /\ req[r].pc = "delete"
  /\ schedules' = [schedules EXCEPT ![req[r].row] = NoSchedule]
  /\ Finish(r)
  /\ UNCHANGED <<live, favorites, reviews>>

-----------------------------------------------------------------------------
(***************************************************************************)
(* delete_attraction.  The flush loads the schedules and the reviews of    *)
(* the attraction.  It would set the attraction_id of each to NULL, which  *)
(* fails for a schedule.                                                   *)
(***************************************************************************)
DeleteAttractionLoad(r) ==
  /\ Begins(r)
  /\ \E a \in live :
       /\ \A n \in Requests : schedules[n].attraction # a
       /\ Proceed(r, [Idle EXCEPT !.pc = "deleteAttraction", !.attraction = a])
  /\ UNCHANGED Tables

\* Mutant: the favourites have no foreign key.
DeleteAttractionAlone(r) ==
  /\ req[r].pc = "deleteAttraction"
  /\ live' = live \ {req[r].attraction}
  /\ Finish(r)
  /\ UNCHANGED <<favorites, reviews, schedules>>

\* The DELETE cascades to the favourites and to schedules created since, and clears
\* attraction_id in the reviews.
DeleteAttractionWrite(r) ==
  /\ req[r].pc = "deleteAttraction"
  /\ LET a == req[r].attraction
     IN  /\ live' = live \ {a}
         /\ favorites' = [n \in Requests |->
              IF favorites[n].attraction = a THEN NoFavorite ELSE favorites[n]]
         /\ reviews' = [n \in Requests |->
              IF reviews[n].attraction = a THEN [reviews[n] EXCEPT !.attraction = NULL]
                                           ELSE reviews[n]]
         /\ schedules' = [n \in Requests |->
              IF schedules[n].attraction = a THEN NoSchedule ELSE schedules[n]]
  /\ Finish(r)

-----------------------------------------------------------------------------
\* The request fails or the process dies.
Crash(r) == r \in InFlight /\ Finish(r) /\ UNCHANGED Tables

Serve(r) ==
  \/ FavoriteGetAttraction(r) \/ FavoriteGetExisting(r) \/ FavoriteInsert(r)
  \/ FavoriteGet(r) \/ FavoriteDelete(r)
  \/ ReviewGetAttraction(r) \/ ReviewGetBooking(r) \/ ReviewInsert(r)
  \/ ScheduleGetAttraction(r) \/ ScheduleInsert(r)
  \/ ScheduleGet(r) \/ ScheduleGetOwner(r) \/ ScheduleUpdate(r) \/ ScheduleDelete(r)
  \/ DeleteAttractionLoad(r) \/ DeleteAttractionWrite(r)

Next == \E r \in Requests : Serve(r) \/ Crash(r)

Spec == Init /\ [][Next]_vars

-----------------------------------------------------------------------------
(***************************************************************************)
(* Properties.                                                             *)
(***************************************************************************)

\* Rows and requests have the types of their declarations.
TypeOK ==
  /\ live \subseteq Attractions
  /\ favorites \in [Requests -> FavoriteRow]
  /\ reviews \in [Requests -> ReviewRow]
  /\ schedules \in [Requests -> ScheduleRow]
  /\ req \in [Requests -> RequestState]

\* A visitor has an attraction among his favourites once, so that create_favorite and
\* delete_favorite find at most one row, and only while it exists, although it may be
\* deleted between the look-up and the insert (favorites.py, create_favorite).
FavoritesAreWhole ==
  /\ \A m, n \in Requests : favorites[n].user # NULL /\ favorites[m] = favorites[n] => m = n
  /\ \A n \in Requests : favorites[n].user # NULL => favorites[n].attraction \in live

\* A booking is reviewed once, by its tourist, and its review is about the attraction
\* it was made for; both lose it together (reviews.py, create_review).
ReviewsMatchBookings ==
  \A n \in Requests : reviews[n].present =>
    /\ reviews[n].attraction = IF reviews[n].target \in live THEN reviews[n].target ELSE NULL
    /\ reviews[n].booking # NULL =>
         /\ reviews[n].reviewer = TouristOf[reviews[n].booking]
         /\ reviews[n].attraction = BookedAttraction(reviews[n].booking)
         /\ \A m \in Requests : reviews[m].booking = reviews[n].booking => m = n

\* The inductive invariant: a request under way has loaded what its next statement
\* needs, and what it has checked of the booking still holds;
Fits(q) ==
  /\ q.pc \in {"existing", "favorite", "booking", "review", "schedule", "deleteAttraction"}
       => q.attraction \in Attractions
  /\ q.pc \in {"existing", "favorite", "booking", "review"} => q.user \in Users
  /\ q.pc \in {"unfavorite", "owner", "change", "delete"} => q.row \in Requests
  /\ q.pc = "booking" => q.booking \in Bookings
  /\ q.pc = "review" /\ q.booking # NULL =>
       TouristOf[q.booking] = q.user /\ AttractionOf[q.booking] = q.attraction

\* a row has all its columns or does not exist, and inserting it has spent the name.
RowsFit ==
  \A n \in Requests :
    /\ favorites[n].user = NULL <=> favorites[n].attraction = NULL
    /\ schedules[n].attraction # NULL => schedules[n].attraction \in live
    /\ schedules[n].attraction = NULL => schedules[n] = NoSchedule
    /\ reviews[n].present => reviews[n].target \in Attractions
    /\ ~reviews[n].present => reviews[n] = NoReview
    /\ req[n].pc # "spent" => /\ favorites[n] = NoFavorite /\ reviews[n] = NoReview
                              /\ schedules[n] = NoSchedule

Inv == /\ TypeOK /\ (\A r \in Requests : Fits(req[r])) /\ RowsFit
       /\ FavoritesAreWhole /\ ReviewsMatchBookings

\* The favourites as the pairs of the rows there are.
Pairs == {<<favorites[n].user, favorites[n].attraction>> :
            n \in {m \in Requests : favorites[m].user # NULL}}

Entries == INSTANCE Catalog WITH Names <- Requests, favorites <- Pairs

\* However many requests are served at once, what they do to the tables is a sequence
\* of the catalogue's entries: the checks that race are backed by the constraints of
\* the tables (models/favorite.py, models/review.py).
ImplementsCatalog == Entries!Spec

=============================================================================
