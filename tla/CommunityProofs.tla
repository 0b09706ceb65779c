---------------------------- MODULE CommunityProofs ----------------------------
(***************************************************************************)
(* Proofs about Community: the inductive invariant, and that the tables    *)
(* are the catalogue's for any number of requests served at once.          *)
(***************************************************************************)
EXTENDS Community, TLAPS

\* A request that has ended holds nothing.
LEMMA IdleFits ==
  /\ Idle \in RequestState /\ Fits(Idle)
  /\ [Idle EXCEPT !.pc = "spent"] \in RequestState /\ Fits([Idle EXCEPT !.pc = "spent"])
  /\ Idle.pc = "idle" /\ [Idle EXCEPT !.pc = "spent"].pc = "spent"
BY DEF Idle, RequestState, Fits, OrNull

\* Moving request r to a fitting state keeps the requests typed and fitting.
LEMMA Move ==
  ASSUME Inv, NEW r \in Requests, NEW q \in RequestState, Fits(q), Proceed(r, q)
  PROVE  /\ req' \in [Requests -> RequestState]
         /\ \A x \in Requests : Fits(req'[x])
         /\ req'[r] = q
         /\ \A x \in Requests : x # r => req'[x] = req[x]
BY DEF Inv, TypeOK, Proceed

LEMMA RequestType ==
  ASSUME Inv, NEW r \in Requests PROVE req[r] \in RequestState /\ Fits(req[r])
BY DEF Inv, TypeOK

\* A name not spent has no rows.
LEMMA Unspent ==
  ASSUME Inv, NEW r \in Requests, req[r].pc # "spent"
  PROVE  /\ favorites[r] = NoFavorite /\ reviews[r] = NoReview /\ schedules[r] = NoSchedule
BY DEF Inv, RowsFit

-----------------------------------------------------------------------------
(***************************************************************************)
(* Steps that leave the tables alone.                                      *)
(***************************************************************************)
LEMMA ReadStep ==
  ASSUME Inv, NEW r \in Requests, req[r].pc # "spent", UNCHANGED Tables,
         NEW q \in RequestState, Fits(q), Proceed(r, q)
  PROVE  Inv' /\ UNCHANGED Entries!vars
<1>1. UNCHANGED <<live, favorites, reviews, schedules>>
  BY DEF Tables
<1>2. Pairs' = Pairs
  BY <1>1 DEF Pairs
<1>3. UNCHANGED Entries!vars
  BY <1>1, <1>2 DEF Entries!vars
<1>4. /\ req' \in [Requests -> RequestState]
      /\ \A x \in Requests : Fits(req'[x])
      /\ \A x \in Requests : req'[x].pc # "spent" => req[x].pc # "spent"
  BY Move
<1>5. TypeOK' /\ FavoritesAreWhole' /\ ReviewsMatchBookings'
  BY <1>1, <1>4 DEF Inv, TypeOK, FavoritesAreWhole, ReviewsMatchBookings, BookedAttraction
<1>6. RowsFit'
  BY <1>1, <1>4 DEF Inv, RowsFit
<1> QED BY <1>3, <1>4, <1>5, <1>6 DEF Inv

LEMMA BeginsUnspent == ASSUME NEW r \in Requests, Begins(r) PROVE req[r].pc # "spent"
BY DEF Begins

LEMMA GotoType ==
  ASSUME Inv, NEW r \in Requests,
         NEW pc \in {"favorite", "review", "change", "delete"}
  PROVE  [req[r] EXCEPT !.pc = pc] \in RequestState
BY RequestType DEF RequestState

LEMMA ReadSteps ==
  ASSUME Inv, NEW r \in Requests,
         \/ FavoriteGetAttraction(r) \/ FavoriteGetExisting(r) \/ FavoriteGet(r)
         \/ ReviewGetAttraction(r) \/ ReviewGetBooking(r)
         \/ ScheduleGetAttraction(r) \/ ScheduleGet(r) \/ ScheduleGetOwner(r)
         \/ DeleteAttractionLoad(r) \/ Crash(r)
  PROVE  Inv' /\ UNCHANGED Entries!vars
<1>t. live \subseteq Attractions /\ req[r] \in RequestState /\ Fits(req[r])
  BY RequestType DEF Inv, TypeOK
<1>1. CASE FavoriteGetAttraction(r)
  <2>1. PICK u \in Users, a \in live :
          Proceed(r, [Idle EXCEPT !.pc = "existing", !.user = u, !.attraction = a])
    BY <1>1 DEF FavoriteGetAttraction
  <2> DEFINE q == [Idle EXCEPT !.pc = "existing", !.user = u, !.attraction = a]
  <2>2. q \in RequestState /\ Fits(q)
    BY <1>t DEF Idle, RequestState, Fits, OrNull
  <2>3. Proceed(r, q)
    BY <2>1
  <2>4. UNCHANGED Tables /\ req[r].pc # "spent"
    BY <1>1, BeginsUnspent DEF FavoriteGetAttraction
  <2> HIDE DEF q
  <2> QED BY <2>2, <2>3, <2>4, ReadStep
<1>2. CASE FavoriteGetExisting(r)
  <2>1. Fits([req[r] EXCEPT !.pc = "favorite"])
    BY <1>t, <1>2 DEF FavoriteGetExisting, Fits, RequestState
  <2> QED BY <1>2, <2>1, GotoType, IdleFits, ReadStep DEF FavoriteGetExisting, Goto, Finish
<1>3. CASE FavoriteGet(r)
  <2>1. PICK n \in Requests : /\ favorites[n].user # NULL
          /\ Proceed(r, [Idle EXCEPT !.pc = "unfavorite", !.user = favorites[n].user, !.row = n])
    BY <1>3 DEF FavoriteGet
  <2>2. favorites[n].user \in Users
    BY <2>1 DEF Inv, TypeOK, FavoriteRow, OrNull
  <2> DEFINE q == [Idle EXCEPT !.pc = "unfavorite", !.user = favorites[n].user, !.row = n]
  <2>3. q \in RequestState /\ Fits(q)
    BY <2>2 DEF Idle, RequestState, Fits, OrNull
  <2>4. Proceed(r, q)
    BY <2>1
  <2>5. UNCHANGED Tables /\ req[r].pc # "spent"
    BY <1>3, BeginsUnspent DEF FavoriteGet
  <2> HIDE DEF q
  <2> QED BY <2>3, <2>4, <2>5, ReadStep
<1>4. CASE ReviewGetAttraction(r)
  <2>1. PICK u \in Users, a \in live, b \in OrNull(Bookings) :
          Proceed(r, [Idle EXCEPT !.pc = IF b = NULL THEN "review" ELSE "booking",
                                  !.user = u, !.attraction = a, !.booking = b])
    BY <1>4 DEF ReviewGetAttraction
  <2> DEFINE q == [Idle EXCEPT !.pc = IF b = NULL THEN "review" ELSE "booking",
                             !.user = u, !.attraction = a, !.booking = b]
  <2>2. q \in RequestState /\ Fits(q)
    <3>1. /\ q = [Idle EXCEPT !.pc = q.pc, !.user = u, !.attraction = a, !.booking = b]
          /\ q.pc = IF b = NULL THEN "review" ELSE "booking"
      BY DEF Idle
    <3> HIDE DEF q
    <3>2. q \in RequestState
      BY <1>t, <3>1 DEF Idle, RequestState, OrNull
    <3>3. q.user = u /\ q.attraction = a /\ q.booking = b
      BY <3>1 DEF Idle
    <3>4. Fits(q)
      BY <1>t, <3>1, <3>3 DEF Fits, OrNull
    <3> QED BY <3>2, <3>4
  <2>3. Proceed(r, q)
    BY <2>1
  <2>4. UNCHANGED Tables /\ req[r].pc # "spent"
    BY <1>4, BeginsUnspent DEF ReviewGetAttraction
  <2> HIDE DEF q
  <2> QED BY <2>2, <2>3, <2>4, ReadStep
<1>5. CASE ReviewGetBooking(r)
  <2>1. CASE TouristOf[req[r].booking] = req[r].user /\ BookedAttraction(req[r].booking) = req[r].attraction
    <3>1. AttractionOf[req[r].booking] = req[r].attraction
      BY <1>t, <1>5, <2>1, ConstantsAssumption DEF ReviewGetBooking, BookedAttraction, Fits
    <3>2. Fits([req[r] EXCEPT !.pc = "review"])
      BY <1>t, <1>5, <2>1, <3>1 DEF ReviewGetBooking, Fits, RequestState
    <3> QED BY <1>5, <2>1, <3>2, GotoType, ReadStep DEF ReviewGetBooking, Goto
  <2>2. CASE ~(TouristOf[req[r].booking] = req[r].user /\ BookedAttraction(req[r].booking) = req[r].attraction)
    BY <1>5, <2>2, IdleFits, ReadStep DEF ReviewGetBooking, Finish
  <2> QED BY <2>1, <2>2
<1>6. CASE ScheduleGetAttraction(r)
  <2>1. PICK a \in live, open \in BOOLEAN :
          Proceed(r, [Idle EXCEPT !.pc = "schedule", !.attraction = a, !.open = open])
    BY <1>6 DEF ScheduleGetAttraction
  <2> DEFINE q == [Idle EXCEPT !.pc = "schedule", !.attraction = a, !.open = open]
  <2>2. q \in RequestState /\ Fits(q)
    BY <1>t DEF Idle, RequestState, Fits, OrNull
  <2>3. Proceed(r, q)
    BY <2>1
  <2>4. UNCHANGED Tables /\ req[r].pc # "spent"
    BY <1>6, BeginsUnspent DEF ScheduleGetAttraction
  <2> HIDE DEF q
  <2> QED BY <2>2, <2>3, <2>4, ReadStep
<1>7. CASE ScheduleGet(r)
  <2>1. PICK n \in Requests, open \in BOOLEAN, deletes \in BOOLEAN :
          /\ schedules[n].attraction # NULL
          /\ Proceed(r, [Idle EXCEPT !.pc = "owner", !.row = n, !.open = open,
                           !.deletes = deletes, !.attraction = schedules[n].attraction])
    BY <1>7 DEF ScheduleGet
  <2>2. schedules[n].attraction \in Attractions
    BY <2>1 DEF Inv, TypeOK, ScheduleRow, OrNull
  <2> DEFINE q == [Idle EXCEPT !.pc = "owner", !.row = n, !.open = open,
                             !.deletes = deletes, !.attraction = schedules[n].attraction]
  <2>3. q \in RequestState /\ Fits(q)
    BY <2>2 DEF Idle, RequestState, Fits, OrNull
  <2>4. Proceed(r, q)
    BY <2>1
  <2>5. UNCHANGED Tables /\ req[r].pc # "spent"
    BY <1>7, BeginsUnspent DEF ScheduleGet
  <2> HIDE DEF q
  <2> QED BY <2>3, <2>4, <2>5, ReadStep
<1>8. CASE ScheduleGetOwner(r)
  <2>1. Fits([req[r] EXCEPT !.pc = "change"]) /\ Fits([req[r] EXCEPT !.pc = "delete"])
    BY <1>t, <1>8 DEF ScheduleGetOwner, Fits, RequestState
  <2> QED BY <1>8, <2>1, GotoType, IdleFits, ReadStep DEF ScheduleGetOwner, Goto, Finish
<1>9. CASE DeleteAttractionLoad(r)
  <2>1. PICK a \in live : Proceed(r, [Idle EXCEPT !.pc = "deleteAttraction", !.attraction = a])
    BY <1>9 DEF DeleteAttractionLoad
  <2> DEFINE q == [Idle EXCEPT !.pc = "deleteAttraction", !.attraction = a]
  <2>2. q \in RequestState /\ Fits(q)
    BY <1>t DEF Idle, RequestState, Fits, OrNull
  <2>3. Proceed(r, q)
    BY <2>1
  <2>4. UNCHANGED Tables /\ req[r].pc # "spent"
    BY <1>9, BeginsUnspent DEF DeleteAttractionLoad
  <2> HIDE DEF q
  <2> QED BY <2>2, <2>3, <2>4, ReadStep
<1>10. CASE Crash(r)
  BY <1>10, IdleFits, ReadStep DEF Crash, Finish, InFlight
<1> QED BY <1>1, <1>2, <1>3, <1>4, <1>5, <1>6, <1>7, <1>8, <1>9, <1>10

-----------------------------------------------------------------------------
(***************************************************************************)
(* Steps that write favourites.                                            *)
(***************************************************************************)
LEMMA FavoriteInsertStep ==
  ASSUME Inv, NEW r \in Requests, FavoriteInsert(r)
  PROVE  Inv' /\ [Entries!Next]_(Entries!vars)
<1> DEFINE u == req[r].user
           a == req[r].attraction
<1>1. u \in Users /\ a \in Attractions /\ u # NULL /\ a # NULL /\ req[r].pc = "favorite"
  BY RequestType, ConstantsAssumption DEF FavoriteInsert, Fits
<1>2. favorites[r] = NoFavorite /\ reviews[r] = NoReview /\ schedules[r] = NoSchedule
  BY <1>1, Unspent
<1>3. CASE ~(a \in live /\ ~Favored(u, a))
  <2>1. Finish(r) /\ UNCHANGED Tables
    BY <1>3 DEF FavoriteInsert, Tables
  <2> QED BY <1>1, <2>1, IdleFits, ReadStep DEF Finish
<1>4. CASE a \in live /\ ~Favored(u, a)
  <2>1. /\ favorites' = [favorites EXCEPT ![r] = [user |-> u, attraction |-> a]]
        /\ FinishSpent(r) /\ UNCHANGED <<live, reviews, schedules>>
    BY <1>4 DEF FavoriteInsert
  <2>2. /\ req' \in [Requests -> RequestState] /\ \A x \in Requests : Fits(req'[x])
        /\ req'[r].pc = "spent" /\ \A x \in Requests \ {r} : req'[x] = req[x]
    BY <2>1, IdleFits, Move DEF FinishSpent
  <2>3. /\ favorites' \in [Requests -> FavoriteRow]
        /\ favorites'[r] = [user |-> u, attraction |-> a]
        /\ \A n \in Requests \ {r} : favorites'[n] = favorites[n]
    BY <1>1, <2>1 DEF Inv, TypeOK, FavoriteRow, OrNull
  <2>4. RowsFit'
    BY <1>1, <2>1, <2>2, <2>3 DEF Inv, RowsFit
  <2>5. FavoritesAreWhole'
    <3>1. ASSUME NEW m \in Requests, NEW n \in Requests, favorites'[n].user # NULL,
                 favorites'[m] = favorites'[n]
          PROVE  m = n
      BY <1>4, <2>3, <3>1 DEF Inv, FavoritesAreWhole, Favored
    <3>2. ASSUME NEW n \in Requests, favorites'[n].user # NULL
          PROVE  favorites'[n].attraction \in live'
      BY <1>4, <2>1, <2>3, <3>2 DEF Inv, FavoritesAreWhole
    <3> QED BY <3>1, <3>2 DEF FavoritesAreWhole
  <2>6. ReviewsMatchBookings' /\ TypeOK'
    BY <2>1, <2>2, <2>3 DEF Inv, TypeOK, ReviewsMatchBookings, BookedAttraction
  <2>7. Pairs' = Pairs \cup {<<u, a>>}
    <3>1. \A n \in Requests : favorites'[n].user # NULL <=> n = r \/ favorites[n].user # NULL
      BY <1>1, <2>3
    <3>2. favorites[r].user = NULL
      BY <1>2 DEF NoFavorite
    <3> QED BY <2>3, <3>1, <3>2 DEF Pairs
  <2>8. <<u, a>> \notin Pairs
    <3> SUFFICES ASSUME NEW n \in Requests, favorites[n].user = u, favorites[n].attraction = a
                 PROVE  FALSE
      BY DEF Pairs
    <3>1. favorites[n] \in FavoriteRow
      BY DEF Inv, TypeOK
    <3> QED BY <1>4, <3>1 DEF Favored, FavoriteRow
  <2>9. Entries!Mark
    BY <1>1, <1>4, <2>1, <2>7, <2>8 DEF Entries!Mark
  <2> QED BY <2>2, <2>4, <2>5, <2>6, <2>9 DEF Inv, Entries!Next
<1> QED BY <1>3, <1>4

LEMMA FavoriteDeleteStep ==
  ASSUME Inv, NEW r \in Requests, FavoriteDelete(r)
  PROVE  Inv' /\ [Entries!Next]_(Entries!vars)
<1>1. PICK k \in Requests : k = req[r].row
  BY RequestType DEF FavoriteDelete, Fits
<1>2. /\ favorites' = [favorites EXCEPT ![k] = NoFavorite] /\ req[r].pc = "unfavorite"
      /\ Finish(r) /\ UNCHANGED <<live, reviews, schedules>>
  BY <1>1 DEF FavoriteDelete
<1>3. /\ req' \in [Requests -> RequestState] /\ \A x \in Requests : Fits(req'[x])
      /\ \A x \in Requests : req'[x].pc # "spent" => req[x].pc # "spent"
  BY <1>2, IdleFits, Move DEF Finish
<1>4. /\ favorites' \in [Requests -> FavoriteRow] /\ favorites'[k] = NoFavorite
      /\ \A n \in Requests \ {k} : favorites'[n] = favorites[n]
  BY <1>2 DEF Inv, TypeOK, FavoriteRow, NoFavorite, OrNull
<1>5. NoFavorite.user = NULL /\ NoFavorite.attraction = NULL
  BY DEF NoFavorite
<1>6. RowsFit'
  BY <1>2, <1>3, <1>4, <1>5 DEF Inv, RowsFit
<1>7. FavoritesAreWhole'
  BY <1>2, <1>4, <1>5 DEF Inv, FavoritesAreWhole
<1>8. ReviewsMatchBookings' /\ TypeOK'
  BY <1>2, <1>3, <1>4 DEF Inv, TypeOK, ReviewsMatchBookings, BookedAttraction
<1>9. CASE favorites[k].user = NULL
  <2>1. Pairs' = Pairs
    BY <1>4, <1>5, <1>9 DEF Pairs
  <2> QED BY <1>2, <1>3, <1>6, <1>7, <1>8, <2>1 DEF Inv, Entries!vars
<1>10. CASE favorites[k].user # NULL
  <2>1. favorites[k] \in FavoriteRow /\ favorites[k].user \in Users
    BY <1>10 DEF Inv, TypeOK, FavoriteRow, OrNull
  <2>2. favorites[k].attraction \in Attractions
    BY <1>10 DEF Inv, FavoritesAreWhole, TypeOK
  <2> DEFINE f == <<favorites[k].user, favorites[k].attraction>>
  <2>3. f \in Pairs
    BY <1>10 DEF Pairs
  <2>4. Pairs' = Pairs \ {f}
    <3>1. ASSUME NEW n \in Requests \ {k}, favorites[n].user # NULL
          PROVE  <<favorites[n].user, favorites[n].attraction>> # f
      <4>1. favorites[n] \in FavoriteRow /\ favorites[n] # favorites[k]
        BY <1>10, <3>1 DEF Inv, TypeOK, FavoritesAreWhole
      <4> QED BY <2>1, <4>1 DEF FavoriteRow
    <3>2. \A n \in Requests : favorites'[n].user # NULL <=> n # k /\ favorites[n].user # NULL
      BY <1>4, <1>5
    <3> QED BY <1>4, <3>1, <3>2 DEF Pairs
  <2>5. Entries!Unmark
    BY <1>2, <2>1, <2>2, <2>3, <2>4 DEF Entries!Unmark
  <2> QED BY <1>3, <1>6, <1>7, <1>8, <2>5 DEF Inv, Entries!Next
<1> QED BY <1>9, <1>10

-----------------------------------------------------------------------------
(***************************************************************************)
(* Steps that write reviews and schedules.                                 *)
(***************************************************************************)
LEMMA ReviewInsertStep ==
  ASSUME Inv, NEW r \in Requests, ReviewInsert(r)
  PROVE  Inv' /\ [Entries!Next]_(Entries!vars)
<1> DEFINE u == req[r].user
           a == req[r].attraction
           b == req[r].booking
           row == [present |-> TRUE, reviewer |-> u, target |-> a, attraction |-> a, booking |-> b]
<1>1. /\ u \in Users /\ a \in Attractions /\ b \in OrNull(Bookings) /\ req[r].pc = "review"
      /\ b # NULL => TouristOf[b] = u /\ AttractionOf[b] = a
  BY RequestType DEF ReviewInsert, Fits, RequestState
<1>2. favorites[r] = NoFavorite /\ reviews[r] = NoReview /\ schedules[r] = NoSchedule
  BY <1>1, Unspent
<1>3. CASE ~(a \in live /\ (b # NULL => ~Reviewed(b)))
  <2>1. Finish(r) /\ UNCHANGED Tables
    BY <1>3 DEF ReviewInsert, Tables
  <2> QED BY <1>1, <2>1, IdleFits, ReadStep DEF Finish
<1>4. CASE a \in live /\ (b # NULL => ~Reviewed(b))
  <2>1. /\ reviews' = [reviews EXCEPT ![r] = row]
        /\ FinishSpent(r) /\ UNCHANGED <<live, favorites, schedules>>
    BY <1>4 DEF ReviewInsert
  <2>2. /\ req' \in [Requests -> RequestState] /\ \A x \in Requests : Fits(req'[x])
        /\ req'[r].pc = "spent" /\ \A x \in Requests \ {r} : req'[x] = req[x]
    BY <2>1, IdleFits, Move DEF FinishSpent
  <2>3. row \in ReviewRow
    BY <1>1 DEF ReviewRow, OrNull
  <2>4. /\ reviews' \in [Requests -> ReviewRow] /\ reviews'[r] = row
        /\ \A n \in Requests \ {r} : reviews'[n] = reviews[n]
    BY <2>1, <2>3 DEF Inv, TypeOK
  <2>5. RowsFit'
    BY <1>1, <2>1, <2>2, <2>4 DEF Inv, RowsFit
  <2>6. FavoritesAreWhole' /\ TypeOK'
    BY <2>1, <2>2, <2>4 DEF Inv, TypeOK, FavoritesAreWhole
  <2>7. \A c \in Bookings : BookedAttraction(c)' = BookedAttraction(c)
    BY <2>1 DEF BookedAttraction
  <2>8. \A n \in Requests : reviews[n].booking # NULL => reviews[n].present
    BY DEF Inv, RowsFit, NoReview
  <2>9. ReviewsMatchBookings'
    <3> SUFFICES ASSUME NEW n \in Requests, reviews'[n].present
                 PROVE  /\ reviews'[n].attraction = IF reviews'[n].target \in live
                                                      THEN reviews'[n].target ELSE NULL
                        /\ reviews'[n].booking # NULL =>
                             /\ reviews'[n].reviewer = TouristOf[reviews'[n].booking]
                             /\ reviews'[n].attraction = BookedAttraction(reviews'[n].booking)
                             /\ \A m \in Requests : reviews'[m].booking = reviews'[n].booking => m = n
      BY <2>1 DEF ReviewsMatchBookings, BookedAttraction
    <3>1. CASE n = r
      <4>1. ASSUME b # NULL, NEW m \in Requests, m # r PROVE reviews[m].booking # b
        BY <1>4, <2>8, <4>1 DEF Reviewed
      <4>2. b # NULL => BookedAttraction(b) = a
        BY <1>1, <1>4 DEF BookedAttraction
      <4> QED BY <1>1, <1>4, <2>4, <3>1, <4>1, <4>2
    <3>2. CASE n # r
      <4>1. reviews[n].booking # NULL => reviews'[r].booking # reviews[n].booking
        BY <1>4, <2>4, <2>8, <3>2 DEF Reviewed
      <4> QED BY <2>4, <3>2, <4>1 DEF Inv, ReviewsMatchBookings
    <3> QED BY <3>1, <3>2
  <2>10. Entries!MayReview(u, a, b) /\ ~reviews[r].present
    BY <1>1, <1>2, <1>4 DEF Entries!MayReview, Reviewed, NoReview
  <2>11. Pairs' = Pairs
    BY <2>1 DEF Pairs
  <2>12. Entries!Review
    BY <1>1, <1>4, <2>1, <2>10, <2>11 DEF Entries!Review, OrNull
  <2> QED BY <2>2, <2>5, <2>6, <2>9, <2>12 DEF Inv, Entries!Next
<1> QED BY <1>3, <1>4

\* A step that writes one schedule, of an attraction there is, or removes it.
LEMMA ScheduleStep ==
  ASSUME Inv, NEW r \in Requests, req[r].pc # "spent",
         NEW q \in RequestState, Fits(q), Proceed(r, q),
         NEW n \in Requests, NEW row \in ScheduleRow,
         schedules' = [schedules EXCEPT ![n] = row],
         row = NoSchedule \/ (row.attraction \in live /\ req'[n].pc = "spent"),
         UNCHANGED <<live, favorites, reviews>>
  PROVE  Inv' /\ Pairs' = Pairs
<1>1. /\ req' \in [Requests -> RequestState] /\ \A x \in Requests : Fits(req'[x])
      /\ \A x \in Requests : req'[x].pc # "spent" => req[x].pc # "spent"
  BY Move
<1>2. /\ schedules' \in [Requests -> ScheduleRow] /\ schedules'[n] = row
      /\ \A m \in Requests \ {n} : schedules'[m] = schedules[m]
  BY DEF Inv, TypeOK
<1>3. NULL \notin live
  BY ConstantsAssumption DEF Inv, TypeOK
<1>4. RowsFit'
  <2>1. NoSchedule.attraction = NULL
    BY DEF NoSchedule
  <2>2. \A m \in Requests :
          /\ schedules'[m].attraction # NULL => schedules'[m].attraction \in live
          /\ schedules'[m].attraction = NULL => schedules'[m] = NoSchedule
          /\ req'[m].pc # "spent" => schedules'[m] = NoSchedule
    BY <1>1, <1>2, <1>3, <2>1 DEF Inv, RowsFit
  <2> QED BY <1>1, <2>2 DEF Inv, RowsFit
<1>5. FavoritesAreWhole' /\ ReviewsMatchBookings' /\ TypeOK'
  BY <1>1, <1>2 DEF Inv, TypeOK, FavoritesAreWhole, ReviewsMatchBookings, BookedAttraction
<1>6. Pairs' = Pairs
  BY DEF Pairs
<1> QED BY <1>1, <1>4, <1>5, <1>6 DEF Inv

LEMMA ScheduleInsertStep ==
  ASSUME Inv, NEW r \in Requests, ScheduleInsert(r)
  PROVE  Inv' /\ [Entries!Next]_(Entries!vars)
<1>1. /\ req[r].attraction \in Attractions /\ req[r].open \in BOOLEAN
      /\ req[r].pc = "schedule"
  BY RequestType DEF ScheduleInsert, Fits, RequestState
<1>2. CASE req[r].attraction \notin live
  <2>1. Finish(r) /\ UNCHANGED Tables
    BY <1>2 DEF ScheduleInsert, Tables
  <2> QED BY <1>1, <2>1, IdleFits, ReadStep DEF Finish
<1>3. CASE req[r].attraction \in live
  <2>1. PICK row \in ScheduleRow : row = [attraction |-> req[r].attraction, open |-> req[r].open]
    BY <1>1 DEF ScheduleRow, OrNull
  <2>2. /\ schedules' = [schedules EXCEPT ![r] = row] /\ row.attraction \in live
        /\ FinishSpent(r) /\ UNCHANGED <<live, favorites, reviews>>
    BY <1>3, <2>1 DEF ScheduleInsert
  <2>3. req'[r].pc = "spent"
    BY <2>2, IdleFits, Move DEF FinishSpent
  <2>4. Inv' /\ Pairs' = Pairs
    BY <1>1, <2>2, <2>3, IdleFits, ScheduleStep DEF FinishSpent
  <2>5. schedules[r].attraction = NULL
    BY <1>1, Unspent DEF NoSchedule
  <2>6. Entries!Publish
    BY <1>1, <1>3, <2>1, <2>2, <2>4, <2>5 DEF Entries!Publish
  <2> QED BY <2>4, <2>6 DEF Entries!Next
<1> QED BY <1>2, <1>3

LEMMA ScheduleUpdateStep ==
  ASSUME Inv, NEW r \in Requests, ScheduleUpdate(r)
  PROVE  Inv' /\ [Entries!Next]_(Entries!vars)
<1>1. PICK k \in Requests, open \in BOOLEAN : k = req[r].row /\ open = req[r].open
  BY RequestType DEF ScheduleUpdate, Fits, RequestState
<1>2. req[r].pc = "change" /\ Finish(r) /\ UNCHANGED <<live, favorites, reviews>>
  BY DEF ScheduleUpdate
<1>3. CASE schedules[k].attraction = NULL
  <2>1. UNCHANGED Tables
    BY <1>1, <1>2, <1>3 DEF ScheduleUpdate, Tables
  <2> QED BY <1>2, <2>1, IdleFits, ReadStep DEF Finish
<1>4. CASE schedules[k].attraction # NULL
  <2>1. schedules' = [schedules EXCEPT ![k].open = open]
    BY <1>1, <1>4 DEF ScheduleUpdate
  <2>2. PICK row \in ScheduleRow : row = [schedules[k] EXCEPT !.open = open]
    BY DEF Inv, TypeOK, ScheduleRow
  <2>3. schedules' = [schedules EXCEPT ![k] = row]
    BY <2>1, <2>2
  <2>4. row.attraction \in live
    BY <1>4, <2>2 DEF Inv, TypeOK, RowsFit, ScheduleRow
  <2>5. req[k].pc = "spent"
    BY <1>4 DEF Inv, RowsFit, NoSchedule
  <2>6. req'[k].pc = "spent"
    BY <1>2, <2>5, IdleFits, Move DEF Finish
  <2>7. Inv' /\ Pairs' = Pairs
    BY <1>2, <2>3, <2>4, <2>6, IdleFits, ScheduleStep DEF Finish
  <2>8. Entries!Change
    BY <1>2, <1>4, <2>1, <2>7 DEF Entries!Change
  <2> QED BY <2>7, <2>8 DEF Entries!Next
<1> QED BY <1>3, <1>4

LEMMA ScheduleDeleteStep ==
  ASSUME Inv, NEW r \in Requests, ScheduleDelete(r)
  PROVE  Inv' /\ [Entries!Next]_(Entries!vars)
<1>1. PICK k \in Requests : k = req[r].row
  BY RequestType DEF ScheduleDelete, Fits
<1>2. /\ schedules' = [schedules EXCEPT ![k] = NoSchedule] /\ req[r].pc = "delete"
      /\ Finish(r) /\ UNCHANGED <<live, favorites, reviews>>
  BY <1>1 DEF ScheduleDelete
<1>3. NoSchedule \in ScheduleRow
  BY DEF NoSchedule, ScheduleRow, OrNull
<1>4. Inv' /\ Pairs' = Pairs
  BY <1>2, <1>3, IdleFits, ScheduleStep DEF Finish
<1>5. CASE schedules[k].attraction = NULL
  <2>1. schedules' = schedules
    BY <1>2, <1>5 DEF Inv, RowsFit, TypeOK
  <2> QED BY <1>2, <1>4, <2>1 DEF Entries!vars
<1>6. CASE schedules[k].attraction # NULL
  <2>1. Entries!Withhold
    BY <1>2, <1>4, <1>6 DEF Entries!Withhold, NoSchedule
  <2> QED BY <1>4, <2>1 DEF Entries!Next
<1> QED BY <1>5, <1>6

-----------------------------------------------------------------------------
(***************************************************************************)
(* The deletion of an attraction.                                          *)
(***************************************************************************)
LEMMA DeleteAttractionStep ==
  ASSUME Inv, NEW r \in Requests, DeleteAttractionWrite(r)
  PROVE  Inv' /\ [Entries!Next]_(Entries!vars)
<1>1. PICK a \in Attractions : a = req[r].attraction
  BY RequestType DEF DeleteAttractionWrite, Fits
<1>2. /\ live' = live \ {a}
      /\ favorites' = [n \in Requests |->
           IF favorites[n].attraction = a THEN NoFavorite ELSE favorites[n]]
      /\ reviews' = [n \in Requests |->
           IF reviews[n].attraction = a THEN [reviews[n] EXCEPT !.attraction = NULL]
                                        ELSE reviews[n]]
      /\ schedules' = [n \in Requests |->
           IF schedules[n].attraction = a THEN NoSchedule ELSE schedules[n]]
      /\ Finish(r) /\ req[r].pc = "deleteAttraction"
  BY <1>1 DEF DeleteAttractionWrite
<1>3. /\ req' \in [Requests -> RequestState] /\ \A x \in Requests : Fits(req'[x])
      /\ \A x \in Requests : req'[x].pc # "spent" => req[x].pc # "spent"
  BY <1>2, IdleFits, Move DEF Finish
<1>4. a # NULL /\ NULL \notin live
  BY ConstantsAssumption DEF Inv, TypeOK
<1>5. NoFavorite \in FavoriteRow /\ NoSchedule \in ScheduleRow
      /\ NoFavorite.user = NULL /\ NoFavorite.attraction = NULL /\ NoSchedule.attraction = NULL
  BY DEF NoFavorite, NoSchedule, FavoriteRow, ScheduleRow, OrNull
<1>6. \A n \in Requests : /\ favorites[n] \in FavoriteRow /\ reviews[n] \in ReviewRow
                          /\ schedules[n] \in ScheduleRow
  BY DEF Inv, TypeOK
<1>7. \A n \in Requests :
        reviews[n].attraction = a =>
          /\ reviews'[n] \in ReviewRow
          /\ reviews'[n] = [reviews[n] EXCEPT !.attraction = NULL]
          /\ reviews'[n].attraction = NULL /\ reviews'[n].present = reviews[n].present
          /\ reviews'[n].target = reviews[n].target
          /\ reviews'[n].booking = reviews[n].booking
          /\ reviews'[n].reviewer = reviews[n].reviewer
  BY <1>2, <1>6 DEF ReviewRow, OrNull
<1>8. \A n \in Requests : reviews[n].attraction # a => reviews'[n] = reviews[n]
  BY <1>2
<1>9. TypeOK'
  BY <1>2, <1>3, <1>5, <1>6, <1>7, <1>8 DEF Inv, TypeOK
<1>10. RowsFit'
  <2> SUFFICES ASSUME NEW n \in Requests
               PROVE  /\ favorites'[n].user = NULL <=> favorites'[n].attraction = NULL
                      /\ schedules'[n].attraction # NULL => schedules'[n].attraction \in live'
                      /\ schedules'[n].attraction = NULL => schedules'[n] = NoSchedule
                      /\ reviews'[n].present => reviews'[n].target \in Attractions
                      /\ ~reviews'[n].present => reviews'[n] = NoReview
                      /\ req'[n].pc # "spent" => /\ favorites'[n] = NoFavorite
                                                 /\ reviews'[n] = NoReview
                                                 /\ schedules'[n] = NoSchedule
    BY DEF RowsFit
  <2>1. favorites'[n].user = NULL <=> favorites'[n].attraction = NULL
    BY <1>2, <1>5 DEF Inv, RowsFit
  <2>2. /\ schedules'[n].attraction # NULL => schedules'[n].attraction \in live'
        /\ schedules'[n].attraction = NULL => schedules'[n] = NoSchedule
    BY <1>2, <1>5 DEF Inv, RowsFit
  <2>3. NoReview.attraction = NULL
    BY DEF NoReview
  <2>4. /\ reviews'[n].present => reviews'[n].target \in Attractions
        /\ ~reviews'[n].present => reviews'[n] = NoReview
    BY <1>4, <1>7, <1>8, <2>3 DEF Inv, RowsFit
  <2>5. req'[n].pc # "spent" => /\ favorites'[n] = NoFavorite /\ reviews'[n] = NoReview
                                /\ schedules'[n] = NoSchedule
    BY <1>2, <1>3, <1>4, <1>5, <2>3, Unspent
  <2> QED BY <2>1, <2>2, <2>4, <2>5
<1>11. FavoritesAreWhole'
  <2>1. \A n \in Requests : favorites'[n].user # NULL =>
          /\ favorites[n].user # NULL /\ favorites'[n] = favorites[n]
          /\ favorites[n].attraction # a
    BY <1>2, <1>5
  <2> QED BY <1>2, <2>1 DEF Inv, FavoritesAreWhole
<1>12. ReviewsMatchBookings'
  <2>1. \A c \in Bookings :
          (IF AttractionOf[c] \in live' THEN AttractionOf[c] ELSE NULL) =
            IF BookedAttraction(c) = a THEN NULL ELSE BookedAttraction(c)
    BY <1>2, <1>4 DEF BookedAttraction
  <2>2. \A n \in Requests : reviews'[n].booking = reviews[n].booking
    BY <1>7, <1>8
  <2> SUFFICES ASSUME NEW n \in Requests, reviews'[n].present
               PROVE  /\ reviews'[n].attraction = IF reviews'[n].target \in live'
                                                    THEN reviews'[n].target ELSE NULL
                      /\ reviews'[n].booking # NULL =>
                           /\ reviews'[n].reviewer = TouristOf[reviews'[n].booking]
                           /\ reviews'[n].attraction =
                                IF AttractionOf[reviews'[n].booking] \in live'
                                  THEN AttractionOf[reviews'[n].booking] ELSE NULL
                           /\ \A m \in Requests : reviews'[m].booking = reviews'[n].booking => m = n
    BY DEF ReviewsMatchBookings, BookedAttraction
  <2>3. /\ reviews[n].present /\ reviews'[n].target = reviews[n].target
        /\ reviews'[n].reviewer = reviews[n].reviewer
        /\ reviews'[n].attraction = IF reviews[n].attraction = a THEN NULL ELSE reviews[n].attraction
    BY <1>7, <1>8
  <2>4. /\ reviews[n].attraction = IF reviews[n].target \in live THEN reviews[n].target ELSE NULL
        /\ reviews[n].booking # NULL =>
             /\ reviews[n].reviewer = TouristOf[reviews[n].booking]
             /\ reviews[n].attraction = BookedAttraction(reviews[n].booking)
             /\ \A m \in Requests : reviews[m].booking = reviews[n].booking => m = n
    BY <2>3 DEF Inv, ReviewsMatchBookings
  <2>5. reviews[n].booking # NULL => reviews[n].booking \in Bookings
    BY <1>6 DEF ReviewRow, OrNull
  <2>6. reviews'[n].attraction = IF reviews'[n].target \in live' THEN reviews'[n].target ELSE NULL
    BY <1>2, <1>4, <2>3, <2>4
  <2>7. reviews[n].booking # NULL =>
          reviews'[n].attraction = IF BookedAttraction(reviews[n].booking) = a
                                     THEN NULL ELSE BookedAttraction(reviews[n].booking)
    BY <2>3, <2>4
  <2> QED BY <2>1, <2>2, <2>3, <2>4, <2>5, <2>6, <2>7
<1>13. Inv'
  BY <1>3, <1>9, <1>10, <1>11, <1>12 DEF Inv
<1>14. CASE a \notin live
  <2>1. /\ \A n \in Requests : favorites[n].attraction # a
        /\ \A n \in Requests : schedules[n].attraction # a
    BY <1>4, <1>14 DEF Inv, RowsFit, FavoritesAreWhole
  <2>2. \A n \in Requests : reviews[n].attraction # a
    BY <1>4, <1>14 DEF Inv, RowsFit, ReviewsMatchBookings, NoReview
  <2>3. UNCHANGED <<live, favorites, reviews, schedules>>
    BY <1>2, <1>14, <2>1, <2>2 DEF Inv, TypeOK
  <2>4. Pairs' = Pairs
    BY <2>3 DEF Pairs
  <2> QED BY <1>13, <2>3, <2>4 DEF Entries!vars
<1>15. CASE a \in live
  <2>1. Pairs' = {f \in Pairs : f[2] # a}
    <3>1. \A n \in Requests : favorites'[n].user # NULL <=>
            favorites[n].user # NULL /\ favorites[n].attraction # a
      BY <1>2, <1>5
    <3>2. \A n \in Requests : favorites'[n].user # NULL => favorites'[n] = favorites[n]
      BY <1>2, <1>5
    <3> QED BY <3>1, <3>2 DEF Pairs
  <2>2. Entries!Withdraw
    BY <1>2, <1>15, <2>1 DEF Entries!Withdraw, NoSchedule
  <2> QED BY <1>13, <2>2 DEF Entries!Next
<1> QED BY <1>14, <1>15

-----------------------------------------------------------------------------
(***************************************************************************)
(* The theorems.                                                           *)
(***************************************************************************)
LEMMA InitInv == Init => Inv /\ Entries!Init
<1> SUFFICES ASSUME Init PROVE Inv /\ Entries!Init
  OBVIOUS
<1>1. TypeOK /\ RowsFit /\ FavoritesAreWhole /\ ReviewsMatchBookings
  BY DEF Init, TypeOK, RowsFit, FavoritesAreWhole, ReviewsMatchBookings, NoFavorite, NoReview,
         NoSchedule, FavoriteRow, ReviewRow, ScheduleRow, OrNull, Idle, RequestState
<1>2. \A r \in Requests : Fits(req[r])
  BY IdleFits DEF Init
<1>3. Pairs = {}
  BY DEF Init, Pairs, NoFavorite
<1>4. Entries!Init
  BY <1>3 DEF Init, Entries!Init, NoReview, NoSchedule
<1> QED BY <1>1, <1>2, <1>4 DEF Inv

\* Every step keeps the invariant and is an entry of the catalogue or leaves it alone.
LEMMA NextStep == Inv /\ [Next]_vars => Inv' /\ [Entries!Next]_(Entries!vars)
<1> SUFFICES ASSUME Inv, [Next]_vars PROVE Inv' /\ [Entries!Next]_(Entries!vars)
  OBVIOUS
<1>1. CASE UNCHANGED vars
  <2>1. UNCHANGED <<live, favorites, reviews, schedules, req>>
    BY <1>1 DEF vars
  <2>2. Pairs' = Pairs
    BY <2>1 DEF Pairs
  <2> QED BY <2>1, <2>2 DEF Entries!vars, Inv, TypeOK, Fits, RowsFit, FavoritesAreWhole,
                            ReviewsMatchBookings, BookedAttraction
<1>2. CASE Next
  <2>1. PICK r \in Requests : Serve(r) \/ Crash(r)
    BY <1>2 DEF Next
  <2>2. CASE \/ FavoriteGetAttraction(r) \/ FavoriteGetExisting(r) \/ FavoriteGet(r)
             \/ ReviewGetAttraction(r) \/ ReviewGetBooking(r)
             \/ ScheduleGetAttraction(r) \/ ScheduleGet(r) \/ ScheduleGetOwner(r)
             \/ DeleteAttractionLoad(r) \/ Crash(r)
    BY <2>2, ReadSteps
  <2>3. CASE FavoriteInsert(r) \/ FavoriteDelete(r) \/ ReviewInsert(r)
    BY <2>3, FavoriteInsertStep, FavoriteDeleteStep, ReviewInsertStep
  <2>4. CASE ScheduleInsert(r) \/ ScheduleUpdate(r) \/ ScheduleDelete(r)
    BY <2>4, ScheduleInsertStep, ScheduleUpdateStep, ScheduleDeleteStep
  <2>5. CASE DeleteAttractionWrite(r)
    BY <2>5, DeleteAttractionStep
  <2> QED BY <2>1, <2>2, <2>3, <2>4, <2>5 DEF Serve
<1> QED BY <1>1, <1>2

\* The invariant of every reachable state: rows are whole, and a request under way has
\* what its next statement needs (favorites.py, reviews.py, schedules.py).
THEOREM Invariance == Spec => []Inv
<1>1. Init => Inv
  BY InitInv
<1>2. Inv /\ [Next]_vars => Inv'
  BY NextStep
<1> QED BY <1>1, <1>2, PTL DEF Spec

\* Nobody has an attraction twice among his favourites, or one that is gone
\* (favorites.py, create_favorite; models/favorite.py, uq_user_attraction_favorite).
THEOREM FavoritesWhole == Spec => []FavoritesAreWhole
<1>1. Inv => FavoritesAreWhole
  BY DEF Inv
<1> QED BY <1>1, Invariance, PTL

\* A booking is reviewed once, by its tourist, under the attraction it was made for
\* (reviews.py, create_review; models/review.py, booking_id).
THEOREM ReviewsMatch == Spec => []ReviewsMatchBookings
<1>1. Inv => ReviewsMatchBookings
  BY DEF Inv
<1> QED BY <1>1, Invariance, PTL

\* Requests served together do to the tables what entries made one after the other
\* would (favorites.py, reviews.py, schedules.py, attraction_service.py).
THEOREM Implements == Spec => ImplementsCatalog
<1>1. Init => Entries!Init
  BY InitInv
<1>2. Inv /\ [Next]_vars => [Entries!Next]_(Entries!vars)
  BY NextStep
<1> QED BY <1>1, <1>2, Invariance, PTL DEF Spec, ImplementsCatalog, Entries!Spec

=============================================================================
