----------------------------- MODULE ListingsProofs -----------------------------
(***************************************************************************)
(* Proofs about Pages and Listings, for any number of rows, page sizes and *)
(* limit.                                                                  *)
(***************************************************************************)
EXTENDS Listings, TLAPS, FiniteSetTheorems

-----------------------------------------------------------------------------
(***************************************************************************)
(* Pages.                                                                  *)
(***************************************************************************)

\* What the division of TotalPages yields.
LEMMA Division ==
  ASSUME NEW total \in Nat, NEW perPage \in Nat \ {0}
  PROVE  /\ TotalPages(total, perPage) \in Nat
         /\ perPage * TotalPages(total, perPage) <= total + perPage - 1
         /\ total + perPage - 1 < perPage * (TotalPages(total, perPage) + 1)
<1>1. \A n \in Nat : /\ n \div perPage \in Nat
                     /\ perPage * (n \div perPage) <= n
                     /\ n < perPage * ((n \div perPage) + 1)
  OBVIOUS
<1> QED BY <1>1 DEF TotalPages

LEMMA Monotonic ==
  ASSUME NEW m \in Int, NEW n \in Int, m <= n, NEW k \in Nat PROVE k * m <= k * n
OBVIOUS

\* has_next of list_schedules, which multiplies, is the has_next of every other
\* listing, which divides and rounds up (schedules.py, favorites.py).
THEOREM HasNextForms ==
  ASSUME NEW total \in Nat, NEW perPage \in Nat \ {0}, NEW page \in Nat
  PROVE  HasNext(total, page, perPage) <=> HasNextSchedules(total, page, perPage)
<1> DEFINE t == TotalPages(total, perPage)
<1>1. /\ t \in Nat /\ perPage * t <= total + perPage - 1
      /\ total + perPage - 1 < perPage * (t + 1)
  BY Division
<1> HIDE DEF t
<1>2. perPage * (t + 1) = perPage * t + perPage /\ perPage * (page + 1) = perPage * page + perPage
  BY <1>1
<1>3. perPage * t \in Nat /\ perPage * page \in Nat /\ page * perPage = perPage * page
  BY <1>1
<1>4. CASE page < t
  <2>1. perPage * (page + 1) <= perPage * t
    BY <1>1, <1>4, Monotonic
  <2> QED BY <1>1, <1>2, <1>3, <1>4, <2>1 DEF HasNext, HasNextSchedules, t
<1>5. CASE t <= page
  <2>1. perPage * t <= perPage * page
    BY <1>1, <1>5, Monotonic
  <2> QED BY <1>1, <1>2, <1>3, <1>5, <2>1 DEF HasNext, HasNextSchedules, t
<1> QED BY <1>1, <1>4, <1>5

\* has_prev of list_schedules differs from the others' on an empty listing only
\* (schedules.py, favorites.py).
THEOREM HasPrevForms ==
  ASSUME NEW total \in Nat, NEW perPage \in Nat \ {0}, NEW page \in Nat
  PROVE  HasPrev(total, page, perPage) <=> HasPrevSchedules(page) /\ total > 0
<1>1. TotalPages(total, perPage) \in Nat /\ HasNext(total, 0, perPage) <=> 0 < TotalPages(total, perPage)
  BY Division DEF HasNext
<1>2. HasNext(total, 0, perPage) <=> 0 < total
  BY HasNextForms DEF HasNextSchedules
<1> QED BY <1>1, <1>2 DEF HasPrev, HasPrevSchedules, HasNext

\* Every row is on one page, and on one that total_pages counts.
THEOREM PagesPartition ==
  ASSUME NEW total \in Nat, NEW perPage \in Nat \ {0}, NEW i \in 0 .. total - 1
  PROVE  /\ \E p \in 1 .. TotalPages(total, perPage) : i \in Page(p, perPage)
         /\ \A p, q \in Nat \ {0} : i \in Page(p, perPage) /\ i \in Page(q, perPage) => p = q
<1> DEFINE d == i \div perPage
<1>1. d \in Nat /\ perPage * d <= i /\ i < perPage * (d + 1)
  OBVIOUS
<1> HIDE DEF d
<1>2. perPage * (d + 1) = perPage * d + perPage /\ perPage * d \in Nat
  BY <1>1
<1>3. i \in Page(d + 1, perPage)
  BY <1>1, <1>2 DEF Page
<1>4. HasNextSchedules(total, d, perPage)
  BY <1>1, <1>2 DEF HasNextSchedules
<1>5. d < TotalPages(total, perPage) /\ TotalPages(total, perPage) \in Nat
  BY <1>1, <1>4, HasNextForms, Division DEF HasNext
<1>6. ASSUME NEW p \in Nat \ {0}, NEW q \in Nat \ {0}, p < q,
             i \in Page(p, perPage), i \in Page(q, perPage)
      PROVE  FALSE
  <2>1. perPage * p <= perPage * (q - 1)
    BY <1>6, Monotonic
  <2> QED BY <1>6, <2>1 DEF Page
<1> QED BY <1>1, <1>3, <1>5, <1>6

-----------------------------------------------------------------------------
(***************************************************************************)
(* Sets of rows.                                                           *)
(***************************************************************************)
LEMMA Segment ==
  ASSUME NEW k \in Nat
  PROVE  IsFiniteSet(0 .. k - 1) /\ Cardinality(0 .. k - 1) = k
<1>1. 0 \in Int /\ k - 1 \in Int
  OBVIOUS
<1>2. /\ IsFiniteSet(0 .. k - 1)
      /\ Cardinality(0 .. k - 1) = IF 0 > k - 1 THEN 0 ELSE k - 1 - 0 + 1
  BY <1>1, FS_Interval
<1> QED BY <1>2

LEMMA RowsFinite ==
  ASSUME NEW S \in SUBSET Rows
  PROVE  IsFiniteSet(S) /\ Cardinality(S) \in Nat
<1>1. IsFiniteSet(Rows)
  BY ConstantsAssumption, FS_Interval DEF Rows
<1> QED BY <1>1, FS_Subset, FS_CardinalityType

\* A set of rows that is not empty has a newest one: of the sets of its rows newer than
\* one of them some is minimal, and the row it belongs to has none.
LEMMA NewestRow ==
  ASSUME NEW S \in SUBSET Rows, S # {}
  PROVE  \E k \in S : \A m \in S : m <= k
<1> DEFINE Above(k) == {m \in S : m > k}
           T == {Above(k) : k \in S}
           R == StrictSubsetOrdering(Rows)
<1>1. IsFiniteSet(Rows) /\ \A k \in S : k \in Int
  BY ConstantsAssumption, FS_Interval DEF Rows
<1>2. IsWellFoundedOn(R, FiniteSubsetsOf(Rows)) /\ FiniteSubsetsOf(Rows) = SUBSET Rows
  BY <1>1, FS_StrictSubsetOrderingWellFounded, FS_FiniteSubsetsOfFinite
<1>3. T \subseteq FiniteSubsetsOf(Rows) /\ T # {}
  <2>1. \A k \in S : Above(k) \subseteq Rows
    OBVIOUS
  <2>2. T \subseteq SUBSET Rows
    BY <2>1
  <2>3. \E k \in S : Above(k) \in T
    OBVIOUS
  <2> HIDE DEF T
  <2> QED BY <1>2, <2>2, <2>3
<1>4. \E A \in T : \A B \in T : ~(<<B, A>> \in R)
  <2> HIDE DEF T, R
  <2> QED BY <1>2, <1>3, WFMin
<1>5. PICK k \in S : \A j \in S : <<Above(j), Above(k)>> \notin R
  <2>1. PICK A \in T : \A B \in T : <<B, A>> \notin R
    BY <1>4
  <2>2. PICK k \in S : A = Above(k)
    OBVIOUS
  <2>3. \A j \in S : Above(j) \in T
    OBVIOUS
  <2> HIDE DEF T, R, Above
  <2> QED BY <2>1, <2>2, <2>3
<1>6. ASSUME NEW j \in S, j > k PROVE FALSE
  <2>1. Above(j) \subseteq Above(k) /\ j \in Above(k) /\ j \notin Above(j)
    BY <1>1, <1>6
  <2>2. <<Above(j), Above(k)>> \in R
    BY <2>1 DEF StrictSubsetOrdering
  <2> QED BY <1>5, <2>2
<1> QED BY <1>1, <1>6

LEMMA RankType ==
  ASSUME NEW S \in SUBSET Rows, NEW n \in S
  PROVE  Rank(n, S) \in Nat /\ Rank(n, S) < Cardinality(S)
<1> DEFINE A == {m \in S : m > n}
<1>1. A \subseteq S /\ n \notin A
  BY ConstantsAssumption DEF Rows
<1>2. IsFiniteSet(S) /\ Cardinality(S) \in Nat /\ Cardinality(A) \in Nat
  BY <1>1, RowsFinite
<1>3. Cardinality(A) <= Cardinality(S) /\ (Cardinality(S) = Cardinality(A) => S = A)
  BY <1>1, <1>2, FS_Subset
<1> QED BY <1>1, <1>2, <1>3 DEF Rank

\* Where every two rows differ in the sort key, the order of the result is that of
\* the key: the position of a row is the number of rows before it.
LEMMA OrderIsRank ==
  ASSUME NEW S \in SUBSET Rows, listing \in NewestFirst, NEW at \in Orders(S), NEW n \in S
  PROVE  at[n] = Rank(n, S)
<1> DEFINE c == Cardinality(S)
           A == {m \in S : m > n}
           B == 0 .. at[n] - 1
           f == [m \in A |-> at[m]]
<1>1. IsFiniteSet(S) /\ c \in Nat
  BY RowsFinite
<1>2. /\ at \in [S -> 0 .. c - 1]
      /\ \A m, k \in S : m # k => at[m] # at[k]
      /\ \A m, k \in S : m > k => at[m] < at[k]
  <2>1. \A m, k \in S : m > k => m # k /\ Before(m, k)
    BY ConstantsAssumption DEF Rows, Before, NewestFirst
  <2> QED BY <2>1 DEF Orders
<1>3. \A m \in S : m \in Int
  BY ConstantsAssumption DEF Rows
<1>4. at \in Surjection(S, 0 .. c - 1)
  <2>1. at \in Injection(S, 0 .. c - 1)
    BY <1>2 DEF Injection, IsInjective
  <2>2. IsFiniteSet(0 .. c - 1) /\ Cardinality(0 .. c - 1) = c
    BY <1>1, Segment
  <2> QED BY <2>1, <2>2, FS_Injection
<1>5. at[n] \in 0 .. c - 1 /\ \A m \in S : at[m] \in 0 .. c - 1
  BY <1>2
<1>6. \A m \in S : at[m] < at[n] => m > n
  BY <1>2, <1>3, <1>5
<1>7. f \in [A -> B] /\ \A m \in A : f[m] = at[m]
  BY <1>2, <1>5
<1>8. f \in Injection(A, B)
  BY <1>2, <1>7 DEF Injection, IsInjective
<1>9. f \in Surjection(A, B)
  <2> SUFFICES ASSUME NEW i \in B PROVE \E m \in A : f[m] = i
    BY <1>7 DEF Surjection
  <2>1. i \in 0 .. c - 1
    BY <1>1, <1>5
  <2>2. PICK m \in S : at[m] = i
    BY <1>4, <2>1 DEF Surjection
  <2>3. m \in A
    BY <1>5, <1>6, <2>2
  <2> QED BY <1>7, <2>2, <2>3
<1>10. IsFiniteSet(B) /\ Cardinality(B) = at[n]
  <2>1. at[n] \in Nat
    BY <1>1, <1>5
  <2> QED BY <2>1, Segment
<1>11. Cardinality(A) = Cardinality(B)
  BY <1>8, <1>9, <1>10, FS_Injection
<1> QED BY <1>10, <1>11 DEF Rank

-----------------------------------------------------------------------------
(***************************************************************************)
(* Steps that leave the walk alone.                                        *)
(***************************************************************************)
LEMMA StartedRows ==
  ASSUME QuietInv
  PROVE  /\ started \in 0 .. MaxRows /\ 1 .. started \subseteq Rows
         /\ present \subseteq Rows /\ pending \subseteq Rows /\ Unread \subseteq Rows
BY ConstantsAssumption DEF QuietInv, TypeOK, Rows, Unread

LEMMA WalkUnchanged ==
  ASSUME QuietInv, UNCHANGED <<listing, walk, present>>
  PROVE  QuietWalkFits' /\ walk' \in WalkState
BY DEF QuietInv, TypeOK, QuietWalkFits, PagesShown, Walking

LEMMA RowSteps ==
  ASSUME QuietInv, StartRow \/ RollbackRow
  PROVE  QuietInv'
<1>1. UNCHANGED <<listing, walk, present, read, marks>>
  BY DEF StartRow, RollbackRow
<1>2. started' \in 0 .. MaxRows /\ pending' \subseteq 1 .. started' /\ present \subseteq 1 .. started'
  <2>1. CASE StartRow
    <3>1. started' = started + 1 /\ started < MaxRows /\ pending' = pending \cup {started + 1}
      BY <2>1 DEF StartRow
    <3>2. started \in Nat /\ MaxRows \in Nat
      BY ConstantsAssumption DEF QuietInv, TypeOK
    <3>3. 1 .. started \subseteq 1 .. started + 1 /\ started + 1 \in 1 .. started + 1
      BY <3>2
    <3> QED BY <3>1, <3>2, <3>3 DEF QuietInv, TypeOK
  <2>2. CASE RollbackRow
    BY <2>2 DEF QuietInv, TypeOK, RollbackRow
  <2> QED BY <2>1, <2>2
<1>3. MarksFit'
  BY <1>1 DEF QuietInv, MarksFit
<1> QED BY <1>1, <1>2, <1>3, WalkUnchanged DEF QuietInv, TypeOK

LEMMA MarkSteps ==
  ASSUME QuietInv, MarkRead \/ \E t \in Tabs : MarkAllList(t) \/ MarkAllWrite(t) \/ CrashMark(t)
  PROVE  QuietInv'
<1>1. UNCHANGED <<listing, started, pending, present, walk>>
  BY DEF MarkRead, MarkAllList, MarkAllWrite, CrashMark
<1>2. QuietWalkFits' /\ walk' \in WalkState
  BY <1>1, WalkUnchanged
<1> DEFINE MarkState == [pc : {"idle", "write"}, ids : SUBSET Rows, unread : SUBSET Rows]
<1>3. NoMark \in MarkState /\ NoMark.pc = "idle"
  BY DEF NoMark
<1> HIDE DEF MarkState
<1> SUFFICES read' \subseteq present /\ marks' \in [Tabs -> MarkState] /\ MarksFit'
  BY <1>1, <1>2 DEF QuietInv, TypeOK, MarkState
<1>4. CASE MarkRead
  BY <1>1, <1>4 DEF MarkRead, QuietInv, TypeOK, MarksFit, MarkState
<1>5. ASSUME NEW t \in Tabs, MarkAllList(t)
      PROVE  read' \subseteq present /\ marks' \in [Tabs -> MarkState] /\ MarksFit'
  <2>1. PICK m : m = [pc |-> "write", ids |-> Newest(Unread), unread |-> Unread]
    OBVIOUS
  <2>2. marks' = [marks EXCEPT ![t] = m] /\ read' = read /\ listing = "notifications"
    BY <1>5, <2>1 DEF MarkAllList
  <2>3. /\ m \in MarkState /\ m.unread \subseteq present /\ m.ids = Newest(m.unread)
    BY <2>1, StartedRows DEF MarkState, Newest, Unread
  <2>4. MarksFit'
    BY <1>1, <2>2, <2>3 DEF QuietInv, TypeOK, MarksFit, MarkState, Newest, Rank
  <2> QED BY <2>2, <2>3, <2>4 DEF QuietInv, TypeOK, MarkState
<1>6. ASSUME NEW t \in Tabs, MarkAllWrite(t) \/ CrashMark(t)
      PROVE  read' \subseteq present /\ marks' \in [Tabs -> MarkState] /\ MarksFit'
  <2>1. marks' = [marks EXCEPT ![t] = NoMark] /\ read' \subseteq read \cup present
    BY <1>6 DEF MarkAllWrite, CrashMark
  <2>2. listing = "notifications"
    BY <1>6 DEF QuietInv, MarksFit, MarkAllWrite, CrashMark
  <2> QED BY <1>1, <1>3, <2>1, <2>2 DEF QuietInv, TypeOK, MarksFit, MarkState, Newest, Rank
<1> QED BY <1>4, <1>5, <1>6

-----------------------------------------------------------------------------
(***************************************************************************)
(* Steps of the walk, and rows that come and go meanwhile.                 *)
(***************************************************************************)

\* A step that commits or removes a row disturbs the walk under way.
LEMMA DisturbingSteps ==
  ASSUME QuietInv, CommitRow \/ RemoveRow
  PROVE  QuietInv'
<1>1. UNCHANGED <<listing, started, read, marks>>
  BY DEF CommitRow, RemoveRow
<1>2. /\ pending' \subseteq 1 .. started /\ present' \subseteq 1 .. started
      /\ listing = "notifications" => present \subseteq present'
  BY DEF QuietInv, TypeOK, CommitRow, RemoveRow
<1>3. MarksFit'
  BY <1>1, <1>2 DEF QuietInv, MarksFit, Newest, Rank
<1>4. read' \subseteq present'
  BY <1>1, <1>2 DEF QuietInv, TypeOK, MarksFit
<1>5. CASE ~Walking
  <2>1. walk' = walk
    BY <1>5 DEF CommitRow, RemoveRow
  <2>2. QuietWalkFits'
    BY <1>1, <1>5, <2>1 DEF QuietInv, QuietWalkFits, Walking, PagesShown
  <2> QED BY <1>1, <1>2, <1>3, <1>4, <2>1, <2>2 DEF QuietInv, TypeOK
<1>6. CASE Walking
  <2>1. walk \in WalkState
    BY DEF QuietInv, TypeOK
  <2>2. walk.removed \in Nat /\ walk.late \in Nat /\ walk.stayed \in SUBSET Rows
    BY <2>1 DEF WalkState
  <2>3. walk' \in WalkState /\ ~walk'.quiet
    <3>1. CASE CommitRow
      <4>1. PICK late : /\ late = IF walk.pc = "page" /\ listing \in CountFirst
                                    THEN walk.late + 1 ELSE walk.late
                        /\ walk' = [walk EXCEPT !.quiet = FALSE, !.late = late]
        BY <1>6, <3>1 DEF CommitRow
      <4>2. late \in Nat
        BY <2>2, <4>1
      <4> QED BY <2>1, <4>1, <4>2 DEF WalkState
    <3>2. CASE RemoveRow
      <4>1. PICK n \in present :
              walk' = [walk EXCEPT !.quiet = FALSE, !.removed = walk.removed + 1,
                                   !.stayed = walk.stayed \ {n}]
        BY <1>6, <3>2 DEF RemoveRow
      <4>a. PICK removed \in Nat : removed = walk.removed + 1
        BY <2>2
      <4>b. PICK stayed : stayed = walk.stayed \ {n}
        OBVIOUS
      <4>2. stayed \in SUBSET Rows
        BY <2>2, <4>b
      <4>3. walk' = [walk EXCEPT !.quiet = FALSE, !.removed = removed, !.stayed = stayed]
        BY <4>1, <4>a, <4>b
      <4> QED BY <2>1, <4>2, <4>3 DEF WalkState
    <3> QED BY <3>1, <3>2
  <2> QED BY <1>1, <1>2, <1>3, <1>4, <2>3 DEF QuietInv, TypeOK, QuietWalkFits
<1> QED BY <1>5, <1>6

\* What a response does to a walk: it ends, or goes on to the next page.
LEMMA RespondStep ==
  ASSUME QuietInv, NEW w \in WalkState, w.pc \in {"count", "page"}, Respond(w),
         UNCHANGED <<listing, present>>,
         listing \in NewestFirst /\ w.quiet =>
           /\ present = w.stayed
           /\ w.page >= 1 /\ w.perPage \in PerPages /\ w.repeats = 0
           /\ w.shown = {n \in w.stayed : Rank(n, w.stayed) < w.page * w.perPage}
           /\ w.page > 1 => HasNext(Cardinality(w.stayed), w.page - 1, w.perPage)
           /\ w.total = Cardinality(w.stayed)
  PROVE  walk' \in WalkState /\ QuietWalkFits'
<1>1. w.page \in Nat /\ w.page + 1 \in Nat
  BY DEF WalkState
<1>2. CASE More(w.total, w.page, w.perPage)
  <2>1. PICK pc \in {"count", "page"} : pc = FirstStatement
    BY DEF FirstStatement
  <2>2. PICK page \in Nat : page = w.page + 1
    BY <1>1
  <2>3. walk' = [w EXCEPT !.page = page, !.pc = pc]
    BY <1>2, <2>1, <2>2 DEF Respond
  <2>4. walk' \in WalkState
    BY <2>3 DEF WalkState
  <2>5. /\ walk'.pc = pc /\ walk'.page = page /\ walk'.quiet = w.quiet
        /\ walk'.stayed = w.stayed /\ walk'.perPage = w.perPage /\ walk'.repeats = w.repeats
        /\ walk'.shown = w.shown /\ walk'.total = w.total
    BY <2>3 DEF WalkState
  <2>6. PagesShown' = w.page /\ ~(pc = "page" /\ listing \in CountFirst)
    BY <1>1, <2>1, <2>2, <2>5 DEF PagesShown, FirstStatement
  <2>7. listing \in NewestFirst => HasNext(w.total, w.page, w.perPage) /\ page - 1 = w.page
    BY <1>1, <1>2, <2>2 DEF More, NewestFirst
  <2>8. QuietWalkFits'
    BY <1>1, <2>1, <2>2, <2>5, <2>6, <2>7 DEF QuietWalkFits
  <2> QED BY <2>4, <2>8
<1>3. CASE ~More(w.total, w.page, w.perPage)
  <2>1. walk' = [w EXCEPT !.pc = "done"]
    BY <1>3 DEF Respond
  <2>2. walk' \in WalkState
    BY <2>1 DEF WalkState
  <2>3. /\ walk'.pc = "done" /\ walk'.page = w.page /\ walk'.quiet = w.quiet
        /\ walk'.stayed = w.stayed /\ walk'.perPage = w.perPage /\ walk'.repeats = w.repeats
        /\ walk'.shown = w.shown /\ walk'.total = w.total
    BY <2>1 DEF WalkState
  <2>4. PagesShown' = w.page
    BY <2>3 DEF PagesShown
  <2>5. listing \in NewestFirst => ~HasNext(w.total, w.page, w.perPage)
    BY <1>3 DEF More, NewestFirst
  <2> QED BY <2>2, <2>3, <2>4, <2>5 DEF QuietWalkFits, Walking
<1> QED BY <1>2, <1>3

LEMMA StartWalkStep == ASSUME QuietInv, StartWalk PROVE QuietInv'
<1>1. UNCHANGED <<listing, started, pending, present, read, marks>>
  BY DEF StartWalk
<1>2. PICK p \in PerPages :
        walk' = [NoWalk EXCEPT !.pc = FirstStatement, !.page = 1, !.perPage = p,
                               !.stayed = present]
  BY DEF StartWalk
<1>3. p \in Nat /\ FirstStatement \in {"count", "page"} /\ present \subseteq Rows
  BY ConstantsAssumption, StartedRows DEF FirstStatement
<1>4. /\ walk' \in WalkState /\ walk'.pc = FirstStatement /\ walk'.page = 1
      /\ walk'.perPage = p /\ walk'.stayed = present /\ walk'.shown = {} /\ walk'.repeats = 0
  BY <1>2, <1>3 DEF WalkState, NoWalk
<1>5. PagesShown' = 0
  BY <1>1, <1>4 DEF PagesShown, FirstStatement
<1>6. {n \in present : Rank(n, present) < 0 * p} = {}
  BY <1>3, RankType
<1>7. ~(FirstStatement = "page" /\ listing \in CountFirst)
  BY DEF FirstStatement
<1>8. QuietWalkFits'
  BY <1>1, <1>3, <1>4, <1>5, <1>6, <1>7 DEF QuietWalkFits
<1> QED BY <1>1, <1>4, <1>8 DEF QuietInv, TypeOK, MarksFit, Newest, Rank

LEMMA AbandonWalkStep == ASSUME QuietInv, AbandonWalk PROVE QuietInv'
<1>1. walk' = NoWalk /\ UNCHANGED <<listing, started, pending, present, read, marks>>
  BY DEF AbandonWalk
<1>2. NoWalk \in WalkState /\ NoWalk.pc = "idle"
  BY DEF NoWalk, WalkState
<1>3. MarksFit'
  BY <1>1 DEF QuietInv, MarksFit, Newest, Rank
<1> QED BY <1>1, <1>2, <1>3 DEF QuietInv, TypeOK, QuietWalkFits

LEMMA CountStep == ASSUME QuietInv, Count PROVE QuietInv'
<1>1. UNCHANGED <<listing, started, pending, present, read, marks>> /\ walk.pc = "count"
  BY DEF Count
<1>2. PICK c \in Nat : c = Cardinality(present)
  BY StartedRows, RowsFinite
<1>3. PICK w : w = [walk EXCEPT !.total = c, !.late = 0]
  OBVIOUS
<1>t. walk \in WalkState
  BY DEF QuietInv, TypeOK
<1>4. /\ w \in WalkState /\ w.pc = "count" /\ w.total = c /\ w.page = walk.page
      /\ w.perPage = walk.perPage /\ w.shown = walk.shown /\ w.repeats = walk.repeats
      /\ w.stayed = walk.stayed /\ w.quiet = walk.quiet
  BY <1>1, <1>3, <1>t DEF WalkState
<1>5. MarksFit'
  BY <1>1 DEF QuietInv, MarksFit, Newest, Rank
<1>6. listing \in NewestFirst /\ walk.quiet =>
        /\ present = walk.stayed
        /\ walk.page >= 1 /\ walk.perPage \in PerPages /\ walk.repeats = 0
        /\ walk.shown = {n \in walk.stayed : Rank(n, walk.stayed) < PagesShown * walk.perPage}
        /\ walk.page > 1 => HasNext(Cardinality(walk.stayed), walk.page - 1, walk.perPage)
  BY <1>1 DEF QuietInv, QuietWalkFits, Walking
<1>7. CASE listing \in CountFirst
  <2>1. walk' = [w EXCEPT !.pc = "page"]
    BY <1>2, <1>3, <1>7 DEF Count
  <2>2. /\ walk' \in WalkState /\ walk'.pc = "page" /\ walk'.total = c /\ walk'.page = walk.page
        /\ walk'.perPage = walk.perPage /\ walk'.shown = walk.shown
        /\ walk'.repeats = walk.repeats /\ walk'.stayed = walk.stayed /\ walk'.quiet = walk.quiet
    BY <1>4, <2>1 DEF WalkState
  <2>3. PagesShown' = walk.page - 1 /\ PagesShown = walk.page - 1
    BY <1>1, <1>7, <2>2 DEF PagesShown
  <2>4. QuietWalkFits'
    BY <1>1, <1>2, <1>6, <2>2, <2>3 DEF QuietWalkFits
  <2> QED BY <1>1, <1>5, <2>2, <2>4 DEF QuietInv, TypeOK
<1>8. CASE listing \notin CountFirst
  <2>1. Respond(w)
    BY <1>2, <1>3, <1>8 DEF Count
  <2>2. PagesShown = walk.page
    BY <1>1, <1>8 DEF PagesShown
  <2>3. walk' \in WalkState /\ QuietWalkFits'
    BY <1>1, <1>2, <1>4, <1>6, <2>1, <2>2, RespondStep
  <2> QED BY <1>1, <1>5, <2>3 DEF QuietInv, TypeOK
<1> QED BY <1>7, <1>8

\* On a page of a quiet walk are the rows its position says.
LEMMA PageOfQuietWalk ==
  ASSUME NEW S \in SUBSET Rows, listing \in NewestFirst, NEW at \in Orders(S),
         NEW page \in Nat, page >= 1, NEW perPage \in Nat
  PROVE  LET items == {n \in S : at[n] \in Page(page, perPage)}
             shown == {n \in S : Rank(n, S) < (page - 1) * perPage}
         IN  /\ shown \cup items = {n \in S : Rank(n, S) < page * perPage}
             /\ items \cap shown = {}
<1>1. \A n \in S : at[n] = Rank(n, S) /\ Rank(n, S) \in Nat
  BY OrderIsRank, RankType
<1>2. PICK low \in Int : low = (page - 1) * perPage
  OBVIOUS
<1>3. PICK high \in Int : high = page * perPage
  OBVIOUS
<1>4. low <= high
  <2>1. perPage * (page - 1) <= perPage * page
    BY Monotonic
  <2> QED BY <1>2, <1>3, <2>1
<1>5. \A n \in S : at[n] \in Page(page, perPage) <=> low <= Rank(n, S) /\ Rank(n, S) < high
  BY <1>1, <1>2, <1>3 DEF Page
<1> QED BY <1>1, <1>2, <1>3, <1>4, <1>5

LEMMA ReadPageStep == ASSUME QuietInv, ReadPage PROVE QuietInv'
<1>1. UNCHANGED <<listing, started, pending, present, read, marks>> /\ walk.pc = "page"
  BY DEF ReadPage
<1>2. PICK at, items, w :
        /\ at \in Orders(present)
        /\ items = {n \in present : at[n] \in Page(walk.page, walk.perPage)}
        /\ w = [walk EXCEPT !.shown = walk.shown \cup items,
                            !.repeats = walk.repeats + Cardinality(items \cap walk.shown)]
        /\ IF listing \in CountFirst THEN Respond(w) ELSE walk' = [w EXCEPT !.pc = "count"]
  BY DEF ReadPage
<1>t. walk \in WalkState /\ present \subseteq Rows
  BY StartedRows DEF QuietInv, TypeOK
<1>3. PICK repeats \in Nat : repeats = walk.repeats + Cardinality(items \cap walk.shown)
  <2>1. walk.repeats \in Nat /\ items \cap walk.shown \in SUBSET Rows
    BY <1>2, <1>t DEF WalkState
  <2>2. Cardinality(items \cap walk.shown) \in Nat
    BY <2>1, RowsFinite
  <2> QED BY <2>1, <2>2
<1>4. PICK shown \in SUBSET Rows : shown = walk.shown \cup items
  BY <1>2, <1>t DEF WalkState
<1>5. w = [walk EXCEPT !.shown = shown, !.repeats = repeats]
  BY <1>2, <1>3, <1>4
<1>6. /\ w \in WalkState /\ w.pc = "page" /\ w.page = walk.page /\ w.total = walk.total
      /\ w.perPage = walk.perPage /\ w.shown = shown /\ w.repeats = repeats
      /\ w.stayed = walk.stayed /\ w.quiet = walk.quiet
  BY <1>1, <1>5, <1>t DEF WalkState
<1>7. PagesShown = walk.page - 1
  BY <1>1 DEF PagesShown
<1>8. listing \in NewestFirst /\ walk.quiet =>
        /\ present = walk.stayed
        /\ walk.page >= 1 /\ walk.perPage \in PerPages /\ walk.repeats = 0
        /\ walk.shown = {n \in walk.stayed : Rank(n, walk.stayed) < (walk.page - 1) * walk.perPage}
        /\ walk.page > 1 => HasNext(Cardinality(walk.stayed), walk.page - 1, walk.perPage)
        /\ listing \in CountFirst => walk.total = Cardinality(walk.stayed)
  BY <1>1, <1>7 DEF QuietInv, QuietWalkFits, Walking
<1>9. ASSUME listing \in NewestFirst, walk.quiet
      PROVE  /\ shown = {n \in walk.stayed : Rank(n, walk.stayed) < walk.page * walk.perPage}
             /\ repeats = 0
  <2>1. walk.page \in Nat /\ walk.page >= 1 /\ walk.perPage \in Nat
    BY <1>8, <1>9, <1>t DEF WalkState
  <2>2. PICK before : /\ before = {n \in present : Rank(n, present) < (walk.page - 1) * walk.perPage}
                      /\ before = walk.shown
    BY <1>8, <1>9
  <2>3. /\ before \cup items = {n \in present : Rank(n, present) < walk.page * walk.perPage}
        /\ items \cap before = {}
    BY <1>2, <1>9, <1>t, <2>1, <2>2, PageOfQuietWalk
  <2>4. Cardinality(items \cap walk.shown) = 0
    BY <2>2, <2>3, FS_EmptySet
  <2> QED BY <1>3, <1>4, <1>8, <1>9, <2>2, <2>3, <2>4
<1>10. MarksFit'
  BY <1>1 DEF QuietInv, MarksFit, Newest, Rank
<1>11. CASE listing \in CountFirst
  <2>1. Respond(w)
    BY <1>2, <1>11
  <2>2. walk' \in WalkState /\ QuietWalkFits'
    BY <1>1, <1>6, <1>8, <1>9, <1>11, <2>1, RespondStep
  <2> QED BY <1>1, <1>10, <2>2 DEF QuietInv, TypeOK
<1>12. CASE listing \notin CountFirst
  <2>1. walk' = [w EXCEPT !.pc = "count"]
    BY <1>2, <1>12
  <2>2. /\ walk' \in WalkState /\ walk'.pc = "count" /\ walk'.page = walk.page
        /\ walk'.perPage = walk.perPage /\ walk'.shown = shown /\ walk'.repeats = repeats
        /\ walk'.stayed = walk.stayed /\ walk'.quiet = walk.quiet
    BY <1>6, <2>1 DEF WalkState
  <2>3. PagesShown' = walk.page
    BY <1>1, <1>12, <2>2 DEF PagesShown
  <2>4. QuietWalkFits'
    BY <1>1, <1>8, <1>9, <2>2, <2>3 DEF QuietWalkFits
  <2> QED BY <1>1, <1>10, <2>2, <2>4 DEF QuietInv, TypeOK
<1> QED BY <1>11, <1>12

-----------------------------------------------------------------------------
(***************************************************************************)
(* What a walk that is disturbed may miss.                                 *)
(***************************************************************************)

\* Cardinalities of sets of rows.
LEMMA RowSets ==
  ASSUME NEW A \in SUBSET Rows, NEW B \in SUBSET Rows
  PROVE  /\ A \subseteq B => Cardinality(A) <= Cardinality(B)
         /\ Cardinality(A \cup B)
              = Cardinality(A) + Cardinality(B) - Cardinality(A \cap B)
         /\ Cardinality(A \ B) = Cardinality(A) - Cardinality(A \cap B)
         /\ \A n : Cardinality(A \cup {n}) <= Cardinality(A) + 1
<1>1. IsFiniteSet(A) /\ IsFiniteSet(B) /\ Cardinality(A) \in Nat /\ Cardinality(B) \in Nat
  BY RowsFinite
<1>2. A \subseteq B => Cardinality(A) <= Cardinality(B)
  BY <1>1, FS_Subset
<1>3. Cardinality(A \cup B) = Cardinality(A) + Cardinality(B) - Cardinality(A \cap B)
  BY <1>1, FS_Union
<1>4. Cardinality(A \ B) = Cardinality(A) - Cardinality(A \cap B)
  BY <1>1, FS_Difference
<1>5. ASSUME NEW n PROVE Cardinality(A \cup {n}) <= Cardinality(A) + 1
  <2>1. Cardinality(A \cup {n}) = IF n \in A THEN Cardinality(A) ELSE Cardinality(A) + 1
    BY <1>1, FS_AddElement
  <2> HIDE DEF Rows
  <2> QED BY <1>1, <2>1
<1> QED BY <1>2, <1>3, <1>4, <1>5

\* Two rows have different positions, the newer the smaller one.
LEMMA RankDistinct ==
  ASSUME NEW S \in SUBSET Rows, NEW m \in S, NEW n \in S, m < n
  PROVE  Rank(n, S) < Rank(m, S)
<1> DEFINE A == {k \in S : k > n}
           B == {k \in S : k > m}
<1>n. /\ m \in Int /\ n \in Int /\ \A k \in S : k \in Int
  BY ConstantsAssumption DEF Rows
<1>1. A \subseteq B /\ n \in B /\ n \notin A
  <2>1. ~(n > n) /\ \A k \in S : k > n => k > m
    BY <1>n
  <2>2. n > m
    BY <1>n
  <2> QED BY <2>1, <2>2
<1>2. /\ IsFiniteSet(B) /\ Cardinality(A) \in Nat /\ Cardinality(B) \in Nat
      /\ A \in SUBSET Rows /\ B \in SUBSET Rows
  BY RowsFinite
<1>3. Cardinality(A) <= Cardinality(B) /\ (Cardinality(B) = Cardinality(A) => B = A)
  BY <1>1, <1>2, FS_Subset
<1> QED BY <1>1, <1>2, <1>3 DEF Rank

\* More rows, greater positions; without one of them, smaller by one at most.
LEMMA RankGrows ==
  ASSUME NEW T \in SUBSET Rows, NEW S \in SUBSET T, NEW n \in Rows
  PROVE  Rank(n, S) \in Nat /\ Rank(n, T) \in Nat /\ Rank(n, S) <= Rank(n, T)
<1> DEFINE A == {k \in S : k > n}
           B == {k \in T : k > n}
<1>1. A \subseteq B /\ A \in SUBSET Rows /\ B \in SUBSET Rows
  OBVIOUS
<1>2. Cardinality(A) \in Nat /\ Cardinality(B) \in Nat /\ Cardinality(A) <= Cardinality(B)
  BY <1>1, RowsFinite, RowSets
<1> QED BY <1>2 DEF Rank

LEMMA RankWithout ==
  ASSUME NEW S \in SUBSET Rows, NEW r \in S, NEW n \in Rows
  PROVE  /\ Rank(n, S \ {r}) \in Nat /\ Rank(n, S) \in Nat
         /\ Rank(n, S) <= Rank(n, S \ {r}) + 1
<1> DEFINE A == {k \in S \ {r} : k > n}
           B == {k \in S : k > n}
<1>1. A \in SUBSET Rows /\ B \in SUBSET Rows /\ A \cup {r} \in SUBSET Rows /\ B \subseteq A \cup {r}
  OBVIOUS
<1>2. Cardinality(A) \in Nat /\ Cardinality(B) \in Nat /\ Cardinality(A \cup {r}) \in Nat
  BY <1>1, RowsFinite
<1>3. Cardinality(B) <= Cardinality(A \cup {r})
  BY <1>1, RowSets
<1>4. Cardinality(A \cup {r}) <= Cardinality(A) + 1
  BY <1>1, RowSets
<1> QED BY <1>2, <1>3, <1>4 DEF Rank

\* A row that is committed pushes others out of the pages shown, never into them.
LEMMA CommittedMisses ==
  ASSUME NEW T \in SUBSET Rows, NEW S \in SUBSET T, NEW A \in SUBSET S, NEW K \in Int
  PROVE  Cardinality({n \in A : Rank(n, T) < K}) <= Cardinality({n \in A : Rank(n, S) < K})
<1>1. PICK B : B = {n \in A : Rank(n, T) < K}
  OBVIOUS
<1>2. PICK C : C = {n \in A : Rank(n, S) < K}
  OBVIOUS
<1>3. \A n \in A : Rank(n, S) \in Nat /\ Rank(n, T) \in Nat /\ Rank(n, S) <= Rank(n, T)
  BY RankGrows
<1>4. B \subseteq C /\ B \in SUBSET Rows /\ C \in SUBSET Rows
  BY <1>1, <1>2, <1>3
<1> QED BY <1>1, <1>2, <1>4, RowSets

\* A row that is removed lets one other at most come into them.
LEMMA RemovedMisses ==
  ASSUME NEW S \in SUBSET Rows, NEW A \in SUBSET S, NEW r \in S, NEW K \in Int
  PROVE  Cardinality({n \in A \ {r} : Rank(n, S \ {r}) < K})
           <= Cardinality({n \in A : Rank(n, S) < K}) + 1
<1>1. PICK B : B = {n \in A \ {r} : Rank(n, S \ {r}) < K}
  OBVIOUS
<1>2. PICK C : C = {n \in A : Rank(n, S) < K}
  OBVIOUS
<1>3. PICK E : E = {n \in A : Rank(n, S) = K}
  OBVIOUS
<1>4. \A n \in A : /\ Rank(n, S \ {r}) \in Nat /\ Rank(n, S) \in Nat
                   /\ Rank(n, S) <= Rank(n, S \ {r}) + 1
  BY RankWithout
<1>5. B \subseteq C \cup E
  BY <1>1, <1>2, <1>3, <1>4
<1>6. B \in SUBSET Rows /\ C \in SUBSET Rows
  BY <1>1, <1>2
<1>7. Cardinality(B) \in Nat /\ Cardinality(C) \in Nat
  BY <1>6, RowsFinite
<1>8. CASE E = {}
  <2>1. B \subseteq C
    BY <1>5, <1>8
  <2>2. Cardinality(B) <= Cardinality(C)
    BY <1>6, <2>1, RowSets
  <2> QED BY <1>1, <1>2, <1>7, <2>2
<1>9. CASE E # {}
  <2>1. PICK e \in E : TRUE
    BY <1>9
  <2>2. ASSUME NEW n \in E, n # e PROVE FALSE
    <3>1. n \in S /\ e \in S /\ Rank(n, S) = K /\ Rank(e, S) = K /\ n \in Int /\ e \in Int
      BY <1>3, <2>1, <2>2, ConstantsAssumption DEF Rows
    <3>2. n < e \/ e < n
      BY <2>2, <3>1
    <3>3. Rank(n, S) < Rank(e, S) \/ Rank(e, S) < Rank(n, S)
      BY <3>1, <3>2, RankDistinct
    <3> QED BY <3>1, <3>3
  <2>3. C \cup {e} \in SUBSET Rows /\ B \subseteq C \cup {e}
    BY <1>3, <1>5, <1>6, <2>1, <2>2
  <2>4. Cardinality(B) <= Cardinality(C \cup {e})
    BY <1>6, <2>3, RowSets
  <2>5. Cardinality(C \cup {e}) <= Cardinality(C) + 1 /\ Cardinality(C \cup {e}) \in Nat
    BY <1>6, <2>3, RowSets, RowsFinite
  <2> QED BY <1>1, <1>2, <1>7, <2>4, <2>5
<1> QED BY <1>8, <1>9

\* Rows that have positions of their own are at most as many beyond the pages shown
\* as there are positions beyond them.
LEMMA RowsBeyond ==
  ASSUME NEW S \in SUBSET Rows, NEW A \in SUBSET S, NEW K \in Int, NEW late \in Nat,
         Cardinality(S) <= K + late
  PROVE  Cardinality(A) <= Cardinality({n \in A : Rank(n, S) < K}) + late
<1>1. PICK C : C = {n \in A : Rank(n, S) < K}
  OBVIOUS
<1>2. PICK H : H = {n \in A : Rank(n, S) >= K}
  OBVIOUS
<1>3. \A n \in S : Rank(n, S) \in Nat /\ Rank(n, S) < Cardinality(S) /\ n \in Int
  BY RankType, ConstantsAssumption DEF Rows
<1>4. Cardinality(S) \in Nat
  BY RowsFinite
<1> DEFINE I == K .. K + late - 1
           f == [n \in H |-> Rank(n, S)]
<1>5. f \in [H -> I] /\ \A n \in H : f[n] = Rank(n, S)
  BY <1>2, <1>3, <1>4
<1>6. ASSUME NEW m \in H, NEW n \in H, m # n PROVE f[m] # f[n]
  <2>1. m \in S /\ n \in S /\ (m < n \/ n < m)
    BY <1>2, <1>3, <1>6
  <2>2. Rank(n, S) < Rank(m, S) \/ Rank(m, S) < Rank(n, S)
    BY <2>1, RankDistinct
  <2> QED BY <1>3, <1>5, <2>1, <2>2
<1>7. f \in Injection(H, I)
  BY <1>5, <1>6 DEF Injection, IsInjective
<1>8. IsFiniteSet(I) /\ Cardinality(I) = late
  <2>1. K \in Int /\ K + late - 1 \in Int
    OBVIOUS
  <2>2. IsFiniteSet(I) /\ Cardinality(I) = IF K > K + late - 1 THEN 0 ELSE K + late - 1 - K + 1
    BY <2>1, FS_Interval
  <2> QED BY <2>2
<1>9. Cardinality(H) <= late
  BY <1>7, <1>8, FS_Injection
<1>10. C \in SUBSET Rows /\ H \in SUBSET Rows /\ A = C \cup H
  BY <1>1, <1>2, <1>3
<1>11. /\ Cardinality(A) = Cardinality(C) + Cardinality(H) - Cardinality(C \cap H)
       /\ C \cap H \in SUBSET Rows
  BY <1>10, RowSets
<1>12. /\ Cardinality(C) \in Nat /\ Cardinality(H) \in Nat /\ Cardinality(C \cap H) \in Nat
  BY <1>10, <1>11, RowsFinite
<1> QED BY <1>1, <1>9, <1>11, <1>12

\* A walk that has shown as many rows as there are, or as many but a few, has missed as
\* many as it has shown of rows that were removed, and those few.
LEMMA SeenEnough ==
  ASSUME NEW S \in SUBSET Rows, NEW stayed \in SUBSET S, NEW shown \in SUBSET Rows,
         NEW removed \in Nat, Cardinality(shown \ S) <= removed,
         NEW more \in Nat, Cardinality(S) <= Cardinality(shown) + more
  PROVE  Cardinality(stayed \ shown) <= removed + more
<1>1. /\ shown \ S \in SUBSET Rows /\ S \ shown \in SUBSET Rows /\ S \cap shown \in SUBSET Rows
      /\ stayed \ shown \in SUBSET Rows /\ stayed \ shown \subseteq S \ shown
      /\ shown \cap S = S \cap shown
  OBVIOUS
<1>2. /\ Cardinality(S) \in Nat /\ Cardinality(shown) \in Nat
      /\ Cardinality(shown \ S) \in Nat /\ Cardinality(S \ shown) \in Nat
      /\ Cardinality(S \cap shown) \in Nat /\ Cardinality(stayed \ shown) \in Nat
  BY <1>1, RowsFinite
<1>3. Cardinality(S \ shown) = Cardinality(S) - Cardinality(S \cap shown)
  BY RowSets
<1>4. Cardinality(shown \ S) = Cardinality(shown) - Cardinality(S \cap shown)
  <2>1. Cardinality(shown \ S) = Cardinality(shown) - Cardinality(shown \cap S)
    BY RowSets
  <2> QED BY <1>1, <2>1
<1>5. Cardinality(stayed \ shown) <= Cardinality(S \ shown)
  BY <1>1, RowSets
<1> QED BY <1>2, <1>3, <1>4, <1>5

\* In whatever order the database returns the rows, there is one at each position.
LEMMA PageFilled ==
  ASSUME NEW S \in SUBSET Rows, NEW at \in Orders(S), NEW K \in Nat, NEW k \in Nat,
         K + k <= Cardinality(S), NEW items \in SUBSET S,
         \A n \in S : at[n] \in K .. K + k - 1 => n \in items
  PROVE  k <= Cardinality(items)
<1> DEFINE c == Cardinality(S)
           I == K .. K + k - 1
           A == {n \in S : at[n] \in I}
           f == [n \in A |-> at[n]]
<1>1. IsFiniteSet(S) /\ c \in Nat
  BY RowsFinite
<1>2. at \in [S -> 0 .. c - 1] /\ \A m, n \in S : m # n => at[m] # at[n]
  BY DEF Orders
<1>3. at \in Surjection(S, 0 .. c - 1)
  <2>1. at \in Injection(S, 0 .. c - 1)
    BY <1>2 DEF Injection, IsInjective
  <2>2. IsFiniteSet(0 .. c - 1) /\ Cardinality(0 .. c - 1) = c
    BY <1>1, Segment
  <2> QED BY <2>1, <2>2, FS_Injection, <1>1
<1>4. f \in [A -> I] /\ \A n \in A : f[n] = at[n]
  OBVIOUS
<1>5. f \in Surjection(A, I)
  <2> SUFFICES ASSUME NEW i \in I PROVE \E n \in A : f[n] = i
    BY <1>4 DEF Surjection
  <2>1. i \in 0 .. c - 1
    BY <1>1
  <2>2. PICK n \in S : at[n] = i
    BY <1>3, <2>1 DEF Surjection
  <2>3. n \in A
    BY <2>2
  <2> QED BY <1>4, <2>2, <2>3
<1>6. A \in SUBSET Rows /\ items \in SUBSET Rows /\ A \subseteq items
  OBVIOUS
<1>7. IsFiniteSet(A) /\ Cardinality(A) \in Nat /\ Cardinality(items) \in Nat
  BY <1>6, RowsFinite
<1>8. Cardinality(I) <= Cardinality(A)
  BY <1>5, <1>7, FS_Surjection
<1>9. Cardinality(I) = k
  <2>1. K \in Int /\ K + k - 1 \in Int
    OBVIOUS
  <2>2. Cardinality(I) = IF K > K + k - 1 THEN 0 ELSE K + k - 1 - K + 1
    BY <2>1, FS_Interval
  <2> QED BY <2>2
<1>10. Cardinality(A) <= Cardinality(items)
  BY <1>6, RowSets
<1> QED BY <1>7, <1>8, <1>9, <1>10


\* What a walk w may have missed of the rows S by the end of the first K positions.
MissesFit(w, K, S) ==
  /\ listing \in NewestFirst =>
       Cardinality({n \in w.stayed \ w.shown : Rank(n, S) < K}) <= w.removed
  /\ listing \notin NewestFirst =>
       /\ Cardinality(w.shown \ S) <= w.removed
       /\ \/ Cardinality(w.shown) + w.repeats >= K
          \/ Cardinality(w.stayed \ w.shown) <= w.removed + w.repeats

\* The two properties together are inductive.
Misses == MissesSoFarAreBounded /\ WalkMissesAreBounded

LEMMA MissesOfWalk ==
  ASSUME QuietInv, Misses, Walking
  PROVE  /\ walk \in WalkState /\ present \in SUBSET Rows
         /\ walk.stayed \subseteq present /\ walk.page >= 1
         /\ walk.perPage \in PerPages /\ walk.perPage \in Nat \ {0}
         /\ walk.pc = "page" /\ listing \in CountFirst =>
              Cardinality(present) <= walk.total + walk.late
         /\ MissesFit(walk, PagesShown * walk.perPage, present)
BY StartedRows, ConstantsAssumption DEF Misses, MissesSoFarAreBounded, MissesFit, QuietInv, TypeOK

LEMMA MissesKept ==
  ASSUME Misses, UNCHANGED <<listing, walk, present>>
  PROVE  Misses'
BY DEF Misses, MissesSoFarAreBounded, WalkMissesAreBounded, Walking, PagesShown, Rank

LEMMA MissesInit == Init => Misses
BY DEF Init, NoWalk, Misses, MissesSoFarAreBounded, WalkMissesAreBounded, Walking

\* A row that is committed while a walk is under way.
LEMMA MissesCommit == ASSUME QuietInv, Misses, CommitRow PROVE Misses'
<1>1. PICK r \in pending : present' = present \cup {r} /\ listing' = listing
  BY DEF CommitRow
<1>2. CASE ~Walking
  <2>1. walk' = walk
    BY <1>2 DEF CommitRow
  <2> QED BY <1>1, <1>2, <2>1 DEF Misses, MissesSoFarAreBounded, WalkMissesAreBounded, Walking
<1>3. CASE Walking
  <2>1. /\ walk \in WalkState /\ present \in SUBSET Rows
        /\ walk.stayed \subseteq present /\ walk.page >= 1
        /\ walk.perPage \in PerPages /\ walk.perPage \in Nat \ {0}
        /\ walk.pc = "page" /\ listing \in CountFirst =>
             Cardinality(present) <= walk.total + walk.late
        /\ MissesFit(walk, PagesShown * walk.perPage, present)
    BY <1>3, MissesOfWalk
  <2>2. PICK late : /\ late = IF walk.pc = "page" /\ listing \in CountFirst
                                THEN walk.late + 1 ELSE walk.late
                    /\ walk' = [walk EXCEPT !.quiet = FALSE, !.late = late]
    BY <1>3 DEF CommitRow
  <2>3. /\ walk'.pc = walk.pc /\ walk'.page = walk.page /\ walk'.perPage = walk.perPage
        /\ walk'.total = walk.total /\ walk'.shown = walk.shown /\ walk'.repeats = walk.repeats
        /\ walk'.stayed = walk.stayed /\ walk'.removed = walk.removed /\ walk'.late = late
    BY <2>1, <2>2 DEF WalkState
  <2>4. present' \in SUBSET Rows /\ present \subseteq present'
    BY <1>1, StartedRows
  <2>5. /\ Cardinality(present') <= Cardinality(present) + 1
        /\ Cardinality(present) \in Nat /\ Cardinality(present') \in Nat
    BY <1>1, <2>1, <2>4, RowSets, RowsFinite
  <2>6. walk.total \in Nat /\ walk.late \in Nat /\ walk.page \in Nat /\ walk.removed \in Nat
        /\ walk.shown \in SUBSET Rows /\ walk.pc # "done"
    BY <1>3, <2>1 DEF WalkState, Walking
  <2>7. PICK K \in Int : K = PagesShown * walk.perPage
    BY <2>1, <2>6 DEF PagesShown
  <2>8. PagesShown' = PagesShown
    BY <1>1, <2>3 DEF PagesShown
  <2>9. MissesFit(walk', K, present')
    <3>1. CASE listing \in NewestFirst
      <4>1. PICK A \in SUBSET present : A = walk.stayed \ walk.shown
        BY <2>1
      <4>2. Cardinality({n \in A : Rank(n, present') < K})
              <= Cardinality({n \in A : Rank(n, present) < K})
        <5>1. PICK T \in SUBSET Rows : T = present'
          BY <2>4
        <5>2. present \in SUBSET T
          BY <2>4, <5>1
        <5>3. Cardinality({n \in A : Rank(n, T) < K})
                <= Cardinality({n \in A : Rank(n, present) < K})
          BY <5>2, CommittedMisses
        <5> QED BY <5>1, <5>3
      <4>3. Cardinality({n \in A : Rank(n, present) < K}) <= walk.removed
        BY <2>1, <2>7, <3>1, <4>1 DEF MissesFit
      <4>4. PICK a : a = Cardinality({n \in A : Rank(n, present') < K})
        OBVIOUS
      <4>5. PICK b : b = Cardinality({n \in A : Rank(n, present) < K})
        OBVIOUS
      <4>6. a \in Nat /\ b \in Nat
        <5>1. /\ {n \in A : Rank(n, present') < K} \in SUBSET Rows
              /\ {n \in A : Rank(n, present) < K} \in SUBSET Rows
          BY <2>1, <4>1
        <5> QED BY <4>4, <4>5, <5>1, RowsFinite
      <4>7. a <= walk.removed
        BY <2>6, <4>2, <4>3, <4>4, <4>5, <4>6
      <4> QED BY <2>3, <3>1, <4>1, <4>4, <4>7 DEF MissesFit
    <3>2. CASE listing \notin NewestFirst
      <4>1. /\ walk.shown \ present' \in SUBSET Rows /\ walk.shown \ present \in SUBSET Rows
            /\ walk.shown \ present' \subseteq walk.shown \ present
        BY <2>4, <2>6
      <4>2. /\ Cardinality(walk.shown \ present') <= Cardinality(walk.shown \ present)
            /\ Cardinality(walk.shown \ present') \in Nat
            /\ Cardinality(walk.shown \ present) \in Nat
        BY <4>1, RowSets, RowsFinite
      <4>3. /\ Cardinality(walk.shown \ present) <= walk.removed
            /\ \/ Cardinality(walk.shown) + walk.repeats >= K
               \/ Cardinality(walk.stayed \ walk.shown) <= walk.removed + walk.repeats
        BY <2>1, <2>7, <3>2 DEF MissesFit
      <4>4. Cardinality(walk.shown \ present') <= walk.removed
        BY <2>6, <4>2, <4>3
      <4> QED BY <2>3, <3>2, <4>3, <4>4 DEF MissesFit
    <3> QED BY <3>1, <3>2
  <2>10. walk'.pc = "page" /\ listing' \in CountFirst =>
           Cardinality(present') <= walk'.total + walk'.late
    BY <1>1, <2>1, <2>2, <2>3, <2>5, <2>6
  <2>11. MissesSoFarAreBounded'
    BY <1>1, <2>1, <2>3, <2>4, <2>7, <2>8, <2>9, <2>10
       DEF MissesSoFarAreBounded, MissesFit, Rank
  <2> QED BY <2>3, <2>6, <2>11 DEF Misses, WalkMissesAreBounded
<1> QED BY <1>2, <1>3

\* A row that is removed while a walk is under way.
LEMMA MissesRemove == ASSUME QuietInv, Misses, RemoveRow PROVE Misses'
<1>1. PICK r \in present : present' = present \ {r} /\ listing' = listing
             /\ walk' = IF Walking
                          THEN [walk EXCEPT !.quiet = FALSE, !.removed = walk.removed + 1,
                                            !.stayed = walk.stayed \ {r}]
                          ELSE walk
  BY DEF RemoveRow
<1>2. CASE ~Walking
  <2>1. walk' = walk
    BY <1>1, <1>2
  <2> QED BY <1>1, <1>2, <2>1 DEF Misses, MissesSoFarAreBounded, WalkMissesAreBounded, Walking
<1>3. CASE Walking
  <2>1. /\ walk \in WalkState /\ present \in SUBSET Rows
        /\ walk.stayed \subseteq present /\ walk.page >= 1
        /\ walk.perPage \in PerPages /\ walk.perPage \in Nat \ {0}
        /\ walk.pc = "page" /\ listing \in CountFirst =>
             Cardinality(present) <= walk.total + walk.late
        /\ MissesFit(walk, PagesShown * walk.perPage, present)
    BY <1>3, MissesOfWalk
  <2>2. PICK removed : removed = walk.removed + 1
    OBVIOUS
  <2>a. PICK stayed : stayed = walk.stayed \ {r}
    OBVIOUS
  <2>b. walk' = [walk EXCEPT !.quiet = FALSE, !.removed = removed, !.stayed = stayed]
    BY <1>1, <1>3, <2>2, <2>a
  <2>3. /\ walk'.pc = walk.pc /\ walk'.page = walk.page /\ walk'.perPage = walk.perPage
        /\ walk'.total = walk.total /\ walk'.shown = walk.shown /\ walk'.repeats = walk.repeats
        /\ walk'.stayed = stayed /\ walk'.removed = removed /\ walk'.late = walk.late
    BY <2>1, <2>b DEF WalkState
  <2>4. present' \in SUBSET Rows /\ present' \subseteq present /\ stayed \subseteq present'
    BY <1>1, <2>1, <2>a
  <2>5. /\ Cardinality(present') <= Cardinality(present)
        /\ Cardinality(present) \in Nat /\ Cardinality(present') \in Nat
    BY <2>1, <2>4, RowSets, RowsFinite
  <2>6. walk.total \in Nat /\ walk.late \in Nat /\ walk.page \in Nat /\ walk.removed \in Nat
        /\ walk.repeats \in Nat /\ walk.shown \in SUBSET Rows /\ walk.pc # "done"
    BY <1>3, <2>1 DEF WalkState, Walking
  <2>7. PICK K \in Int : K = PagesShown * walk.perPage
    BY <2>1, <2>6 DEF PagesShown
  <2>8. PagesShown' = PagesShown
    BY <1>1, <2>3 DEF PagesShown
  <2>9. MissesFit(walk', K, present')
    <3>1. CASE listing \in NewestFirst
      <4>1. PICK A \in SUBSET present : A = walk.stayed \ walk.shown
        BY <2>1
      <4>2. Cardinality({n \in A \ {r} : Rank(n, present \ {r}) < K})
              <= Cardinality({n \in A : Rank(n, present) < K}) + 1
        BY <2>1, RemovedMisses
      <4>3. Cardinality({n \in A : Rank(n, present) < K}) <= walk.removed
        BY <2>1, <2>7, <3>1, <4>1 DEF MissesFit
      <4>4. PICK a : a = Cardinality({n \in A \ {r} : Rank(n, present') < K})
        OBVIOUS
      <4>5. PICK b : b = Cardinality({n \in A : Rank(n, present) < K})
        OBVIOUS
      <4>6. a \in Nat /\ b \in Nat
        <5>1. /\ {n \in A \ {r} : Rank(n, present') < K} \in SUBSET Rows
              /\ {n \in A : Rank(n, present) < K} \in SUBSET Rows
          BY <2>1, <4>1
        <5> QED BY <4>4, <4>5, <5>1, RowsFinite
      <4>7. a <= removed
        BY <1>1, <2>2, <2>6, <4>2, <4>3, <4>4, <4>5, <4>6
      <4>8. stayed \ walk.shown = A \ {r}
        BY <2>a, <4>1
      <4> QED BY <2>3, <3>1, <4>4, <4>7, <4>8 DEF MissesFit
    <3>2. CASE listing \notin NewestFirst
      <4>1. PICK H \in SUBSET Rows : H = walk.shown \ present
        BY <2>6
      <4>2. PICK M \in SUBSET Rows : M = walk.stayed \ walk.shown
        BY <2>1
      <4>3. PICK H1 \in SUBSET Rows : H1 = walk.shown \ present'
        BY <2>6
      <4>4. PICK M1 \in SUBSET Rows : M1 = stayed \ walk.shown
        BY <2>4
      <4>5. H1 \subseteq H \cup {r} /\ H \cup {r} \in SUBSET Rows /\ M1 \subseteq M
        BY <1>1, <2>1, <2>a, <4>1, <4>2, <4>3, <4>4
      <4>6. /\ Cardinality(H1) <= Cardinality(H \cup {r}) /\ Cardinality(M1) <= Cardinality(M)
            /\ Cardinality(H \cup {r}) <= Cardinality(H) + 1
        BY <4>5, RowSets
      <4>7. /\ Cardinality(H) \in Nat /\ Cardinality(H1) \in Nat
            /\ Cardinality(M) \in Nat /\ Cardinality(M1) \in Nat
            /\ Cardinality(H \cup {r}) \in Nat
        BY <4>5, RowsFinite
      <4>8. /\ Cardinality(H) <= walk.removed
            /\ \/ Cardinality(walk.shown) + walk.repeats >= K
               \/ Cardinality(M) <= walk.removed + walk.repeats
        BY <2>1, <2>7, <3>2, <4>1, <4>2 DEF MissesFit
      <4>9. /\ Cardinality(H1) <= removed
            /\ \/ Cardinality(walk.shown) + walk.repeats >= K
               \/ Cardinality(M1) <= removed + walk.repeats
        BY <2>2, <2>6, <4>6, <4>7, <4>8
      <4> QED BY <2>3, <3>2, <4>3, <4>4, <4>9 DEF MissesFit
    <3> QED BY <3>1, <3>2
  <2>10. walk'.pc = "page" /\ listing' \in CountFirst =>
           Cardinality(present') <= walk'.total + walk'.late
    BY <1>1, <2>1, <2>3, <2>5, <2>6
  <2>11. MissesSoFarAreBounded'
    BY <1>1, <2>1, <2>3, <2>4, <2>7, <2>8, <2>9, <2>10
       DEF MissesSoFarAreBounded, MissesFit, Rank
  <2> QED BY <2>3, <2>6, <2>11 DEF Misses, WalkMissesAreBounded
<1> QED BY <1>2, <1>3

\* The response to the last statement of a page.
LEMMA MissesRespond ==
  ASSUME QuietInv, NEW w \in WalkState, Respond(w), UNCHANGED <<listing, present>>,
         w.pc \in {"count", "page"}, w.stayed \subseteq present, w.page >= 1,
         w.perPage \in PerPages, Cardinality(present) <= w.total + w.late,
         MissesFit(w, w.page * w.perPage, present)
  PROVE  Misses'
<1>1. /\ w.page \in Nat /\ w.total \in Nat /\ w.perPage \in Nat \ {0} /\ w.late \in Nat
      /\ w.removed \in Nat /\ w.repeats \in Nat
      /\ w.shown \in SUBSET Rows /\ w.stayed \in SUBSET Rows /\ present \in SUBSET Rows
  BY ConstantsAssumption, StartedRows DEF WalkState
<1>2. PICK K \in Nat : K = w.page * w.perPage
  BY <1>1
<1>3. CASE More(w.total, w.page, w.perPage)
  <2>1. PICK page \in Nat : page = w.page + 1
    BY <1>1
  <2>2. PICK pc : pc = FirstStatement
    OBVIOUS
  <2>3. walk' = [w EXCEPT !.page = page, !.pc = pc]
    BY <1>3, <2>1, <2>2 DEF Respond
  <2>4. /\ walk'.pc = pc /\ walk'.page = page /\ walk'.perPage = w.perPage
        /\ walk'.shown = w.shown /\ walk'.repeats = w.repeats
        /\ walk'.stayed = w.stayed /\ walk'.removed = w.removed
    BY <2>3 DEF WalkState
  <2>5. PagesShown' = w.page /\ ~(pc = "page" /\ listing \in CountFirst) /\ pc # "done"
    BY <1>1, <2>1, <2>2, <2>4 DEF PagesShown, FirstStatement
  <2>6. MissesFit(walk', K, present)
    BY <1>2, <2>4 DEF MissesFit
  <2>7. MissesSoFarAreBounded'
    BY <1>1, <1>2, <2>1, <2>4, <2>5, <2>6 DEF MissesSoFarAreBounded, MissesFit, Rank
  <2> QED BY <2>4, <2>5, <2>7 DEF Misses, WalkMissesAreBounded
<1>4. CASE ~More(w.total, w.page, w.perPage)
  <2>1. walk' = [w EXCEPT !.pc = "done"]
    BY <1>4 DEF Respond
  <2>2. /\ walk'.pc = "done" /\ walk'.shown = w.shown /\ walk'.repeats = w.repeats
        /\ walk'.stayed = w.stayed /\ walk'.removed = w.removed /\ walk'.late = w.late
    BY <2>1 DEF WalkState
  <2>3. w.total <= K
    <3>1. ~HasNextSchedules(w.total, w.page, w.perPage)
      BY <1>1, <1>4, HasNextForms DEF More
    <3> QED BY <1>1, <1>2, <3>1 DEF HasNextSchedules
  <2>4. PICK A \in SUBSET present : A = w.stayed \ w.shown
    BY <1>1
  <2>5. Cardinality(present) \in Nat /\ Cardinality(A) \in Nat /\ Cardinality(w.shown) \in Nat
    BY <1>1, <2>4, RowsFinite
  <2>6. Cardinality(present) <= K + w.late
    BY <1>1, <2>3, <2>5
  <2>7. CASE listing \in NewestFirst
    <3>1. Cardinality(A) <= Cardinality({n \in A : Rank(n, present) < K}) + w.late
      BY <1>1, <1>2, <2>6, RowsBeyond
    <3>2. Cardinality({n \in A : Rank(n, present) < K}) <= w.removed
      BY <1>2, <2>4, <2>7 DEF MissesFit
    <3>3. PICK b : b = Cardinality({n \in A : Rank(n, present) < K})
      OBVIOUS
    <3>4. b \in Nat
      <4>1. {n \in A : Rank(n, present) < K} \in SUBSET Rows
        BY <1>1
      <4> QED BY <3>3, <4>1, RowsFinite
    <3>5. Cardinality(A) <= w.removed + w.late
      BY <1>1, <2>5, <3>1, <3>2, <3>3, <3>4
    <3> QED BY <1>1, <2>2, <2>4, <2>7, <3>5
         DEF Misses, MissesSoFarAreBounded, WalkMissesAreBounded, Walking
  <2>8. CASE listing \notin NewestFirst
    <3>1. /\ Cardinality(w.shown \ present) <= w.removed
          /\ \/ Cardinality(w.shown) + w.repeats >= K
             \/ Cardinality(A) <= w.removed + w.repeats
      BY <1>2, <2>4, <2>8 DEF MissesFit
    <3>2. Cardinality(A) <= w.removed + w.late + w.repeats
      <4>1. CASE Cardinality(w.shown) + w.repeats >= K
        <5>1. PICK more \in Nat : more = w.repeats + w.late
          BY <1>1
        <5>2. Cardinality(present) <= Cardinality(w.shown) + more
          BY <1>1, <2>5, <2>6, <4>1, <5>1
        <5>3. Cardinality(w.stayed \ w.shown) <= w.removed + more
          BY <1>1, <3>1, <5>2, SeenEnough
        <5> QED BY <1>1, <2>4, <2>5, <5>1, <5>3
      <4>2. CASE Cardinality(A) <= w.removed + w.repeats
        BY <1>1, <2>5, <4>2
      <4> QED BY <3>1, <4>1, <4>2
    <3> QED BY <1>1, <2>2, <2>4, <2>8, <3>2
         DEF Misses, MissesSoFarAreBounded, WalkMissesAreBounded, Walking
  <2> QED BY <2>7, <2>8
<1> QED BY <1>3, <1>4

LEMMA MissesStart == ASSUME QuietInv, StartWalk PROVE Misses'
<1>1. UNCHANGED <<listing, present>> /\ present \in SUBSET Rows
  BY StartedRows DEF StartWalk
<1>2. PICK p \in PerPages :
        walk' = [NoWalk EXCEPT !.pc = FirstStatement, !.page = 1, !.perPage = p,
                               !.stayed = present]
  BY DEF StartWalk
<1>3. p \in Nat
  BY ConstantsAssumption
<1>4. /\ walk'.pc = FirstStatement /\ walk'.page = 1 /\ walk'.perPage = p
      /\ walk'.stayed = present /\ walk'.shown = {} /\ walk'.repeats = 0 /\ walk'.removed = 0
  BY <1>2 DEF NoWalk
<1>5. /\ FirstStatement # "done" /\ PagesShown' = 0
      /\ ~(FirstStatement = "page" /\ listing \in CountFirst)
  BY <1>1, <1>4 DEF PagesShown, FirstStatement
<1>6. MissesFit(walk', 0, present)
  <2>1. {n \in present \ {} : Rank(n, present) < 0} = {}
    BY <1>1, RankType
  <2>2. Cardinality({}) = 0
    BY FS_EmptySet
  <2>3. {} \ present = {}
    OBVIOUS
  <2> QED BY <1>4, <2>1, <2>2, <2>3 DEF MissesFit
<1>7. MissesSoFarAreBounded'
  <2>1. PagesShown' * walk'.perPage = 0
    BY <1>3, <1>4, <1>5
  <2>2. walk'.stayed \subseteq present' /\ walk'.page >= 1 /\ walk'.perPage \in PerPages
        /\ ~(walk'.pc = "page" /\ listing' \in CountFirst)
    BY <1>1, <1>4, <1>5
  <2>3. MissesFit(walk', PagesShown' * walk'.perPage, present)
    BY <1>6, <2>1
  <2> QED BY <1>1, <2>2, <2>3 DEF MissesSoFarAreBounded, MissesFit, Rank
<1> QED BY <1>4, <1>5, <1>7 DEF Misses, WalkMissesAreBounded

LEMMA MissesAbandon == ASSUME AbandonWalk PROVE Misses'
BY DEF AbandonWalk, NoWalk, Misses, MissesSoFarAreBounded, WalkMissesAreBounded, Walking

LEMMA MissesCount == ASSUME QuietInv, Misses, Count PROVE Misses'
<1>1. UNCHANGED <<listing, present>> /\ walk.pc = "count" /\ Walking
  BY DEF Count, Walking
<1>2. /\ walk \in WalkState /\ present \in SUBSET Rows
      /\ walk.stayed \subseteq present /\ walk.page >= 1
      /\ walk.perPage \in PerPages /\ walk.perPage \in Nat \ {0}
      /\ MissesFit(walk, PagesShown * walk.perPage, present)
  BY <1>1, MissesOfWalk
<1>3. PICK c \in Nat : c = Cardinality(present)
  BY <1>2, RowsFinite
<1>4. PICK w : w = [walk EXCEPT !.total = c, !.late = 0]
  OBVIOUS
<1>5. /\ w \in WalkState /\ w.pc = "count" /\ w.total = c /\ w.late = 0 /\ w.page = walk.page
      /\ w.perPage = walk.perPage /\ w.shown = walk.shown /\ w.repeats = walk.repeats
      /\ w.stayed = walk.stayed /\ w.removed = walk.removed
  BY <1>1, <1>2, <1>4 DEF WalkState
<1>6. MissesFit(w, PagesShown * walk.perPage, present)
  BY <1>2, <1>5 DEF MissesFit
<1>7. CASE listing \in CountFirst
  <2>1. walk' = [w EXCEPT !.pc = "page"]
    BY <1>3, <1>4, <1>7 DEF Count
  <2>2. /\ walk'.pc = "page" /\ walk'.total = c /\ walk'.late = 0 /\ walk'.page = walk.page
        /\ walk'.perPage = walk.perPage /\ walk'.shown = walk.shown
        /\ walk'.repeats = walk.repeats /\ walk'.stayed = walk.stayed
        /\ walk'.removed = walk.removed
    BY <1>5, <2>1 DEF WalkState
  <2>3. PagesShown' = PagesShown
    BY <1>1, <1>7, <2>2 DEF PagesShown
  <2>4. MissesFit(walk', PagesShown * walk.perPage, present)
    BY <1>2, <2>2 DEF MissesFit
  <2>5. MissesSoFarAreBounded'
    BY <1>1, <1>2, <1>3, <2>2, <2>3, <2>4 DEF MissesSoFarAreBounded, MissesFit, Rank
  <2> QED BY <2>2, <2>5 DEF Misses, WalkMissesAreBounded
<1>8. CASE listing \notin CountFirst
  <2>1. Respond(w)
    BY <1>3, <1>4, <1>8 DEF Count
  <2>2. PagesShown = walk.page
    BY <1>1, <1>8 DEF PagesShown
  <2>3. Cardinality(present) <= w.total + w.late
    BY <1>3, <1>5
  <2> QED BY <1>1, <1>2, <1>5, <1>6, <2>1, <2>2, <2>3, MissesRespond
<1> QED BY <1>7, <1>8

\* A page read in the order of created_at leaves none of its rows out.
LEMMA OrderedPageMisses ==
  ASSUME NEW S \in SUBSET Rows, listing \in NewestFirst, NEW at \in Orders(S),
         NEW low \in Int, NEW high \in Int, NEW A \in SUBSET S,
         NEW items, \A n \in S : n \in items <=> at[n] \in low .. high - 1,
         NEW B, B = {n \in A \ items : Rank(n, S) < high},
         NEW C, C = {n \in A : Rank(n, S) < low}
  PROVE  Cardinality(B) <= Cardinality(C)
<1>1. \A n \in S : at[n] = Rank(n, S) /\ Rank(n, S) \in Nat
  BY OrderIsRank, RankType
<1>2. \A n \in S : n \in items <=> low <= Rank(n, S) /\ Rank(n, S) < high
  BY <1>1
<1>3. B \subseteq C
  BY <1>1, <1>2
<1>4. B \in SUBSET Rows /\ C \in SUBSET Rows
  OBVIOUS
<1> QED BY <1>3, <1>4, RowSets

\* A page read in an order with ties is full, or brings the rows shown and shown again
\* to the number of rows there are.
LEMMA PageFillsUp ==
  ASSUME NEW S \in SUBSET Rows, NEW at \in Orders(S),
         NEW page \in Nat, page >= 1, NEW perPage \in Nat \ {0}, NEW items,
         items = {n \in S : at[n] \in Page(page, perPage)},
         NEW seen \in Nat, seen >= (page - 1) * perPage
  PROVE  \/ seen + Cardinality(items) >= page * perPage
         \/ seen + Cardinality(items) >= Cardinality(S)
<1>1. PICK low \in Nat : low = (page - 1) * perPage
  <2>1. page - 1 \in Nat
    OBVIOUS
  <2> QED BY <2>1
<1>2. page * perPage = low + perPage
  BY <1>1
<1>3. Page(page, perPage) = low .. low + perPage - 1
  BY <1>1, <1>2 DEF Page
<1>4. items \in SUBSET S /\ items \in SUBSET Rows
  OBVIOUS
<1>5. PICK c \in Nat : c = Cardinality(S)
  BY RowsFinite
<1>6. PICK i \in Nat : i = Cardinality(items)
  BY <1>4, RowsFinite
<1>7. ASSUME NEW k \in Nat, k <= perPage, low + k <= c PROVE k <= i
  <2>1. \A n \in S : at[n] \in low .. low + k - 1 => n \in items
    BY <1>3, <1>7
  <2> QED BY <1>4, <1>5, <1>6, <1>7, <2>1, PageFilled
<1>8. CASE c >= low + perPage
  BY <1>1, <1>2, <1>6, <1>7, <1>8
<1>9. CASE low <= c /\ c < low + perPage
  <2>1. PICK k \in Nat : k = c - low
    BY <1>9
  <2>2. k <= i
    BY <1>7, <1>9, <2>1
  <2> QED BY <1>1, <1>5, <1>6, <1>9, <2>1, <2>2
<1>10. CASE c < low
  BY <1>1, <1>5, <1>6, <1>10
<1> QED BY <1>8, <1>9, <1>10

LEMMA MissesReadPage == ASSUME QuietInv, Misses, ReadPage PROVE Misses'
<1>1. UNCHANGED <<listing, present>> /\ walk.pc = "page" /\ Walking
  BY DEF ReadPage, Walking
<1>2. /\ walk \in WalkState /\ present \in SUBSET Rows
      /\ walk.stayed \subseteq present /\ walk.page >= 1
      /\ walk.perPage \in PerPages /\ walk.perPage \in Nat \ {0}
      /\ listing \in CountFirst => Cardinality(present) <= walk.total + walk.late
      /\ MissesFit(walk, PagesShown * walk.perPage, present)
  BY <1>1, MissesOfWalk
<1>3. PICK at, items, w :
        /\ at \in Orders(present)
        /\ items = {n \in present : at[n] \in Page(walk.page, walk.perPage)}
        /\ w = [walk EXCEPT !.shown = walk.shown \cup items,
                            !.repeats = walk.repeats + Cardinality(items \cap walk.shown)]
        /\ IF listing \in CountFirst THEN Respond(w) ELSE walk' = [w EXCEPT !.pc = "count"]
  BY DEF ReadPage
<1>4. /\ walk.page \in Nat /\ walk.repeats \in Nat /\ walk.removed \in Nat
      /\ walk.shown \in SUBSET Rows /\ items \in SUBSET Rows /\ items \subseteq present
      /\ items \cap walk.shown \in SUBSET Rows /\ walk.shown \cap items \in SUBSET Rows
  BY <1>2, <1>3 DEF WalkState
<1>5. PICK repeats \in Nat : repeats = walk.repeats + Cardinality(items \cap walk.shown)
  <2>1. Cardinality(items \cap walk.shown) \in Nat
    BY <1>4, RowsFinite
  <2> QED BY <1>4, <2>1
<1>6. PICK shown \in SUBSET Rows : shown = walk.shown \cup items
  BY <1>4
<1>7. w = [walk EXCEPT !.shown = shown, !.repeats = repeats]
  BY <1>3, <1>5, <1>6
<1>8. /\ w \in WalkState /\ w.pc = "page" /\ w.page = walk.page /\ w.total = walk.total
      /\ w.perPage = walk.perPage /\ w.shown = shown /\ w.repeats = repeats
      /\ w.stayed = walk.stayed /\ w.removed = walk.removed /\ w.late = walk.late
  BY <1>1, <1>2, <1>7 DEF WalkState
<1>9. PagesShown = walk.page - 1
  BY <1>1 DEF PagesShown
<1>10. PICK low \in Int : low = (walk.page - 1) * walk.perPage
  BY <1>2, <1>4
<1>11. PICK high \in Int : high = walk.page * walk.perPage
  BY <1>2, <1>4
<1>12. MissesFit(walk, low, present)
  BY <1>2, <1>9, <1>10
<1>13. MissesFit(w, high, present)
  <2>1. CASE listing \in NewestFirst
    <3>1. PICK A \in SUBSET present : A = walk.stayed \ walk.shown
      BY <1>2
    <3>2. \A n \in present : n \in items <=> at[n] \in low .. high - 1
      BY <1>3, <1>10, <1>11 DEF Page
    <3>3. PICK B : B = {n \in A \ items : Rank(n, present) < high}
      OBVIOUS
    <3>4. PICK C : C = {n \in A : Rank(n, present) < low}
      OBVIOUS
    <3>5. Cardinality(B) <= Cardinality(C)
      <4>1. at \in Orders(present) /\ present \in SUBSET Rows
        BY <1>2, <1>3
      <4> QED BY <2>1, <3>2, <3>3, <3>4, <4>1, OrderedPageMisses
    <3>6. Cardinality(B) \in Nat /\ Cardinality(C) \in Nat
      <4>1. B \in SUBSET Rows /\ C \in SUBSET Rows
        BY <1>2, <3>1, <3>3, <3>4
      <4> QED BY <4>1, RowsFinite
    <3>7. Cardinality(C) <= walk.removed
      BY <1>12, <2>1, <3>1, <3>4 DEF MissesFit
    <3>8. walk.stayed \ shown = A \ items
      BY <1>6, <3>1
    <3>9. Cardinality(B) <= walk.removed
      BY <1>4, <3>5, <3>6, <3>7
    <3> QED BY <1>8, <2>1, <3>3, <3>8, <3>9 DEF MissesFit
  <2>2. CASE listing \notin NewestFirst
    <3>1. /\ Cardinality(walk.shown \ present) <= walk.removed
          /\ \/ Cardinality(walk.shown) + walk.repeats >= low
             \/ Cardinality(walk.stayed \ walk.shown) <= walk.removed + walk.repeats
      BY <1>12, <2>2 DEF MissesFit
    <3>2. shown \ present = walk.shown \ present
      BY <1>4, <1>6
    <3>3. PICK again \in Nat : again = Cardinality(items \cap walk.shown)
      BY <1>4, RowsFinite
    <3>4. Cardinality(walk.shown) \in Nat /\ Cardinality(items) \in Nat
          /\ Cardinality(shown) \in Nat /\ Cardinality(present) \in Nat
      BY <1>2, <1>4, RowsFinite
    <3>5. Cardinality(shown) + repeats
            = Cardinality(walk.shown) + walk.repeats + Cardinality(items)
      <4>1. Cardinality(walk.shown \cup items)
              = Cardinality(walk.shown) + Cardinality(items) - Cardinality(walk.shown \cap items)
        BY <1>4, RowSets
      <4>2. Cardinality(walk.shown \cap items) = again
        <5>1. walk.shown \cap items = items \cap walk.shown
          OBVIOUS
        <5> QED BY <3>3, <5>1
      <4>3. /\ Cardinality(walk.shown \cup items) = Cardinality(shown)
            /\ repeats = walk.repeats + again
        BY <1>5, <1>6, <3>3
      <4> QED BY <1>4, <3>4, <4>1, <4>2, <4>3
    <3>6. \/ Cardinality(shown) + repeats >= high
          \/ Cardinality(walk.stayed \ shown) <= walk.removed + repeats
      <4>1. CASE Cardinality(walk.shown) + walk.repeats >= low
        <5>1. PICK seen \in Nat : seen = Cardinality(walk.shown) + walk.repeats
          BY <1>4, <3>4
        <5>2. seen >= (walk.page - 1) * walk.perPage
          BY <1>10, <4>1, <5>1
        <5>3. \/ seen + Cardinality(items) >= walk.page * walk.perPage
              \/ seen + Cardinality(items) >= Cardinality(present)
          BY <1>2, <1>3, <1>4, <5>2, PageFillsUp
        <5>4. CASE seen + Cardinality(items) >= walk.page * walk.perPage
          BY <1>11, <3>5, <5>1, <5>4
        <5>5. CASE seen + Cardinality(items) >= Cardinality(present)
          <6>1. Cardinality(present) <= Cardinality(shown) + repeats
            BY <3>4, <3>5, <5>1, <5>5
          <6>2. Cardinality(shown \ present) <= walk.removed
            BY <3>1, <3>2
          <6> QED BY <1>2, <1>4, <6>1, <6>2, SeenEnough
        <5> QED BY <5>3, <5>4, <5>5
      <4>2. CASE Cardinality(walk.stayed \ walk.shown) <= walk.removed + walk.repeats
        <5>1. /\ walk.stayed \ shown \in SUBSET Rows /\ walk.stayed \ walk.shown \in SUBSET Rows
              /\ walk.stayed \ shown \subseteq walk.stayed \ walk.shown
          BY <1>2, <1>6
        <5>2. /\ Cardinality(walk.stayed \ shown) \in Nat
              /\ Cardinality(walk.stayed \ walk.shown) \in Nat
              /\ Cardinality(walk.stayed \ shown) <= Cardinality(walk.stayed \ walk.shown)
          BY <5>1, RowSets, RowsFinite
        <5>3. walk.repeats <= repeats
          BY <1>4, <1>5, <3>3
        <5> QED BY <1>4, <4>2, <5>2, <5>3
      <4> QED BY <3>1, <4>1, <4>2
    <3> QED BY <1>8, <2>2, <3>1, <3>2, <3>6 DEF MissesFit
  <2> QED BY <2>1, <2>2
<1>14. CASE listing \in CountFirst
  <2>1. Respond(w)
    BY <1>3, <1>14
  <2>2. MissesFit(w, w.page * w.perPage, present) /\ Cardinality(present) <= w.total + w.late
    BY <1>2, <1>8, <1>11, <1>13, <1>14
  <2> QED BY <1>1, <1>2, <1>8, <2>1, <2>2, MissesRespond
<1>15. CASE listing \notin CountFirst
  <2>1. walk' = [w EXCEPT !.pc = "count"]
    BY <1>3, <1>15
  <2>2. /\ walk'.pc = "count" /\ walk'.page = walk.page /\ walk'.perPage = walk.perPage
        /\ walk'.shown = w.shown /\ walk'.repeats = w.repeats
        /\ walk'.stayed = w.stayed /\ walk'.removed = w.removed
    BY <1>8, <2>1 DEF WalkState
  <2>3. PagesShown' = walk.page
    BY <1>1, <1>15, <2>2 DEF PagesShown
  <2>4. MissesFit(walk', high, present)
    BY <1>13, <2>2 DEF MissesFit
  <2>5. PagesShown' * walk'.perPage = high
    BY <1>11, <2>2, <2>3
  <2>6. walk'.stayed \subseteq present' /\ walk'.page >= 1 /\ walk'.perPage \in PerPages
    BY <1>1, <1>2, <1>8, <2>2
  <2>7. MissesSoFarAreBounded'
    BY <1>1, <2>2, <2>4, <2>5, <2>6 DEF MissesSoFarAreBounded, MissesFit, Rank
  <2> QED BY <2>2, <2>7 DEF Misses, WalkMissesAreBounded
<1> QED BY <1>14, <1>15

LEMMA MissesNext == QuietInv /\ Misses /\ [Next]_vars => Misses'
<1> SUFFICES ASSUME QuietInv, Misses, [Next]_vars PROVE Misses'
  OBVIOUS
<1>1. CASE \/ StartRow \/ RollbackRow \/ MarkRead \/ UNCHANGED vars
           \/ \E t \in Tabs : MarkAllList(t) \/ MarkAllWrite(t) \/ CrashMark(t)
  <2>1. UNCHANGED <<listing, walk, present>>
    BY <1>1 DEF vars, StartRow, RollbackRow, MarkRead, MarkAllList, MarkAllWrite, CrashMark
  <2> QED BY <2>1, MissesKept
<1>2. CASE CommitRow \/ RemoveRow
  BY <1>2, MissesCommit, MissesRemove
<1>3. CASE StartWalk \/ Count \/ ReadPage \/ AbandonWalk
  BY <1>3, MissesStart, MissesCount, MissesReadPage, MissesAbandon
<1> QED BY <1>1, <1>2, <1>3 DEF Next

-----------------------------------------------------------------------------
(***************************************************************************)
(* The theorems.                                                           *)
(***************************************************************************)
LEMMA InitQuiet == Init => QuietInv
<1> SUFFICES ASSUME Init PROVE QuietInv
  OBVIOUS
<1>1. NoWalk \in WalkState /\ NoWalk.pc = "idle" /\ NoMark.pc = "idle"
      /\ NoMark \in [pc : {"idle", "write"}, ids : SUBSET Rows, unread : SUBSET Rows]
  BY DEF NoWalk, NoMark, WalkState
<1>2. 0 \in 0 .. MaxRows
  BY ConstantsAssumption
<1> QED BY <1>1, <1>2 DEF Init, QuietInv, TypeOK, MarksFit, QuietWalkFits

LEMMA NextQuiet == QuietInv /\ [Next]_vars => QuietInv'
<1> SUFFICES ASSUME QuietInv, [Next]_vars PROVE QuietInv'
  OBVIOUS
<1>1. CASE UNCHANGED vars
  <2>1. UNCHANGED <<listing, started, pending, present, walk, read, marks>>
    BY <1>1 DEF vars
  <2> QED BY <2>1, WalkUnchanged DEF QuietInv, TypeOK, MarksFit, Newest, Rank
<1>2. CASE Next
  BY <1>2, RowSteps, DisturbingSteps, StartWalkStep, CountStep, ReadPageStep,
     AbandonWalkStep, MarkSteps DEF Next
<1> QED BY <1>1, <1>2

LEMMA Invariants == Spec => [](QuietInv /\ Misses)
BY InitQuiet, NextQuiet, MissesInit, MissesNext, PTL DEF Spec

\* The invariant of every reachable state: a quiet walk has shown its pages so far, one
\* that others disturb has missed no more of them than was removed or shown again, and a
\* request for mark-all-read writes what it has listed (favorites.py, list_favorites;
\* booking_repository.py; notifications.py, mark_all_read).
THEOREM Invariance == Spec => []Inv
<1>1. QuietInv /\ Misses => Inv
  BY DEF Inv, Misses
<1> QED BY <1>1, Invariants, PTL

\* A walk over a listing by created_at that nothing disturbs shows every row once, for
\* any number of rows and any page size (favorites.py; attraction_repository.py).
THEOREM QuietWalksAreExact == Spec => []QuietWalkIsExact
<1>1. ASSUME QuietInv PROVE QuietWalkIsExact
  <2> SUFFICES ASSUME walk.pc = "done", walk.quiet, listing \in NewestFirst
               PROVE  /\ walk.shown = walk.stayed /\ walk.repeats = 0
                      /\ walk.page = IF walk.stayed = {} THEN 1
                           ELSE TotalPages(Cardinality(walk.stayed), walk.perPage)
    BY DEF QuietWalkIsExact
  <2> DEFINE c == Cardinality(walk.stayed)
  <2>1. /\ walk.page \in Nat /\ walk.page >= 1 /\ walk.perPage \in Nat \ {0} /\ walk.repeats = 0
        /\ walk.stayed \in SUBSET Rows
        /\ walk.shown = {n \in walk.stayed : Rank(n, walk.stayed) < walk.page * walk.perPage}
        /\ walk.page > 1 => HasNext(c, walk.page - 1, walk.perPage)
        /\ ~HasNext(c, walk.page, walk.perPage)
    BY <1>1, ConstantsAssumption DEF QuietInv, TypeOK, WalkState, QuietWalkFits, PagesShown
  <2>2. c \in Nat /\ TotalPages(c, walk.perPage) \in Nat
    BY <2>1, RowsFinite, Division
  <2>3. PICK last \in Nat : last = walk.page * walk.perPage
    BY <2>1
  <2>4. c <= last
    BY <2>1, <2>2, <2>3, HasNextForms DEF HasNextSchedules
  <2>5. \A n \in walk.stayed : Rank(n, walk.stayed) \in Nat /\ Rank(n, walk.stayed) < c
    BY <2>1, RankType
  <2>6. walk.shown = walk.stayed
    BY <2>1, <2>2, <2>3, <2>4, <2>5
  <2>7. CASE walk.stayed = {}
    <3>1. c = 0
      BY <2>7, FS_EmptySet
    <3>2. ASSUME walk.page > 1 PROVE FALSE
      <4>1. HasNextSchedules(0, walk.page - 1, walk.perPage)
        BY <2>1, <3>1, <3>2, HasNextForms
      <4>2. (walk.page - 1) * walk.perPage \in Nat
        BY <2>1, <3>2
      <4> QED BY <4>1, <4>2 DEF HasNextSchedules
    <3> QED BY <2>1, <2>6, <2>7, <3>2
  <2>8. CASE walk.stayed # {}
    <3>1. c > 0
      BY <2>1, <2>2, <2>8, RowsFinite, FS_EmptySet
    <3>2. 0 < TotalPages(c, walk.perPage)
      <4>1. HasNextSchedules(c, 0, walk.perPage)
        BY <2>1, <3>1 DEF HasNextSchedules
      <4> QED BY <2>1, <2>2, <4>1, HasNextForms DEF HasNext
    <3>3. walk.page = TotalPages(c, walk.perPage)
      BY <2>1, <2>2, <3>2 DEF HasNext
    <3> QED BY <2>1, <2>6, <2>8, <3>3
  <2> QED BY <2>7, <2>8
<1> QED BY <1>1, Invariants, PTL

\* What mark-all-read leaves unread came later, or is older than as many as it could
\* list (notifications.py, mark_all_read; notification_service.py).
THEOREM MarkAllLeaves == Spec => MarkAllLeavesLaterOrOlder
<1>1. ASSUME QuietInv, NEW t \in Tabs, MarkAllWrite(t), NEW n \in marks[t].unread \ read'
      PROVE  Cardinality({m \in marks[t].unread \cap read' : m > n}) >= Limit
  <2> DEFINE U == marks[t].unread
  <2>1. /\ U \subseteq present /\ U \subseteq Rows /\ marks[t].ids = Newest(U)
        /\ read' = read \cup (Newest(U) \cap present)
    BY <1>1, StartedRows DEF QuietInv, MarksFit, MarkAllWrite
  <2>2. Newest(U) \subseteq read'
    BY <2>1 DEF Newest
  <2>3. PICK left : left = {m \in U \ read' : m >= n}
    OBVIOUS
  <2>4. n \in left /\ left \subseteq Rows /\ \A m \in Rows : m \in Int
    BY <1>1, <2>1, <2>3, ConstantsAssumption DEF Rows
  <2>5. PICK k \in left : \A m \in left : m <= k
    BY <2>4, NewestRow
  <2>6. PICK marked : marked = {m \in U \cap read' : m > n}
    OBVIOUS
  <2>7. PICK newer : newer = {m \in U : m > k}
    OBVIOUS
  <2>8. newer \subseteq marked
    BY <2>1, <2>3, <2>4, <2>5, <2>6, <2>7
  <2>9. Cardinality(newer) \in Nat /\ Cardinality(marked) \in Nat /\ IsFiniteSet(marked)
    BY <2>1, <2>6, <2>7, RowsFinite
  <2>10. Cardinality(newer) >= Limit
    BY <2>2, <2>3, <2>7, <2>9, ConstantsAssumption DEF Newest, Rank
  <2>11. Cardinality(newer) <= Cardinality(marked)
    BY <2>8, <2>9, FS_Subset
  <2> QED BY <2>6, <2>9, <2>10, <2>11, ConstantsAssumption
<1>2. QuietInv /\ [Next]_vars =>
        [\A t \in Tabs : MarkAllWrite(t) =>
           \A n \in marks[t].unread \ read' :
             Cardinality({m \in marks[t].unread \cap read' : m > n}) >= Limit]_vars
  BY <1>1
<1> QED BY <1>2, Invariants, PTL DEF Spec, MarkAllLeavesLaterOrOlder

\* A walk that has ended has missed no more rows than were removed, committed between
\* the count and the last page or, where there are ties, shown again, for any number of
\* rows and any page size (favorites.py, list_favorites; booking_repository.py).
THEOREM WalkMissesBounded == Spec => []WalkMissesAreBounded
<1>1. Misses => WalkMissesAreBounded
  BY DEF Misses
<1> QED BY <1>1, Invariants, PTL

=============================================================================
