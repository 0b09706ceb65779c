------------------------------- MODULE Listings -------------------------------
(***************************************************************************)
(* Reading a table a page at a time, and mark-all-read, which reads it up  *)
(* to a limit.                                                             *)
(*                                                                         *)
(* A client walks over a listing: it asks for page 1 and goes on while     *)
(* has_next says so.  Each page is two statements, the rows and their      *)
(* number, in an order that differs between the handlers; between any two  *)
(* statements other requests commit.                                       *)
(*                                                                         *)
(* Rows are numbered by created_at, which is the time their transaction    *)
(* starts: an older row may appear after a newer one.  A row that leaves a *)
(* filter counts as removed, one that comes under it as inserted, and one  *)
(* whose sort key changes as both.                                         *)
(***************************************************************************)
EXTENDS FiniteSets, Integers, Pages

CONSTANTS MaxRows,      \* bound on the rows ever inserted
          Days,         \* bound: what day_of_week or visit_date the rows may have
          PerPages,     \* values of per_page
          Tabs,         \* requests for mark-all-read at the same time
          Limit         \* limit of get_user_notifications (50)

ASSUME ConstantsAssumption ==
  /\ MaxRows \in Nat /\ Days \subseteq [1 .. MaxRows -> Nat] /\ Days # {}
  /\ PerPages \subseteq Nat \ {0} /\ Limit \in Nat \ {0}

VARIABLES listing,  \* the listing looked at
          started,  \* inserts begun
          pending,  \* rows inserted and not committed
          present,  \* rows every statement sees
          day,      \* sort key of the rows that have one
          walk,     \* the client's walk, and what became of the rows meanwhile
          read,     \* notifications with is_read
          marks     \* the requests for mark-all-read

vars == <<listing, started, pending, present, day, walk, read, marks>>

Rows == 1 .. MaxRows

\* The reviews are listed like the favourites, the time slots like the schedules, the
\* operator's bookings and attractions sorted by another column like the tourist's
\* bookings, and users, in no order, like bookings of one day.
Listing == {"favorites", "schedules", "attractions", "bookings", "notifications"}

NewestFirst == {"favorites", "attractions"}
CountFirst == {"favorites", "schedules"}

WalkState ==
  [pc : {"idle", "count", "page", "done"}, page : Nat, perPage : Nat, total : Nat,
   shown : SUBSET Rows, repeats : Nat,
   stayed : SUBSET Rows, removed : Nat, late : Nat, quiet : BOOLEAN]

NoWalk == [pc |-> "idle", page |-> 0, perPage |-> 0, total |-> 0, shown |-> {},
           repeats |-> 0, stayed |-> {}, removed |-> 0, late |-> 0, quiet |-> TRUE]

NoMark == [pc |-> "idle", ids |-> {}, unread |-> {}]

Walking == walk.pc \in {"count", "page"}
Unread == present \ read

Init ==
  /\ listing \in Listing
  /\ started = 0 /\ pending = {} /\ present = {} /\ read = {}
  /\ day \in IF listing \in {"schedules", "bookings"} THEN Days
                                                       ELSE {[n \in Rows |-> 0]}
  /\ walk = NoWalk
  /\ marks = [t \in Tabs |-> NoMark]

-----------------------------------------------------------------------------
(***************************************************************************)
(* What other requests do to the rows.                                     *)
(***************************************************************************)

StartRow ==
  /\ started < MaxRows
  /\ started' = started + 1
  /\ pending' = pending \cup {started + 1}
  /\ UNCHANGED <<listing, present, day, walk, read, marks>>

CommitRow ==
  /\ \E n \in pending :
       /\ pending' = pending \ {n}
       /\ present' = present \cup {n}
  /\ walk' = IF Walking
               THEN [walk EXCEPT !.quiet = FALSE,
                       !.late = IF walk.pc = "page" /\ listing \in CountFirst
                                  THEN walk.late + 1 ELSE walk.late]
               ELSE walk
  /\ UNCHANGED <<listing, started, day, read, marks>>

RollbackRow ==
  /\ \E n \in pending : pending' = pending \ {n}
  /\ UNCHANGED <<listing, started, present, day, walk, read, marks>>

\* Notifications are never deleted.
RemoveRow ==
  /\ listing # "notifications"
  /\ \E n \in present :
       /\ present' = present \ {n}
       /\ walk' = IF Walking
                    THEN [walk EXCEPT !.quiet = FALSE, !.removed = @ + 1, !.stayed = @ \ {n}]
                    ELSE walk
  /\ UNCHANGED <<listing, started, pending, day, read, marks>>

-----------------------------------------------------------------------------
(***************************************************************************)
(* A walk.                                                                 *)
(***************************************************************************)

\* ORDER BY: created_at DESC, day_of_week ASC, visit_date DESC.
Before(m, n) == CASE listing \in NewestFirst -> m > n
                  [] listing = "schedules"   -> day[m] < day[n]
                  [] listing = "bookings"    -> day[m] > day[n]
                  [] OTHER                   -> FALSE

\* The orders the database may return S in, as positions from 0: rows that the ORDER
\* BY does not tell apart come in any, and not always in the same.
Orders(S) == {at \in [S -> 0 .. Cardinality(S) - 1] :
                \A m, n \in S : m # n => at[m] # at[n] /\ (Before(m, n) => at[m] < at[n])}

FirstStatement == IF listing \in CountFirst THEN "count" ELSE "page"

More(total, page, perPage) ==
  IF listing = "schedules" THEN HasNextSchedules(total, page, perPage)
                           ELSE HasNext(total, page, perPage)

\* The response: the client asks for the next page if there is one.
Respond(w) ==
  walk' = IF More(w.total, w.page, w.perPage)
            THEN [w EXCEPT !.page = @ + 1, !.pc = FirstStatement]
            ELSE [w EXCEPT !.pc = "done"]

StartWalk ==
  /\ listing # "notifications" /\ ~Walking
  /\ \E p \in PerPages :
       walk' = [NoWalk EXCEPT !.pc = FirstStatement, !.page = 1, !.perPage = p,
                              !.stayed = present]
  /\ UNCHANGED <<listing, started, pending, present, day, read, marks>>

Count ==
  /\ walk.pc = "count"
  /\ LET w == [walk EXCEPT !.total = Cardinality(present), !.late = 0]
     IN  IF listing \in CountFirst THEN walk' = [w EXCEPT !.pc = "page"] ELSE Respond(w)
  /\ UNCHANGED <<listing, started, pending, present, day, read, marks>>

ReadPage ==
  /\ walk.pc = "page"
  /\ \E at \in Orders(present) :
       LET items == {n \in present : at[n] \in Page(walk.page, walk.perPage)}
           w == [walk EXCEPT !.shown = @ \cup items,
                             !.repeats = @ + Cardinality(items \cap walk.shown)]
       IN  IF listing \in CountFirst THEN Respond(w) ELSE walk' = [w EXCEPT !.pc = "count"]
  /\ UNCHANGED <<listing, started, pending, present, day, read, marks>>

\* The client gives up, or a request of it fails.
AbandonWalk ==
  /\ walk.pc # "idle"
  /\ walk' = NoWalk
  /\ UNCHANGED <<listing, started, pending, present, day, read, marks>>

-----------------------------------------------------------------------------
(***************************************************************************)
(* mark-read and mark-all-read.                                            *)
(***************************************************************************)

\* The position, from 0, of a row of S in ORDER BY created_at DESC.
Rank(n, S) == Cardinality({m \in S : m > n})

\* ORDER BY created_at DESC LIMIT Limit.
Newest(S) == {n \in S : Rank(n, S) < Limit}

\* Mutants: the notifications are not ordered; those already read are listed too.
MarkAllListUnordered(t) ==
  /\ listing = "notifications" /\ marks[t].pc = "idle" /\ Unread # {}
  /\ \E S \in SUBSET Unread :
       /\ Cardinality(S) = IF Cardinality(Unread) < Limit THEN Cardinality(Unread) ELSE Limit
       /\ marks' = [marks EXCEPT ![t] = [pc |-> "write", ids |-> S, unread |-> Unread]]
  /\ UNCHANGED <<listing, started, pending, present, day, walk, read>>

MarkAllListAll(t) ==
  /\ listing = "notifications" /\ marks[t].pc = "idle" /\ present # {}
  /\ marks' = [marks EXCEPT ![t] = [pc |-> "write", ids |-> Newest(present), unread |-> Unread]]
  /\ UNCHANGED <<listing, started, pending, present, day, walk, read>>

MarkAllList(t) ==
  /\ listing = "notifications" /\ marks[t].pc = "idle" /\ Unread # {}
  /\ marks' = [marks EXCEPT ![t] = [pc |-> "write", ids |-> Newest(Unread), unread |-> Unread]]
  /\ UNCHANGED <<listing, started, pending, present, day, walk, read>>

MarkAllWrite(t) ==
  /\ marks[t].pc = "write"
  /\ read' = read \cup (marks[t].ids \cap present)
  /\ marks' = [marks EXCEPT ![t] = NoMark]
  /\ UNCHANGED <<listing, started, pending, present, day, walk>>

\* Mutant: ids that are no notification's are marked.
MarkReadUnknown ==
  /\ listing = "notifications"
  /\ \E ids \in SUBSET Rows : read' = read \cup ids
  /\ UNCHANGED <<listing, started, pending, present, day, walk, marks>>

MarkRead ==
  /\ listing = "notifications"
  /\ \E ids \in SUBSET Rows : read' = read \cup (ids \cap present)
  /\ UNCHANGED <<listing, started, pending, present, day, walk, marks>>

CrashMark(t) ==
  /\ marks[t].pc = "write"
  /\ marks' = [marks EXCEPT ![t] = NoMark]
  /\ UNCHANGED <<listing, started, pending, present, day, walk, read>>

-----------------------------------------------------------------------------
Next ==
  \/ StartRow \/ CommitRow \/ RollbackRow \/ RemoveRow
  \/ StartWalk \/ Count \/ ReadPage \/ AbandonWalk
  \/ MarkRead
  \/ \E t \in Tabs : MarkAllList(t) \/ MarkAllWrite(t) \/ CrashMark(t)

Spec == Init /\ [][Next]_vars

\* A user with unread notifications goes on asking to mark them all, and not every
\* one of these requests fails.
FairSpec == Spec /\ \A t \in Tabs : WF_vars(MarkAllList(t)) /\ SF_vars(MarkAllWrite(t))

-----------------------------------------------------------------------------
(***************************************************************************)
(* Properties.                                                             *)
(***************************************************************************)

\* The variables have the types of their declarations.
TypeOK ==
  /\ listing \in Listing
  /\ started \in 0 .. MaxRows
  /\ pending \subseteq 1 .. started /\ present \subseteq 1 .. started
  /\ read \subseteq present
  /\ walk \in WalkState
  /\ marks \in [Tabs -> [pc : {"idle", "write"}, ids : SUBSET Rows, unread : SUBSET Rows]]

\* A walk that has come to its end has shown the rows that were there all the time,
\* but one for each row removed meanwhile, for each row committed between the count
\* and the rows of the last page (favorites.py, list_favorites), and, where the ORDER
\* BY leaves ties, for each row it has shown again (booking_repository.py).
WalkMissesAreBounded ==
  walk.pc = "done" =>
    Cardinality(walk.stayed \ walk.shown)
      <= walk.removed + walk.late + IF listing \in NewestFirst THEN 0 ELSE walk.repeats

\* When nothing was committed during a walk ordered by created_at, it has shown every
\* row once, on as many pages as total_pages says.
QuietWalkIsExact ==
  walk.pc = "done" /\ walk.quiet /\ listing \in NewestFirst =>
    /\ walk.shown = walk.stayed /\ walk.repeats = 0
    /\ walk.page = IF walk.stayed = {} THEN 1
                                       ELSE TotalPages(Cardinality(walk.stayed), walk.perPage)

\* When mark-all-read is done, a notification still unread was not there when it
\* listed them, or the listing was cut off at its limit and had only newer ones: what
\* holds in place of MarkAllReadsAll below (notifications.py, mark_all_read).
MarkAllLeavesLaterOrOlder ==
  [][\A t \in Tabs : MarkAllWrite(t) =>
       \A n \in marks[t].unread \ read' :
         Cardinality({m \in marks[t].unread \cap read' : m > n}) >= Limit]_vars

\* When mark-all-read is done, every notification that was unread when it listed them
\* is read: "Mark all notifications as read", as mark_all_read puts it, which has got
\* "all user's unread notifications" (notifications.py).  False of a listing with a limit.
MarkAllReadsAll ==
  [][\A t \in Tabs : MarkAllWrite(t) => marks[t].unread \subseteq read']_vars

\* The inductive invariant: a request for mark-all-read writes what it has listed;
MarksFit ==
  /\ read # {} => listing = "notifications"
  /\ \A t \in Tabs : marks[t].pc = "write" =>
       /\ listing = "notifications"
       /\ marks[t].unread \subseteq present /\ marks[t].ids = Newest(marks[t].unread)

\* a walk that nothing has disturbed has shown the rows of its first pages.
PagesShown == IF walk.pc = "done" \/ (walk.pc = "count" /\ listing \notin CountFirst)
                THEN walk.page ELSE walk.page - 1

QuietWalkFits ==
  listing \in NewestFirst /\ walk.pc # "idle" /\ walk.quiet =>
    /\ Walking => present = walk.stayed
    /\ walk.page >= 1 /\ walk.perPage \in PerPages /\ walk.repeats = 0
    /\ walk.shown = {n \in walk.stayed :
                       Rank(n, walk.stayed) < PagesShown * walk.perPage}
    /\ walk.page > 1 => HasNext(Cardinality(walk.stayed), walk.page - 1, walk.perPage)
    /\ walk.pc = "done" \/ (walk.pc = "page" /\ listing \in CountFirst) =>
         walk.total = Cardinality(walk.stayed)
    /\ walk.pc = "done" => ~HasNext(walk.total, walk.page, walk.perPage)

QuietInv == TypeOK /\ MarksFit /\ QuietWalkFits

\* and one that is disturbed has missed little of its pages so far: where rows are
\* told apart, of those within the pages shown; where they are not, the rows shown and
\* shown again fill the pages, unless a page came short of rows, after which nothing
\* else is missed.
MissesSoFarAreBounded ==
  Walking =>
    /\ walk.stayed \subseteq present /\ walk.page >= 1 /\ walk.perPage \in PerPages
    /\ walk.pc = "page" /\ listing \in CountFirst =>
         Cardinality(present) <= walk.total + walk.late
    /\ listing \in NewestFirst =>
         Cardinality({n \in walk.stayed \ walk.shown :
                        Rank(n, present) < PagesShown * walk.perPage}) <= walk.removed
    /\ listing \notin NewestFirst =>
         /\ Cardinality(walk.shown \ present) <= walk.removed
         /\ \/ Cardinality(walk.shown) + walk.repeats >= PagesShown * walk.perPage
            \/ Cardinality(walk.stayed \ walk.shown) <= walk.removed + walk.repeats

Inv == QuietInv /\ MissesSoFarAreBounded

\* Whoever goes on asking has read every notification in the end, however many
\* there are and although the newest are always marked first.
EveryNotificationIsRead ==
  \A n \in Rows : listing = "notifications" /\ n \in Unread ~> n \in read

=============================================================================
