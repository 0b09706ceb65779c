# GhanaXplore: formal specification

TLA+ models of the GhanaXplore backend (`src/app`), checked with TLC and, for the
results that matter most, proved with TLAPS. Line numbers refer to the source of
the commit in `src/`.

## The system

An HTTP API (FastAPI 0.104) over PostgreSQL (SQLAlchemy 2, async) and Redis. It
keeps no state of its own between requests: components meet only in the rows
of the tables and the keys of Redis. Every request runs in one database session
with one transaction (`get_db`, database.py:27-37): commit at the end, rollback on
any exception, *including the `HTTPException`s of ordinary refusals*. PostgreSQL
runs at its default isolation level, READ COMMITTED: each statement sees what
was committed when it began. No handler takes a row lock, uses a version column,
or conditions a write on what it has read. Requests are coroutines that
interleave at every `await`, and several server processes may run; so everything
between two statements of a request is a place where other requests commit.

| Component | State | Operations | Meets |
|---|---|---|---|
| Booking engine (`booking_service.py`) | `bookings` | create, update, cancel, confirm; listings | reads attractions and time slots; its rows are changed by their deletion |
| Time slots (`time_slots.py`) | `time_slots` | create, update, delete, list | owned by attractions, named by bookings |
| Attractions (`attraction_service.py`) | `attractions` | create (fails always), update, approve, delete, search | own slots, schedules, reviews, favourites |
| Sessions (`auth_service.py`, `deps.py`) | `users` (lock, counter, active), Redis `session:*`, `blacklist:*` | login, logout, check of every authenticated request | gate of all other handlers |
| Password reset (`password_service.py`) | `password_reset_tokens`, `users` | initiate, verify code, reset, change | the password login compares |
| Registration (`auth_service.py:27-100`) | `users`, profiles | sign up as tourist or operator | creates what sessions and profiles use |
| Roles (`permissions.py`, `role_service.py`) | `roles`, `permissions`, associations | create, update, delete, two different checks | gate of administration and attractions |
| Administration (`admin.py`) | `users`, `audit_logs` (read) | activate, verify, change role, list | sessions, roles |
| Schedules, reviews, favourites, profiles, notifications | one table each | create, list, update or delete | name attractions, bookings, users |
| Payments, bundles, packages, guides, events, experiences | tables | none | none |
| Listings (every `GET /` with a page) | none | page and number of rows | read what the others commit |
| Scripts (`create_admin.py`, `seed_data.py`, `seed_permissions.py`) | `users`, `user_roles`, roles and permissions | make an administrator, seed | run beside the server |
| Celery, e-mail, maps | none | stubs | none |

What is hard here is concurrency on rows: check-then-act across statements
(capacity, status, uniqueness), writes by primary key from stale objects,
deletions that race with references, the partial effect of a rollback that does
not reach Redis, and time (midnight, token lifetimes, keys that expire). There
are no message queues, no retries and no caches in use, and so no hazards of those
kinds. `PROJECT.json` lists each hazard at its line.

What makes each component correct:

* *Booking engine*: seats within capacity; a one-way life cycle; confirmed
  exactly once, and only while pending; booked for a day that had not passed when it was
  asked for; entry token if and only if confirmed at
  some time; a booking's slot exists and belongs to its attraction; every request
  is answered.
* *Sessions*: a logged-out token is never accepted again, and a logged-in
  user is never refused for another's logout; failed logins count and lock.
* *Password reset*: one valid code per account, each token used once, before it
  expires.
* *Registration, profiles, administration*: an account is whole, with its profile and
  its role, or absent; numbers are shared by no more than race for them; what was
  saved stays; the system keeps an administrator.
* *Roles*: an update leaves the permissions it asked for, or at least no more
  mixture than there were updates at once; system roles do not change.
* *Favourites, reviews, schedules*: what must be unique is, and what names an
  attraction goes or is cleared with it, also under concurrency.
* *Listings*: a walk through the pages meets each row that stays, or as many of
  them as rows came and went; who goes on marking all as read has read all.

## Modules

| Module | Contents |
|---|---|
| `Bookings` | the booking engine, time slots and attractions, statement by statement |
| `BookingLedger` | what the booking engine promises: the same operations, each indivisible, for a day asked for before |
| `Overbooking` | `Bookings` with a history variable: how far races overbook a slot |
| `MCBookings`, `MCOverbooking` | instances for TLC |
| `BookingsProofs` | the inductive invariant of `Bookings` and its theorems |
| `SeatsProofs` | the bound on overbooking, and the refinement of the ledger when requests are served one at a time |
| `Sessions` | login, logout and `get_current_user`, over `users` and Redis |
| `MCSessions` | instances for TLC |
| `SessionsProofs` | the inductive invariant of `Sessions` and its theorems |
| `PasswordReset` | forgotten and changed passwords, over `users` and `password_reset_tokens` |
| `MCPasswordReset` | instances for TLC |
| `PasswordResetProofs` | the inductive invariant of `PasswordReset` and its theorems |
| `Accounts` | registration, administrator scripts, account updates, profiles |
| `MCAccounts`, `AccountsProofs` | instances; invariant and theorems |
| `Roles` | roles, their permissions, and the script that seeds them |
| `MCRoles`, `RolesProofs` | instance; invariant and theorems |
| `Community` | favourites, reviews, schedules and the deletion of their attraction |
| `Catalog` | what `Community` promises: the same operations, each indivisible |
| `MCCommunity`, `CommunityProofs` | instance; invariant, theorems and the refinement |
| `Pages` | the arithmetic of pagination, as functions |
| `Listings` | a walk over the pages of a listing, and mark-all-read |
| `MCListings`, `ListingsProofs` | instance; theorems about `Pages`, invariant and theorems |

Components meet in rows, and the modules are cut along the rows: the tables of one
module are written by the handlers of that module alone, except that `Accounts`,
`Sessions` and `PasswordReset` each take other columns of `users`, that
`Roles` and `Accounts` share which roles exist (`Accounts!SeedRoles`, `DeleteRole`),
and that `Bookings` and `Community` share the deletion of an attraction.

### Bookings

The variables are the three tables, the calendar (`today`) and `req`, the
transactions: for each request its operation, its next statement (`pc`), its
payload and what it has loaded. A handler is a chain of actions:

| Handler | Actions |
|---|---|
| `create_booking` | `CreateGetAttraction`; with a slot `GetSlot`, `EnsureCapacity`; without, on a priced attraction, `CreateWithoutSlot`; `CreateInsert` |
| `update_booking` | `UpdateGetBooking`; with a slot `GetSlot`, `EnsureCapacity`; `UpdateWrite` |
| `cancel_booking` | `CancelGetBooking`, `CancelWrite` |
| `confirm_booking` | `ConfirmGetBooking`, `ConfirmGetAttraction`, `ConfirmWrite` |
| `create_time_slot`, `update_time_slot` | `CreateSlot`, `UpdateSlot` (nothing they read can be invalidated) |
| `delete_time_slot` | `DeleteSlotLoad`, `DeleteSlotWrite` |
| `update_attraction`, `set_approval_status` | `UpdateAttraction` |
| `delete_attraction` | `DeleteAttractionLoad`, `DeleteAttractionWrite` |
| `get_db` on an exception, or the death of the process | `Crash` |

A flush and the commit after it are one action: the flush takes its row locks in
one statement, another writer of the row waits for the commit, and nothing is read
in between. The writes follow SQLAlchemy: an UPDATE names the columns whose
value differs from the one loaded (`Changed`), and no condition but the id; a
foreign key is checked when it is written (`CreateInsert`, `UpdateWrite`);
deleting a slot first clears the bookings the ORM had loaded, then lets the foreign
key clear the others. Deleting an attraction with slots fails, since the ORM
would set their NOT NULL column to NULL.

Left out: notes, amounts, references and slot times (nothing branches on them
later, a missing amount included in the guard of `CreateGetAttraction`); schedules
(one makes the deletion of its attraction fail, which is a request without effect);
`BookingStatus.COMPLETED`, which no handler sets; administrators at `confirm`,
whose endpoint admits operators only. Attractions exist in the initial state,
because the endpoint that creates them fails on every call. Accounts are fixed.
A request that its first statement refuses is not represented, since it leaves
no trace.

`Seats(s, d, b)` is the set of seats that `sum_party_size_for_slot` counts, one for each
member of a party; the sum is its cardinality, so that a proof can speak of it without
an induction over the rows. `Ledger` is the refinement mapping: the rows and the
calendar are those of `BookingLedger`, which has no requests, and its `asked` is
`AskedDays`, the days named by the requests being served.

The calendar (`NextMidnight`) waits for no request. `_validate_visit_date` compares the
day with the clock once, before the other statements of a request
(booking_service.py:89, 222), so that a day accepted before midnight may be booked after
it, whether one request is served or many. The ledger promises what the code
gives: a day is booked that had not passed when it was asked for (`Ask`, `Book`,
`Change`), while slot, capacity and attraction are tested as they stand at the entry. That
a booking is never stored for a day past ("Visit date cannot be in the past",
booking_service.py:65) is false of the code by the length of a request, and no property
claims it.

`Overbooking` adds `unchecked`, a history that no guard reads: the bookings that an
update has left in a slot, on a day and with a party that no request has checked
together. `update_booking` writes only the columns that differ from the row it
loaded (booking_service.py:233-242): if one update moves a booking to another day while
another moves it to another slot, each has checked a place that the booking does not
come to.

The mutants next to the definitions they vary are plausible slips of the code;
they are part of no specification and show that the properties can fail.

### Sessions

The variables are the clock, the columns of `users` that login uses, the expiry of
each Redis key, `req`, and three histories (`minted`, `revoked`, `wrong`) that
no guard reads. One action is one Redis call or the database work between two.
A token is the account and the second it expires in: that is all its text depends
on, as long as e-mail and role do not change. `GetDb` is where a refusal loses its
writes. Registration, password changes and refresh tokens (issued, never
accepted) are left out; a password reset would set the counter and the lock to
the values they always have.

The clock is UTC, also for `datetime.utcnow().timestamp()` in `logout`, which
takes the process's zone: the containers run in UTC.

### PasswordReset

The variables are the clock, the password of each account, the table of tokens,
what clients have learnt (`mailed` codes, `known` tokens), `req`, and the history
`uses`. `initiate_password_reset` is `InitiateGetUser`, `InitiateInvalidate` (the
UPDATE and its commit) and `InitiateStore` (the INSERT and its commit, then the
mail, which may not be sent); `verify_reset_code` is `VerifyCode`, one query;
`reset_password` is `ResetGetToken` and `ResetWrite`, `change_password` is
`ChangeGetUser` and `ChangeWrite`. The token of an initiation is named by the
request that stored it. Tokens are unguessable and clients are the accounts'
owners, so codes are verified as they were mailed and tokens presented as they
were returned. Two valid tokens of an account may carry the same code, and then
`VerifyCode` finds no single one, as `scalar_one_or_none` does. An expired row stays in
the table for good, as in the code.

Left out: `failed_login_attempts` and `locked_until`, which a reset sets to the values
they always have; a deactivated account, whose initiations stop at their first
statement; mails that announce a change; sessions, which neither a reset nor a change
ends.

### Accounts

The variables are `roles` (which codes exist), `users` with `user_roles`, the
profiles, `req`, and the history `entered`. An account is named by its address, the one
column that is unique. `register_user` is `RegisterGetEmail`, `RegisterGetPhone` (two
holders make `scalar_one_or_none` raise, which refuses as one does),
`RegisterGetRole` and `RegisterInsert`, the one transaction whose constraints (address,
foreign key of the role) may still refuse. `create_admin.py` commits twice,
`ScriptInsert` and `ScriptAssign`; `seed_data.py` is its first half for
`admin@example.com`. The endpoints that update an account are one load each and a
common `UpdateWrite`, which is `BaseRepository.update`: columns of the payload that are
not None and differ from the row loaded, by id. The profile handlers are
`ProfileGetUser`, `ProfileSelect`, `ProfileCreate` (which commits) and `ProfileFill`.
`UserRoles` has the three roles that something in the code tests. A manager is
anybody with `user.update` when the request loads the account: an active
administrator or holder of `super_admin`.

`workload` is a bound: which operations a behaviour uses, with which accounts,
kinds and numbers. It never changes, and the proofs hold for any set of workloads.

### Roles

The variables are the tables `permissions`, `roles` and `role_permissions` and `req`. For each
permission of a role `granted` says who granted it: a request, or the script; this is
what the properties are about, and no guard reads more of it than whether the row
exists. `update_role` is `UpdateGetRole`, `UpdateFields` (a flush, which keeps the row
locked until the commit), `UpdateGetPermissions` (what the session knows of the
permissions) and `UpdateReplace`: the flush of `role.permissions = permissions` deletes
what was loaded and is not asked for, and inserts what is asked for and was not loaded;
an insert of a row that exists, or for a role that has gone, fails. A permission that is asked for
and stays counts as granted by the update. `seed_roles` is one step: its statements hold the
rows they write, and it fails when a role it looked up is made or deleted
meanwhile.

### Community and Catalog

The variables are the attractions that exist, the three tables and `req`; a row
has the name of the request that made it. Each handler is its statements, as in
`Bookings`; the constraints of the tables are in the guards of the inserts.
`DeleteAttractionLoad` is the flush that would clear `attraction_id` of the schedules
(NOT NULL: the deletion fails while there is one), `DeleteAttractionWrite` the DELETE with
its cascades. Reviews name a booking that exists from the start; its attraction is
NULL once that is deleted. Users authenticate, and operators verify, before these
handlers begin.

### Listings and Pages

`Pages` has the arithmetic as the handlers write it, in both forms. `Listings` has one
table, whose rows are numbered by `created_at`: PostgreSQL's `now()` is the start of
the transaction, so rows appear out of order (`StartRow`, `CommitRow`). `listing` is
the handler looked at; those not named differ from one that is by the column only. A client walks:
page 1, and the next as long as the response says `has_next`; a response is two
statements (`Count`, `ReadPage`), in the order of the handler, and what ORDER BY does
not tell apart comes in any order (`Orders`). A row that leaves a filter is a row
removed. `mark_all_read` is `MarkAllList` and `MarkAllWrite`. The rest of `walk`
(`stayed`, `removed`, `late`, `quiet`, `repeats`) is history.

One idealisation: rows that are listed by `created_at` have distinct ones. PostgreSQL's
`now()` has microseconds, and rows of two transactions that start within the same one are
not told apart by the ORDER BY of `favorites.py` and `attractions.py` either; the
properties of `NewestFirst` listings leave that case out, those of the others include ties.

## Runs

TLC explores every interleaving of the instance. `MaxInFlight` bounds the
requests served at once, and names of requests are free again when a request ends
without a committed booking or token, so that runs are of any length although
names are few. Once all names are spent the instance can only change slots and
attractions, or stop when it has none left: `CHECK_DEADLOCK FALSE` in the runs of
`MCBookings` is that bound, not a wait of the code. In `MCPasswordReset` it is the
same bound together with the end of the clock. `Sessions` runs with deadlock checking.

| Run | Instance | Shows |
|---|---|---|
| `serial` | 3 requests one at a time, 1 slot, 2 days, parties and capacities up to 2 | `ImplementsLedger`: served alone every request is one entry of the ledger, also when midnights pass during it; `AdmissionWithinCapacity`; `SlotLostOnlyByDeletion`; `ConfirmOnlyPending`, `UpdateOnlyPending` |
| `concurrent` | 2 requests at once, 2 attractions, 1 slot, 2 days, with fairness | `SlotOfItsAttraction`; `EveryRequestAnswered` |
| `overbooking` | 3 requests, 2 at once, 1 slot, 1 day, parties up to 2, capacity 2 | `OverbookingIsBounded`: checks that race let through no more than the parties of the other requests in flight; `UncheckedOnlyByRacingUpdates`; `ClaimsAreBounded`, the inductive invariant; of `Bookings`, `TokenMatchesStatus`, `Lifecycle` and the inductive invariant `Inv` |
| `sessions` | 2 requests, one account, tokens of 2 s, sessions of 4 s, clock to 2 | `RevokedNeverAccepted`, `BlacklistedSessionIsReissued`, `FailuresLeaveNoTrace`, `Inv` |
| `passwords` | 3 requests, 2 at once, 1 account, 2 passwords, 2 codes that live 2 minutes, clock to 3 | `ValidCodesAreBounded`, `TokenUsesAreBounded`, `TokensStayUsed`, `Inv` |
| `accounts` | 2 requests; three workloads: three accounts and one number, two administered accounts, one account with both profiles | `PhoneSharingIsBounded`, `ScriptAdministratorsStand`, `AdministratorsYieldOnlyToStaleRequests`, `AccountsAreWhole`, `SavedProfilesStay`, `Inv` |
| `roles` | 3 requests, 2 at once, 3 ids, 2 codes (one a system role), 3 permissions | `WritersAreBounded`, `WithdrawnStaysWithdrawn`, `SystemRoleYieldsOnlyToStaleRequests`, `Inv` |
| `community` | 4 requests, 3 at once, 2 users, 2 attractions, 1 booking | `ImplementsCatalog`, `FavoritesAreWhole`, `ReviewsMatchBookings`, `Inv` |
| `listings` | 4 rows on 1 or 2 days, pages of 1 and 2, 2 mark-all-reads at once with a limit of 2, with fairness | `WalkMissesAreBounded`, `QuietWalkIsExact`, `MarkAllLeavesLaterOrOlder`, `EveryNotificationIsRead`, the inductive invariant `Inv` |
| `overbooking_race` | 2 requests, a slot of 1 | *violated*: `NoOverbooking` |
| `lockout` | 2 requests, lock after 2 | *violated*: `LockedAfterRepeatedFailures` |
| `mark_all` | 2 rows, 1 mark-all-read with a limit of 1 | *violated*: `MarkAllReadsAll` |

Why the bounds are enough to see the interesting cases: every race of the code is
between a check and a write of two requests over one or two rows. Two requests in
flight contain each of them; the third name makes a booking for them to
race on. Two attractions (in `concurrent`) let a slot be the wrong one, two days and parties
of two (in `serial`) let an update shift seats, and midnight pass between any two statements
of a request; in `concurrent` it passes with two in flight. Updates that move a booking from one
slot to another are in no run, which all have one slot; the proofs have any number. The race of two updates, one of which moves a booking to another day and the
other to another slot, is not in `overbooking`, which has one day: there the party
takes the place of the day, and `UncheckedByRaces` and `OverbookingBounded` prove the
properties for any number of days. In `sessions` two
requests suffice for a logout against a check and for two logins in a second;
the clock reaches the last second of a token issued at its start. In `passwords` two
initiations overlap and a third follows, two resets present one token, and codes
expire with their requests under way; accounts share no row, so one shows what
several do. In `accounts` two requests race, and a third account shows that the
bound on a number is of those that race, not of those that register. In `roles` three
permissions let two updates mix, with a third update, now spent, before them. In
`community` three requests are an insert, its rival and the deletion of the
attraction; the fourth name is a row that was there. In `listings` four rows are
two full pages or four, and twice the limit of mark-all-read. Requests whose names are
spent, and rows that are all inserted, end an instance: `CHECK_DEADLOCK FALSE` there
too. What the bounds do
not show is shown by the proofs, which have none.

The three violations are disagreements of the code with what the README and a
docstring of the repository say; `PROJECT.json` quotes them.

* `mark_all`: `mark_all_read` promises "all notifications", and takes them
  from a listing that ends at 50. What holds is `MarkAllLeavesLaterOrOlder`: only
  notifications older than 50 of those it has marked are left, and `EveryNotificationIsRead`:
  who asks again reaches them.
* `lockout`: no number of wrong passwords locks an account, for the refusal
  rolls the counter back. What holds is `FailuresLeaveNoTrace`.
* `overbooking_race`: two requests take the last seat.

The overbooking needs two requests at
once: the run `serial` shows that it does not occur without. How far it goes has two
answers. Checks that race let a slot hold at most its capacity and, for each other
request served at once, one party more: a check that finds the slot full stops every
request after it, and what was granted before is bounded by what is in flight.
Updates of one booking that race have no such bound. With five requests, two at
once, one slot of a single seat and two days, a booking without a slot on the first
day is moved to the second by one update and into the slot by another, each having
checked what it knows; the seat was taken on the second day. The pair leaves nothing behind that
would stop the next pair, so that with more bookings a slot of one seat holds as many as
there are. `OverbookingIsBounded` therefore counts the bookings that are not
`unchecked`; three requests (a booking, two updates of it) are enough for the
run to reach states in which some are.

Three more promises hold only while requests are served one at a time. With two
at once, a booking that is cancelled after `confirm_booking` has loaded it is confirmed
(booking_service.py:282), one that is cancelled or confirmed after `update_booking` has
loaded it is changed (booking_service.py:209), and two resets that find a token unused both
succeed (password_service.py:121): each writes by id what it decided on an older row.
`ConfirmOnlyPending` and `UpdateOnlyPending` are checked and proved for
`MaxInFlight = 1`; the theorem `SingleUse` proves the third.

Likewise concurrent registrations may share a number, concurrent updates of a role
mix, and an account that has just been made an administrator, or a role a system role, yields
to requests that loaded it before. The properties of `accounts` and `roles` say exactly
how far.

Fairness: `FairSpec` assumes for each request that its next statement is executed
in the end (`WF_vars(Advance(r))`). That is what the event loop and the database
give: a coroutine that is ready runs, a statement returns or raises, and row
locks are held only to the end of a flush and commit. Nothing is assumed of
clients, crashes, the calendar or slots. `FairSpec` of `Listings` assumes of
the user what `EveryNotificationIsRead` is about: who has unread notifications goes on
asking to mark them all (weak fairness of `MarkAllList`), and of the server that not every
one of these requests fails (strong fairness of `MarkAllWrite`: a crash may
interrupt any of them).

## Proofs

`BookingsProofs` shows for any constants that satisfy `IdsAssumption` and
`BoundsAssumption`, and so for any number of requests in flight:

* `Invariance`: `Spec => []Inv`. The properties alone are not inductive.
  `SlotOfItsAttraction` needs that a slot validated in an earlier statement is
  still of the attraction it was validated for when it is written
  (`RowsStand`): slots never move, so only deletion must be excluded, which the
  foreign key does at the write; an update needs further that its
  booking still has the attraction it loaded, or has lost it together with its
  slots. `SlotsHaveAttractions` carries the cascade, and `WellFormed`
  what the program counter says of a request.
* `TypeCorrectness`, `SlotIntegrity` and `TokenIntegrity` follow.
* `LifecycleHolds`: an action property; the writers of `bookings` are few
  (`Writers`) and each ages a booking the right way (`BookingsAge`).

`SessionsProofs` shows for any accounts, requests and durations (`TimesAssumption`):

* `Invariance`: the heart is `LoggedOutHasNoSession`, over the keys *and* the
  logouts between their two Redis calls, and `RevokedHasNoSession`.
* `RevokedIsRefused`: acceptance needs a session, and a revoked token has
  none. The blacklist is not needed for it.
* `OnlyReissueIsRefused`, `LockoutNeverHappens`, `TypeCorrectness`.

`PasswordResetProofs` shows for any number of requests served at once
(`ConstantsAssumption`):

* `Invariance`: the bounds are inductive only for more than what they speak of:
  the codes valid *or about to be stored* (an invalidation leaves the latter, a store
  turns one into the other), and the uses of a token *past or still possible* (a
  reset that presents a token has found it without a use; each use takes one of
  those that present it).
* `CodesBounded`, `UsesBounded` and `UsedForGood` follow, and `SingleUse`: with one
  request at a time (`MaxInFlight = 1`) a token resets one password.

`BookingsProofs` further shows `SerialConfirmations` and `SerialUpdates`, under
`MaxInFlight = 1`. Their invariant says that a request about to write is alone
(`Alone`), so that the row is as it was loaded.

`SeatsProofs` shows for any capacities, parties, days and number of requests:

* `ClaimsBounded`: that the seats taken in a slot are bounded is not inductive, since a
  request that has passed its check takes its seats later. `ClaimsAreBounded` counts the
  seats taken together with those granted (`Claimed`): a check grants seats only while
  those taken fit, a write turns granted seats into taken ones, and
  at most `MaxInFlight - 1` other requests hold a grant of at most `MaxParty` seats when one
  is given. A confirmation claims the seats it confirms, since a
  cancellation may free them between its two statements and the confirmation takes them again.
  No assumption makes `Requests` finite: the seats of a slot are finite because each
  step adds those of one booking.
* `OverbookingBounded` follows; `UncheckedByRaces`: if the row is as the update has
  loaded it, what it writes is what it has checked.
* With `MaxInFlight = 1`: `SerialImplementsLedger`, `SerialAdmission` and `SerialSlotLoss`.
  Their invariant (`SerialState`) adds to `Inv` and `Alone` that what a request has
  read is still in the tables (`ReadsStand`: the booking, that its slot was valid, and that the
  party fits with the seats as they are), so that the one step that commits does what the
  operation of the ledger does, and every other step leaves the ledger alone, or asks for a
  day or gives it up: the days asked for are those of the one request being served
  (`OneAsks`). A midnight moves the calendar only, wherever the request stands.
  `ImplementsLedger` is false with two at once: that is the run `overbooking_race`.

`AccountsProofs` shows for any accounts, numbers, requests and workloads:

* `Invariance`: to bound the holders of a number it counts them together with the
  registrations past `RegisterGetPhone` (`NumbersAreBounded`): the look-up lets nobody
  pass once there is a holder, and an insert turns one of those registering into a holder.
  `ScriptAdministratorsStand` needs that whoever is about to update an account either
  changes its number only or did not find an administrator, and a script's account
  was never anything else (`RequestsFit`).
* `SharingBounded`, `AdministratorsStand`, `Whole`, `ProfilesStay`, `AdministratorsYield`.

`RolesProofs` shows for any permissions, roles, script data and requests in flight:

* `Invariance`: that the writers of a role are bounded is not inductive, for an update
  adds a writer. `MergesAreBounded` quantifies over the sets `A` of updates that have loaded
  the role: `A` together with the writers that no update of `A` has loaded the whole of
  stays within `MaxInFlight`. The writers that an update has seen completely do not
  survive it, and so it takes their place.
* `MergesBounded`, `Withdrawn`, `SystemRoleYields`.

`CommunityProofs` shows for any users, attractions, bookings and requests in flight:

* `Invariance`, `FavoritesWhole`, `ReviewsMatch`: what a request has checked of a
  booking still holds at the insert (bookings keep their tourist, and lose their
  attraction only when the insert's own foreign key fails).
* `Implements`: every step of `Community` is an entry of `Catalog` or none. No bound on the
  requests in flight is needed, unlike the ledger of bookings: each insert rests on a constraint.

`ListingsProofs` shows for any number of rows and page sizes:

* `HasNextForms`, `HasPrevForms`: how the two ways of computing `has_next` and
  `has_prev` agree; `PagesPartition`: every position is on exactly one of `total_pages` pages.
* `Invariance`, with `QuietWalkFits`: an undisturbed walk has shown the rows of rank
  below `page * per_page`; `QuietWalksAreExact` then follows from the last
  page's `has_next`. `MarkAllLeaves` counts the rows above one that was cut off.
* `WalkMissesBounded`. What a walk misses is known only at its
  end, where `has_next` says that no row was beyond the last page, so the invariant
  (`MissesSoFarAreBounded`) speaks of the pages shown so far. Ordered by `created_at`, the rows of
  rank below `page * per_page` that were not shown are at most those removed: a
  commit pushes rows out of these ranks, a removal lets at most one in (`RankDistinct`:
  no two rows have one rank), and the next page shows the ranks it covers. In an
  order with ties, which may differ from page to page, ranks mean nothing; there the rows shown and
  shown again fill the pages (`PageFilled`: an order has a row at each position), and once
  they are as many as there are rows, those missed are at most those
  shown and removed since (`SeenEnough`).

Model-checked only: `EveryRequestAnswered` and `EveryNotificationIsRead`, which are liveness
under fairness and need ENABLED. The properties of the three violated runs are false. Every
other property of a run is a theorem.

## Not modelled

* `create_attraction`: it reads `data.is_offline_available`, which its schema does not
  have (attraction_service.py:45), and fails on every call. Attractions exist from the start.
* `list_public_attractions` and the role filter of `GET /admin/users`: they compare an enum
  column with the member's value where the labels in the database are the names, which
  PostgreSQL refuses.
* Search terms and filters of listings, response bodies, validation of payloads (the
  payloads enumerated are those the schemas admit), and the audit-log listing, which
  nothing writes for.
* The moment the response is sent (FastAPI 0.104 sends it before `get_db` commits): no
  text of the repository says what a client may read after it.
* `PermissionChecker` and `create_notification`, which have no caller; `roles.is_active`,
  which is written and never read.
* Start-up, middleware, configuration, logging, Celery, e-mail and maps, and the tables
  no handler uses: they keep no state that another part reads.

## Open

1. A client over `Bookings` that is answered before the commit.
2. `Bookings` and `Community` composed over one table of attractions.
