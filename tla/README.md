# A TLA+ model of the property management system

The program (`src/app`) is a modular monolith in Python: FastAPI routers over
SQLAlchemy services over one PostgreSQL database.  All of its state is in that
database, and everything that happens is a short transaction: an HTTP request
(`DBSessionMiddleware`, `src/app/core/db.py:65`) or a scheduled job
(`session_scope`, `src/app/jobs/_common.py`).  There are no queues and no
background threads; the concurrency that matters is two requests in the thread
pool, or a request and a job, whose SQL statements interleave under READ
COMMITTED.  That is what the models are about.

## 1. Inventory

| component | state | operations | what makes it correct |
|---|---|---|---|
| reservations | `Reservation.status`, its lines (`ReservationRoom`) | create, confirm, cancel, no-show, modify, check-in and check-out marks | the lifecycle is followed; a booking and its ledger entries change together or not at all |
| availability | `InventoryLedger.sold_units` per (room type, night) | reserve, release under `SELECT ... FOR UPDATE`; search, quote (read) | the ledger counts the held nights exactly; no night is sold beyond capacity; requests never wait for ever; what a search offers can be quoted |
| inventory | rooms, adjoining pairs, blocks, `RoomType.overbooking_allowance` | create, update, deactivate, pair, block | pairs are symmetric; blocked rooms are not sold |
| stay dates | none | `nights`, `night_count`, `overlaps` | half-open intervals agree with each other |
| frontdesk | `assigned_room_id`, reservation status, audit log | assign, auto-assign, release, check-in, upgrade, check-out, walk-in, night audit, no-show sweep | one stay per physical room and night; a night is charged once; an undo restores what it undoes |
| billing | folios, lines, payments, invoices, tax rules | open, post, void, close, invoice | a closed folio is balanced; a voided charge takes its taxes along; invoice numbers are consecutive; taxes round once |
| audit and undo | `AuditEvent` with its payload, `undone_at` | record, undo | an action is undone at most once and only while its effect still stands |
| housekeeping | room status, tasks | set status, tasks; reacts to check-out | a room vacated is dirty until someone says otherwise |
| events | subscriber table | publish (synchronous, in the publisher's transaction) | a failing handler does not fail the publisher |
| rates | plans, calendar, restrictions | create, update, set rates and restrictions; nightly amount through derived plans | only a derivation too deep has no price |
| auth | users, roles, permissions | create, update, deactivate, delete; sync of permissions | there is always an active administrator; names are unique; a role somebody holds exists |
| module registry | services, handlers, routers of the enabled modules | load, mount, stop | dependencies first; lookups succeed; no route is shadowed |
| jobs | none of their own | no-show sweep, room charges, permission sync, two seeding jobs | a job that runs again does no harm |
| migrations | the schema and its stamp | upgrade, downgrade over any range | the stamp tells the schema; every command can be carried out |
| guests, reports, core utilities, web UI, tests | | | no protocol: single rows, reads, wiring |

How they interact: routers call services; services call each other through a
registry of protocols (`core/service_registry.py`) and share the request's
database session; `frontdesk` drives `reservations`, which calls
`availability`, which reads `inventory`; `audit` and `housekeeping` react to
events inside the publisher's transaction.

What is hard, and hard to test (the full list with lines is `hazards` in
PROJECT.json):

- rows are read **without** a lock; the only row locks are those on the ledger
  and on rooms being paired.  Guards (status of a reservation, room free, folio
  open, last administrator, role unheld, event not undone) may be stale when
  the request commits, and only unique indexes and foreign keys catch some;
- a stay of several nights or lines takes its row locks one at a time and may be
  refused half way; a modification has released the old nights by then;
- group bookings, modifications, the no-show sweep and pairings take several
  rows in an order of their own, so they can deadlock;
- capacity is put together from four values read by different statements while
  an administrator changes rooms and blocks;
- check-out does not touch the ledger; check-in, check-out, assignments and
  upgrades can be undone, in any order their guards allow;
- handlers share the publisher's session, in an order that the start of the
  process settles;
- a migration or a start may stop half way.

## 2. Modules

| module | models | state | proofs |
|---|---|---|---|
| `DateRange` | `core/daterange.py` | none | |
| `Inventory` | `modules/inventory`, the capacity queries of `modules/availability` | `room`, `block`, `allowance` | `Inventory_proofs` |
| `Reservations` (extends `Inventory`) | `modules/reservations`, the ledger of `modules/availability`, the status changes of `modules/frontdesk`, request transactions | `status`, `lines`, `sold`, `draft`, `lock`, `tx`, `window` | `Ledger_proofs`, `Requests_proofs` |
| `RoomSales` | nothing: the abstract promise of selling rooms | `held`, `supply`, `window` | implemented: `Requests_proofs` |
| `ReservationsInvariant` (extends `Reservations`) | nothing: its inductive invariants | | used by `Ledger_proofs`, `Requests_proofs` |
| `RoomPairing` | `set_adjoining_room` lock by lock, with the session's loaded objects | `adjoining`, `lock`, `req` | `Requests_proofs` |
| `FrontDesk` | `modules/frontdesk` with its reversers, `modules/audit`, the room status of `modules/housekeeping` | `status`, `assigned`, `folio`, `owing`, `housekeeping`, `log`, `undone`, `tx` | `FrontDesk_proofs` |
| `Taxes` | the tax arithmetic of `modules/billing` | none | `Folio_proofs` |
| `Folio` (extends `Taxes`) | `modules/billing`; check-in, check-out and night audit as billing sees them | `status`, `closedByCheckOut`, `folios`, `lines`, `posted`, `invoices`, `rules`, `nextId`, `tx` | `Folio_proofs` |
| `Rates` | `modules/rates`; search, quote and upgrade price | `plans`, `active`, `parent`, `adjustment`, `sells`, `calendar`, `restriction` | `Accounts_proofs` |
| `Accounts` | `modules/auth`, `jobs/sync_permissions.py` | `name`, `active`, `admins`, `held`, `granted`, `permissions`, `tx` | `Accounts_proofs` |
| `Registry` | `core/registry.py`, `core/events.py`, `core/service_registry.py`, the declarations of the modules | `process`, `loaded`, the registries, `request` | `Registry_proofs` |
| `Migrations` | `migrations/versions`, `migrations/env.py` | `schema`, `stamp`, `populated`, `work` | |
| `Seeding` | `jobs/seed_demo.py`, `jobs/seed_sample_data.py` | what the jobs look at, `last` | `Registry_proofs` |
| `Sums` | nothing: lemmas on least counterexamples and on sums over finite sets | | used by `FrontDesk_proofs`, `Folio_proofs`, `Accounts_proofs` |
| `MC...` | instances for TLC | | |

A proof module extends the module it is about, or the composition a run checks
(`MCRequestsFinish`, `MCBilling`, `MCAdministration`, `MCDeployment`), and keeps
the constants and variables of it unspecified.  In a composition a module is
extended or seen through an instance: `Alone` is `RoomPairing` for one
administrator, `Plans` is `Rates`, `Jobs` is `Seeding`, `Tax` is `MCTaxes`.

### Inventory

Each administrator request is one action: it writes the values it was given in
one short transaction and nothing it read earlier matters.  A room not created
yet has no type.  `Paired` is `set_adjoining_room` as a function from rooms to
rooms.  A block has exactly one of a room and a type, as the schema's validator
asks; an edit changes its units and its dates.  `Supply(t, d)` holds the four
numbers the availability service reads for a type and a night, `Capacity` is
`capacity()` of those numbers; keeping them apart lets `Reservations` read them
at different times, which is what the code does.

### Reservations

A *session* is one request or job.  Its life is

1. **open** (`CreateReservation`, `Confirm`, `Cancel`, `ModifyRooms`, `CheckIn`,
   `Sweep`, ...): the reservation and its lines are read, the guards of the
   service function are evaluated on that copy, and the request's plan is
   settled in `tx[s]`: the status it will write, the lines it will delete and
   insert, the *units* (nights of lines) it will release and reserve;
2. **work through the ledger** one unit at a time, in the order the code does:
   releases before reserves, line by line, night by night.  A release locks the
   row and takes one off (`ReleaseUnit`).  A reserve loads the `RoomType` once
   per line (`LoadRoomType`), then for each night locks the row and counts the
   active rooms (`LockAndCountRooms`), counts the blocked rooms
   (`CountRoomBlocks`), counts the type blocks, compares and adds one
   (`ReserveUnit`), or refuses (`Refuse`).  Each of these is a statement of its
   own, so an administrator's commit may fall between any two;
3. **end**: `Commit` makes status, lines and ledger rows visible at once and
   frees the locks; `Refuse`, `Fail` (any exception, the loss of the process or
   of the connection) and `DeadlockVictim` roll everything back.

`sold[row]` is the committed `sold_units`; `draft[row]` is the value the owner of
the row lock sees and will commit.  `AtLock`, `FreeFor` and `lock` are
`SELECT ... FOR UPDATE`: a session waits while another owns the row.  `WaitsFor`
and `Knot` describe PostgreSQL's waits-for graph.

`window` is a history variable with no counterpart in the code: the supplies a
request may have read so far.  It only serves the refinement of `RoomSales`.

`MayOverlap` says whether two requests on the *same* reservation may be open at
once.  The code does nothing to prevent it.  With it FALSE the runs ask what the
ledger protocol guarantees by itself; with it TRUE they show what goes wrong.

What is abstracted: prices, guests, notes and references; a reservation id and
the ids of its lines are fresh names (`NewId`, `FreshGen`); room assignment and
folio balance, which check-in and check-out also ask for, may refuse a request
at any time (`Fail`).

### RoomSales

One atomic step per request: it may raise the units held on a row only to a
number some capacity allows, where that capacity may mix the values the
inventory had while the request ran; a request that rolls back changes nothing.
`Reservations` implements it with `held` the number of held nights of each row
and `supply` the current inventory.  The mix is the strongest thing that is
true: `capacity()` reads four values in four statements.

### RoomPairing

`set_adjoining_room` again, statement by statement: the request loads the room
(`get_room`), then locks the room, its present partner, the target and the
target's partner in turn.  `loaded` is the session's identity map.  The partner
is not loaded with the room: `Room.adjoining_room` refers from rooms to rooms
and sets no `join_depth`, for which SQLAlchemy emits no eager join.  A
`SELECT ... FOR UPDATE` of a row that is loaded already returns the object with
the attributes it had, so `Value` may be out of date; a row not loaded yet is
read as it is.  `AtomicStep` says that a commit does to the rooms what
`Inventory!Paired` does in one step.

### FrontDesk

A request is two steps: it reads committed rows, decides, and keeps a *write
set* (what the unit of work will emit: the attributes that change); `Commit`
applies it and records the audit events in the same transaction.  With one
session requests run one after the other; with two, the second may decide on
rows the first is about to change, which is what READ COMMITTED allows when
nothing is locked.  An event holds the type, the actor and the context its
reverser needs; `Undo` evaluates the guards of `undo_event` and the reversers
(`reversers.py`, and that of housekeeping) and marks the event undone.

### Taxes, Folio

Amounts are integers in minor units.  `RuleAmount` is one rule on one charge
(percentage of the price, on top or contained in it, rounded half up, and an
amount per unit), `TaxesOf` the rules in their order.  `Folio` has the same two
steps per request as `FrontDesk`.  Row ids come from `nextId`, which a rollback
does not take back, like a PostgreSQL sequence; a commit that repeats a folio
code or an invoice number fails (`Clashes`, the unique constraints).  The night
audit charges all due nights in one transaction and then marks the no-shows.

### Rates

Requests run one at a time.  `PriceAt` follows the derivation as
`nightly_amount` does, to `MAX_DERIVE_DEPTH` links, and gives `Unpriced` or
`TooDeep` where the code raises.  Search, quote and upgrade price are operators
over the plans; the state is what administrators set.

### Accounts

`May(u, code)` is `resolve_user` and `require(code)` as every route under
`/auth` runs them.  Requests are two steps again; `Refused` is the database:
unique usernames and role codes, foreign keys, and the row counts SQLAlchemy
checks.  `MayOverlap` says whether two requests that disable or demote may be
open at once; nothing in the code prevents it.

### Registry, Migrations, Seeding

`Registry` loads the enabled modules in an order that respects their declared
dependencies, registers services, handlers and routers, and, while the process
is up, publishes one event through its handlers; a process may stop at any time
and start with another set of modules.  The order comes from `TopologicalSorter`
of the standard library (`core/registry.py:44`), which is not modelled: `Ready`
is what its `static_order` gives.  What is checked is what the repository
contributes, the dependencies its modules declare: that they have an order
(`StartCompletes`) and that they name enough for every lookup
(`LookupsSucceed`).  `Migrations` has the statements of the
six revisions, what PostgreSQL asks of each (`Accepts`), and Alembic running a
range of them in one transaction that may break off between two statements.
`Seeding` has the two jobs, each one transaction, and what staff do between two
runs of them: they edit roles, rates and the tax rule; they check guests in and
out, undo both, give and change rooms, undo a first assignment, and cancel.
`stays` maps `<<guest, batch>>` to room, dates and status; a stay that is
checked out is kept, because the undo of its check-out brings it back into its
room (`UndoCheckOut`), which `Free`, like `_room_conflicts`, no longer counts.
The job's own check-ins and check-outs have no actor, so nobody may undo them;
the two stays it checks out itself are therefore left out.  A booking that is
cancelled, a no-show or given other lines leaves the model.  Bookings that are
not followed (of other guests, or the samples not named by `Guest`), room blocks
and the availability of `create_reservation` can only have more refused: of a
batch, that is the refusal with `full`; of staff, a step not taken.

## 3. What TLC checks

Components that share no variable are checked in one run: a variable `scene`,
chosen at the start and kept for good, says which of them moves, so the states
are the union of theirs and not the product.

| run | question | bound |
|---|---|---|
| `inventory` | do pairs stay symmetric, and is a blocked room ever counted as sellable? | four rooms (one not created yet), two types, two blocks of up to two units, one day |
| `ledger` | does the ledger count exactly the held nights, is capacity respected, is the lifecycle followed, does a release ever find nothing to take off? | two sessions, three reservations, one type with two rooms, two days; one line over both nights or two lines that visit them backwards; two line generations, so that a reservation can be modified |
| `contention` | can single-line bookings deadlock? | three sessions, three reservations, one type with two rooms, two days; bookings of one line or of two, no modification |
| `inventory_edits` | does the ledger implement atomic sales while rooms, the allowance or a block change under open requests, and do all tables keep their shape (`TypeOK`, which contains `InventoryTypeOK`)? | two sessions, two rooms of which one is edited, the allowance raised once, one block of a room or of the type; no request meets both kinds of edit (`OneKindOfEdit`) |
| `requests_finish` | does every booking and every pairing end? does a pairing alone do what `Inventory` does in one step? | bookings: two sessions, two types, two lines in opposite orders; pairings: one administrator over all four rooms (two of them are sold), two over three |
| `frontdesk` | does the log hold exactly what can be undone? what can make two stays share a room? does an undo restore? | one request at a time, two stays of the same nights (one may be a walk-in), two rooms, five events |
| `billing` | closed folios settled, nights charged once, invoices right? and what two requests at once cannot break | one reservation, one night; alone: GST inside the price or a levy on top, an upgrade, one invoice; two at a time: opening folios and drawing invoices; taxes: 10 %, 12.5 %, 7.7 %, fixed amounts, prices from -30 to 200.00 |
| `administration` | does an administrator remain, do unique names and held roles survive overlapping requests? are prices refused only when too deep, offers quoted, upgrades covered? | two accounts, one role, two requests at once; rates by three bounds (`AskRates`): three plans with one level of derivation, for one type and one night; one plan over three days with each kind of restriction; one plan for two room types |
| `deployment` | does every set of modules start, and is it wired right? does each migration command leave the stamped schema? what brings two sample stays into one room? | every set of the twelve modules whose dependencies are met; six revisions, interrupted anywhere; two days, two sample batches with one guest in a room and one without followed, a spare room, six nights priced ahead (so that on the second day the prices may run out) |
| `early_departure` | does the ledger count only the statuses that "hold inventory"? (violated) | one room, one day |
| `overlap_oversell` | is there no oversell when two requests on one reservation overlap? (violated) | one room, one day |
| `undo_room_shared` | is a room given once, with undo? (violated) | two stays, one room |

Why these bounds are enough to be interesting: two sessions are what a lost
update, a stale read and a two-cycle of waiting need, three give a longer
cycle; two nights and two lines give a refusal in the middle, partial rollback
and crossing lock orders; three reservations for two rooms give sold-out nights
with a cancellation coming in between.  Two stays, two rooms and five events are
assign, check in, check out, assign to another, undo.  Four rooms let one
pairing break two others; three let two pairings share each room.  One level of
derivation with three plans gives chains that are allowed, too long, and
cyclic.  Every bound is a CONSTANT given in the cfg or in the INSTANCE of the
MC module, or, where scenes of one run differ, an argument of `Ask` in
`AskRates`.  Sessions and reservations are symmetric in the safety runs; the
liveness runs use no symmetry.  CHECK_DEADLOCK FALSE is set where a bound ends
every behaviour: reservation ids, row ids or events run out.

Fairness, only where a run asks for liveness:

- bookings and pairings (`requests_finish`): `SF(Proceed(s))`, because a thread
  of the pool runs its request on and PostgreSQL queues the waiters of a row,
  so a session that can take a lock again and again takes it; and
  `WF(DeadlockVictim(s))`, because the deadlock detector runs after
  `deadlock_timeout`.  No request has to come, none has to fail;
- the process and the migrations (`deployment`): weak fairness of loading and
  mounting, and of the next statement of a command: a program that is not
  killed goes on.

Each property of a passing run has a mutant: a changed definition, kept just
before the original and marked MUTANT, under which TLC finds the property
violated.

### Where the program departs from what it says

The three violated runs are the findings of PROJECT.json: the ledger keeps the
nights of a stay that checked out early; because `get_reservation` takes no
lock, two overlapping requests on one reservation both pass their guards, which
can sell a room twice (and, on the same instance, take a reservation out of a
status the lifecycle never leaves, `LifecycleFollowed`, or release its night twice, where
the clamp at zero hides it, `ReleaseNeverClamps`); and the undo of a
check-out brings a guest back into a room given away since.

The models show others.  Each property below is violated, as an INVARIANT or a
PROPERTY, on the instance of the cfg named, with the constants changed as said;
a cfg that no run uses names the property itself.

| property | instance | what happens |
|---|---|---|
| `InHouseHasRoom` (`FrontDesk`) | `MC_undo_room_shared.cfg` with `Booked = {x1}` | `frontdesk/service.py:134`: undoing an assignment only looks whether the guest is in house. Undone after the check-out, followed by the undo of the check-out, it leaves a stay in house without a room; `service.py:261` says "All rooms must be assigned before check-in". |
| `ThirdPartyMoveCaught` (`FrontDesk`) | `MC_undo_third_party.cfg` | `frontdesk/reversers.py:32` compares the present room with the recorded one, so a guest moved away and back by another user passes; `reversers.py:7` says "a genuine third-party change is still caught". |
| `LaterDepartureStaysDirty` (`FrontDesk`) | `MC_undo_dirty_room.cfg` | `housekeeping/service.py:112` resets every room that is dirty, also when a later check-out made it so; `service.py:105` says a room is only reset if it is "still exactly ``dirty`` (what check-out set)". |
| `UndoAtOnceRestores` (`MCFrontDeskUndo`) | `MC_undo_split_stay.cfg` | `housekeeping/service.py:92`: for a room named twice by a check-out (two lines, one room) the prior status kept is the dirty just set, so the undo leaves the room dirty; `tests/modules/test_undo.py:273` expects clean. |
| `UndoneOnce` (`FrontDesk`) | `MC_undo_room_shared.cfg` with two sessions | `audit/service.py:56` reads `undone_at` without a lock, so two submissions of one undo both run the reversers and both publish; `audit/events.py:13` says "exactly once". |
| `RoomGivenOnce` (`FrontDesk`) | `MC_undo_room_shared.cfg` with two sessions and two events | `frontdesk/service.py:101`: two assignments both find the room free and no constraint relates two lines; `service.py:102` says "Room {room.number} is not free for these dates". |
| `ClosedIsSettled` (`Folio`) | `MC_folio_close_race.cfg` | `billing/service.py:26`: a charge is posted while `close_folio` decides on a zero balance; `service.py:251` says "Cannot close a folio with a non-zero balance". |
| `NightChargedOnce` (`Folio`) | `MC_folio_close_race.cfg` | `frontdesk/service.py:416` reads `posted` without a lock, so a night audit by hand and the nightly job both charge; `service.py:402` says "re-running for the same night is a no-op". |
| `InHouseFolioOpen` (`Folio`) | `MC_audit_stuck.cfg` | `close_folio` does not ask whether the guest is in house; `post_charge` then raises at `frontdesk/service.py:418` and the whole night audit rolls back, every night. `service.py:400` says it posts "to each in-house folio". |
| `ClosedByThisActionOnly` (`Folio`) | `MC_audit_stuck.cfg` | `frontdesk/service.py:331` records the folio as closed by this check-out also when it was closed before, and the undo reopens it; `frontdesk/events.py:30` names the field `folio_closed_by_this_action`. |
| `OverlappingPairsSymmetric` (`MCRequestsFinish`) | `MC_pairing_race.cfg` | `inventory/service.py:152`: the partner a session acts on may be one of the past, because locking a loaded row does not refresh it; `service.py:166` says "kept symmetric on both sides". |
| `AdministratorRemains` (`Accounts`) | `MC_admins_race.cfg` | `auth/service.py:169` counts administrators without a lock, so two of them disable each other; `service.py:171` says "Cannot remove the last active administrator". |
| `DeletedRoleUnheld` (`Accounts`) | `MC_admins_race.cfg` | `auth/service.py:236` counts the holders of a role without a lock; a role assigned in between is taken away by ON DELETE CASCADE. `service.py:240` says "Role is assigned to {in_use} user(s)". |
| `OwnAccountStaysActive` (`Accounts`) | `MC_admins_race.cfg` | `auth/service.py:162`: PATCH with `is_active` false disables the own account while another administrator is left; `service.py:195` says "You cannot deactivate your own account". |
| `OperationSurvivesHandlers` (`Registry`) | `MC_handler_fails.cfg` | `core/events.py:57`: a handler shares the publisher's session; when the database refuses a statement of its, the commit fails the request. `events.py:8` says "one bad subscriber must not abort the business operation". |
| `NoPlanDerivesFromItself` (`Rates`) | `MC_rate_cycle.cfg` | `rates/service.py:65` refuses a plan as its own parent and nothing longer, so two plans can derive from each other; `service.py:66` says "A rate plan cannot derive from itself". |
| `UnforcedSeedKeepsEdits` (`Seeding`) | `MC_seed_again.cfg` | `jobs/seed_demo.py:242`: without `--force` the job logs that the admin exists and writes roles, rates and the tax rule again; `seed_demo.py:5` says "it skips creation when the admin user already exists". |
| `ForceAddsBatch` (`Seeding`) | `MC_seed_again.cfg` | `jobs/seed_sample_data.py:126`: the rooms of a batch are fixed, so a second batch is refused while the first batch's guests are in them (not counting refusals with `full`); `seed_sample_data.py:11` says `--force` "adds another batch". |

One comment was noticed on the way and is not a property: `core/db.py:22-28`
says an enum column is "VARCHAR + CHECK", but `SAEnum(native_enum=False)`
creates no CHECK constraint by itself.

## 4. What is proved

Every theorem is checked by TLAPS to the last leaf, for every value of the
constants that meets the named assumptions.  Those of the modules are
evaluated by TLC on every instance: finitely many rooms, blocks and nights;
well-formed initial rooms; payloads that are non-empty lists of stays; adjoining
rooms are paired at the start, which an empty database is; a line belongs to one
reservation; accounts have different names at the start and one of them is an
administrator; amounts are whole minor units; a process is started with a set of
the twelve modules; `None`,
the absence of a value, is no number, room, line or night.

| theorem | says | needs |
|---|---|---|
| `Inventory_proofs!InventoryTypeCorrect` | `InventorySpec => []InventoryTypeOK` | |
| `Inventory_proofs!PairsStaySymmetric` | `InventorySpec => []PairingSymmetric` | |
| `Inventory_proofs!BlockedRoomsNeverSold` | `InventorySpec => []BlockedNeverSold` | |
| `Ledger_proofs!TypeCorrect` | `Spec => []TypeOK` | |
| `Ledger_proofs!LedgerExact` | `Spec => []LedgerMatchesBookings` | `~MayOverlap` |
| `Ledger_proofs!LifecycleKept` | `Spec => LifecycleFollowed` | `~MayOverlap` |
| `Ledger_proofs!ReleasesAreExact` | `Spec => ReleaseNeverClamps` | `~MayOverlap` |
| `Ledger_proofs!NothingOversold` | `Spec => []NoOversell` | `~MayOverlap`; `NoOversell` itself speaks of an inventory left alone |
| `Requests_proofs!RoomSalesImplemented` | `Spec => ImplementsRoomSales` | `~MayOverlap` |
| `Requests_proofs!LockedPairsSymmetric` | `ScenesSpec => []PairsSymmetric` | |
| `Requests_proofs!LockedPairsAtomically` | `ScenesSpec => PairsAtomically` | |
| `Requests_proofs!DeadlockOnlyWithManyLines` | `Spec => []DeadlockNeedsManyLines` | `IsFiniteSet(Session)` |
| `FrontDesk_proofs!DeskTypeCorrect` | `Spec => []FrontDeskTypeOK` | |
| `FrontDesk_proofs!UndoLogConsistent` | `Spec => []UndoLogMatchesStatus` | `OneAtATime` |
| `FrontDesk_proofs!RoomsSharedByUndoOnly` | `Spec => OnlyUndoneCheckOutShares` | `OneAtATime` |
| `FrontDesk_proofs!UndoTakesBack` | `HistorySpec => UndoAtOnceRestores` | `OneAtATime`, `OneStayEach` |
| `Folio_proofs!OnlyOneFolio` | `Spec => []OnePrimaryFolio` | |
| `Folio_proofs!TaxFollowsCharge` | `Spec => []NoOrphanTax` | |
| `Folio_proofs!InvoicesNumbered` | `Spec => []InvoiceNumbersConsecutive` | |
| `Folio_proofs!ClosedFoliosSettled` | `Spec => []ClosedIsSettled` | `OneAtATime` |
| `Folio_proofs!NightsChargedOnce` | `Spec => []NightChargedOnce` | `OneAtATime` |
| `Folio_proofs!InvoicesAgree` | `Spec => InvoiceAgrees` | `OneAtATime` |
| `Folio_proofs!BillingSettled` | `BillingSpec => []ClosedIsSettledAlone` | `OneAtATime` |
| `Folio_proofs!BillingNightsOnce` | `BillingSpec => []NightChargedOnceAlone` | `OneAtATime` |
| `Folio_proofs!BillingInvoicesAgree` | `BillingSpec => InvoiceAgreesAlone` | `OneAtATime` |
| `Folio_proofs!SharesToTheUnit` | `NearestUnit`, of any price, quantity and rule | `ChargesGiven` |
| `Folio_proofs!TaxWaysAgree` | `InclusiveMatchesExclusive`, likewise | `ChargesGiven`, `TwiceThePriceAtMost` |
| `Accounts_proofs!NamesStayUnique` | `Spec => []NamesUnique` | |
| `Accounts_proofs!HeldRolesStay` | `Spec => []HeldRolesExist` | |
| `Accounts_proofs!AnAdministratorRemains` | `Spec => []AdministratorRemains` | `~MayOverlap` |
| `Accounts_proofs!OnlyLongChainsRefused` | `Plans!Spec => []OnlyDeepPlansRefused` | `RatesGiven` |
| `Accounts_proofs!OffersCanBeBooked` | `Plans!Spec => []OffersAreQuoted` | `RatesGiven` |
| `Accounts_proofs!UpgradeIsCovered` | `Plans!Spec => []UpgradeCoversTheRise` | `RatesGiven` |
| `Registry_proofs!ServicesFound` | `Spec => []LookupsSucceed` | |
| `Registry_proofs!RoutesNotShadowed` | `Spec => []NoRouteShadowed` | |
| `Registry_proofs!ContextComplete` | `Spec => []RecordedContextComplete` | |
| `Registry_proofs!SampleRoomsSharedByUndoOnly` | `Jobs!Spec => OnlyUndoneCheckOutSharesRooms` | |
| `Registry_proofs!DemoReservedOnce` | `Jobs!Spec => []OneDemoReservation` | |

What the last column names, and why:

- `~MayOverlap`: no two requests on one reservation (for accounts: no two that
  disable or demote) are open at once.  It cannot be dropped from
  `LifecycleKept`, `ReleasesAreExact`, `NothingOversold` and
  `AnAdministratorRemains`: `MC_overlap_oversell.cfg` (with `LifecycleFollowed`
  or `ReleaseNeverClamps` in place of `NoOversell` for the first two) and `MC_admins_race.cfg` are the counterexamples.
- `OneAtATime`: there is one session, which runs any number of requests one
  after another.  Two sessions break all of them: `MC_folio_close_race.cfg` (an
  invoice drawn while a charge is posted misses it), and
  `MC_undo_room_shared.cfg` with two sessions, where one guest is checked in twice
  (`UndoLogMatchesStatus`) or two assignments take one room, and where an action
  that commits between an action and its undo changes the rooms the undo puts
  back.
  In `MCBilling` a second session is added by the scenes that need one.  The
  properties of pairings speak of the scene with one administrator themselves;
  two break them (`MC_pairing_race.cfg`).
- `OneStayEach`: a reservation has a line (`reservations/schemas.py:34`) and the
  stays of its lines overlap.  Two lines one after the other may hold one room,
  which a check-out then names twice: `MC_undo_split_stay.cfg`.
- `IsFiniteSet(Session)`: the thread pool is finite.
- `RatesGiven`: no day is left out between two others, prices are not negative,
  a derivation adds or takes an amount or a percentage.
- `ChargesGiven`: a price in minor units, a quantity, a rule of the shapes the
  schema accepts.  `TwiceThePriceAtMost`: the percentage is at most 200.  The
  schema sets no upper bound; far beyond it (900 %, say) the two ways of
  charging a tax differ by more than a minor unit.

*Pairs.* `PairingSymmetric` alone is not inductive: a room about to be created
must not have a partner yet.  `Symmetric` adds that, and `PairedSymmetric` is the
whole argument: the only rooms that can point at one of the two rooms being
paired are their former partners, because the pairing was symmetric.  Lock by
lock, `PairingInvariant` says of the request under way (`Underway`) that what it
loaded is still so and that it has set as much of the outcome as its position
says; then a commit is `Paired`, and symmetry follows from the lemma above.

*The ledger.* `LedgerMatchesBookings` is far from inductive, since it says
nothing about what open requests are going to do.  `LedgerInvariant` adds it:

- `Plan(s)`, six parts: what a request will write concerns only its own
  reservations; it releases units the ledger counts and reserves units it does
  not; the status it will write is a legal step; a sweep's remaining
  reservations are still confirmed; the lines and statuses it will write hold
  exactly the units its releases and reserves leave counted (`PlanBalances`);
  and while it counts rooms it owns the row.
- `DraftsMatchPlans`: a locked row differs from the committed one by exactly the
  units its owner is done with (`CountedAfter`).
- `LocksInOrder`, `Apart`, `NoOrphans`, `FinitelyMany`: done units are on rows
  the request has locked, open requests write different reservations, a line
  has a reservation, and all counts are of finite sets.

A plan is right when it is made (`OneReservation`, then one lemma per service
function).  It stays right while others work, because they write other
reservations (`FramePlan`); that is where `~MayOverlap` is used.  Each step
through the ledger moves one unit from pending to done and the draft with it
(`ReleaseUnitKeepsInvariant`, `ReserveUnitKeepsInvariant`, over
`StepKeepsInvariant`).  With nothing pending, the units counted after the commit
are the units done (`CommittedUnits`), so the drafts that become committed are
right; a rollback puts the committed values back.  A unit still to be released
is one of `CountedAfter`, so its row counts at least one and `release` never
clamps at zero (`ReleaseTakesOne`).

*Capacity.* `SalesInvariant` adds to it that every row, committed or draft, is
within its capacity, and that what a request has read for the unit it is about
to reserve is still so.  The step that matters is `ReserveUnitFits`: the four
values compared are those of the row at this moment, and the draft compared is
the one incremented, because the row is locked in between.

*Atomic sales.* With an inventory that is edited meanwhile the four values may
be of different moments.  `WindowInvariant` says that each value a request has
read occurs in its `window`, the supplies of the row while it ran
(`SeenInWindow`), and that a draft above the committed value was allowed by a
mix of supplies in that window (`DraftAllowed`).  A request that opens, commits,
rolls back, or an edit is then a step of `RoomSales` (`SubmitBegins`,
`CommitSells`, `RollbackAborts`, `EditRestocks`); every other step leaves its
variables alone (`StepMaps`).

*Deadlock.* `OrderInvariant` says that a request with one line has locked only
nights before the ones it still wants (`WorksInOrder`) and only rows of its own
units (`LocksItsUnits`).  In a cycle of one-line requests take the one that waits
for the latest night: the owner of that row waits for a later one.

*The front desk.* `DeskInvariant` types write sets and events.  Under
`OneAtATime`, `AloneInvariant` adds that what the pending request decided is
still right when it commits (`SoundWrites`): committed statuses and the log then
agree event by event (`Agreement`), reservations not booked yet have no rooms
(`Unborn`), and no two stays come to share a room unless the request undoes a
check-out.  Each service function and each reverser has its lemma.
For an undo, `HistoryInvariant` adds what the last action left behind: while
the committed state is still the one it made, the values its event keeps are
those of the state before it (`TakesBack`), so an undo that writes them back is
a return (`RestoringWrites`).  A departure keeps the housekeeping status of each
of its rooms once, because the lines of one reservation hold different rooms
(`RoomsApart`): that is where `OneStayEach` is used.

*Folios.* `OnePrimaryFolio` says nothing of the requests that are about to
open one.  `FoliosInvariant` adds that every folio, committed or pending, is
number 1 of its reservation, because a request opens one only when it finds
none.  Two that opened at once therefore drew one code, and the unique
constraint lets one of them commit: the proof is that of `CommitKeepsFolios`.
`BooksInvariant` does the same for lines and invoices with any overlap: ids
committed and pending are different, a pending charge comes with its tax lines,
a pending void with all the lines of its charge, and a pending invoice has a
number between 1 and one more than there are.  `SettledInvariant`, for requests
one after another, keeps what a request found until it commits (`Careful`): the
folio it writes to is open, the one it closes has a zero balance and no line of
its own changes that, and each night it flags it charges once.  `InvoicesSound`
says the same of a pending invoice: the charges and the payments are the two
parts of the active lines, and a sum is the sum of its parts (`TotalSplits`),
whatever amounts the tax rules make.

*Rounding.* `RoundHalfUp(n, d)` is the nearest integer to n / d, which
`NearestShare` proves from the bounds of `\div`; the share found inside a price
differs from the share added to the rest by at most what the rest was rounded by
(`ShareOfTheRest`).

*Accounts.* `RowsInvariant` says of the pending requests that they name one row
each, drop nothing but roles, and give roles to accounts that exist or that they
add (`WritesOK`); an account is never deleted, so this stays so while others
commit.  What a commit checks (`Refused`) and the cascade do the rest.  For the
last administrator, `AdministratorInvariant` adds that every pending request
that takes rights *spares* somebody: some active administrator is not among
those it disables or demotes.  A commit that takes rights could break that for
another one pending, and there is none (`~MayOverlap`).

*Rates.* The properties speak of one state, and `PlansInvariant` gives that
state's shape: a plan on offer and a parent exist, prices are numbers or absent.
The price after m derivations is too deep exactly when the plan has m + 1
ancestors; what a search tests night by night is what a quote tests; and the sum
of the rises bounds the difference of two sums (`SumsCompare`).

*Registry and jobs.* A loaded module has its dependencies loaded
(`DependenciesLoaded`, a part of `StartInvariant`: it is what the library's sort
gives, so it is a lemma and no theorem of its own); `DependenciesProvide` follows
the declared dependencies to a provider of each interface looked up, and a
loaded provider has registered it.  The catch-all route is mounted after all
routers.
`RecordingInvariant` says that the recorder, if subscribed, is the last of the
handlers still to run, so nothing is added to a context after it was recorded.
`JobsInvariant` says that stays are records and that the demo reservation comes
with its guests, which is what the next run looks at.  Each step but the undo of
a check-out adds nothing to `Shared`: a new batch is free of the earlier ones and
names no room twice (`BatchRooms`), and a stay that changes shares no room it did
not share before (`OneStayChanges`).

The theorems name the properties the runs check, of the compositions the runs
check.  Where a property is that of a scene, the proof first shows that the
scene keeps to the module it stands for (`SceneStays`, `NextKeepsAlone`,
`ScenePairingStep`) and then uses that module's invariant.  Those of rates are
of `Plans!Spec`, every request about any plan, type and day, of which each scene
is a part.

Before they were proved, the invariants of the ledger, of the lock order, of the
front desk and of invoices were checked by TLC on the instances of the runs
(`LedgerInvariant` and `SalesInvariant` on 444,241 states of `ledger`,
`WindowInvariant` on 306,221 of `inventory_edits`, `OrderInvariant` on `ledger`
and on 63,107 of `contention`, `AloneInvariant` and `HistoryInvariant` on
578,655 of `frontdesk`, the latter also on 261,623 of an instance with one
reservation of two overlapping lines, `InvoicesSound` on 1,487,974 of
`billing`).

The library's induction theorems take an operator as a parameter, which the
provers cannot instantiate.  Where a proof needs induction over a number or a
finite set (the tax rules of a charge, the nights of an audit, the links of a
derivation, the terms of a sum) it takes a least counterexample instead, which
exists by one first-order fact about naturals or finite sets.

Only model-checked:

- all liveness (`RequestsFinish`, `PairingsFinish`, `StartCompletes`,
  `CommandsFinish`), which is out of the prover's reach;
- `StampMatchesSchema`: `Migrations` has no parameters, so TLC has checked all
  there is.

## 5. Not modelled, and the plan

Not modelled because there is no protocol in it: guests (single rows and a
search), reports (read only), web UI and frontend, settings, error types, money
formatting, pagination, and the tests, which were read as documentation.

Left out of components that are modelled: room views and their surcharge, the
property record, the flag of a room type no sale reads, the occupancy filter of
a search, housekeeping tasks (single rows), passwords, tokens and their expiry,
the permission an undo needs, the rebuilding of an event from its stored form,
the connection pool, and the rooms `seed_demo` creates once.  A migration's
tables, foreign keys and added columns are modelled, the columns and indexes a
table is created with are not told apart.

`Reservations`, `FrontDesk` and `Folio` each have their own view of a
reservation's status: composed, the three would not fit TLC's reach, and what
they share is the status transitions, which are translated from the same lines.
In `Reservations` a refusal by the front desk or by billing is `Fail`; in
`FrontDesk` a folio is open or closed and settled or not; in `Folio` a stay is
its status and nights.

Planned, in this order:

1. The composition of `FrontDesk` and `Reservations` on one reservation, so that
   an undo of a check-in and a no-show sweep meet.
2. Room charges with two night audits that overlap a check-out.
