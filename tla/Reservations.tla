------------------------------ MODULE Reservations -----------------------------
(***************************************************************************)
(* Reservations and the inventory ledger                                   *)
(* (app/modules/reservations/service.py, app/modules/availability/         *)
(* service.py, and the requests of app/modules/frontdesk that change a     *)
(* reservation's status).                                                  *)
(*                                                                         *)
(* A session is one HTTP request or job: it opens a database transaction,  *)
(* reads the reservation without locking it, then works through the ledger *)
(* one row at a time under SELECT ... FOR UPDATE, and commits or rolls     *)
(* back as a whole.  Isolation is READ COMMITTED: each statement sees what *)
(* was committed when it ran.  The statements of one session that another  *)
(* session can tell apart are separate actions.                            *)
(***************************************************************************)
EXTENDS Inventory, Sequences

CONSTANTS
  Session,       \* concurrent requests
  NoSession,     \* the owner of a ledger row that is not locked
  Reservation,   \* reservation ids
  Payload,       \* the room lists requests send: sequences of stays
  Gen,           \* bound: tags that tell apart the lines of successive modifications
  MayOverlap     \* may two requests on one reservation be open at once?

Stay == {x \in [type: RoomType, arrival: Int, departure: Int] :
           x.arrival < x.departure /\ Nights(x.arrival, x.departure) \subseteq Day}

ASSUME SessionsAssumption == NoSession \notin Session /\ MayOverlap \in BOOLEAN
ASSUME GenAssumption == Gen \subseteq Nat
ASSUME PayloadAssumption == \A p \in Payload : p \in Seq(Stay) /\ p # <<>>

ACTIVE_STATUSES == {"confirmed", "in_house"}

(* "none" is a reservation id that has no row yet.                         *)
Status == {"none", "inquiry", "confirmed", "in_house", "checked_out", "cancelled", "no_show"}

(* A line is one room of a reservation (ReservationRoom): the k-th of the  *)
(* list that wrote it.                                                     *)
Line == [res: Reservation, gen: Gen, k: Nat, type: RoomType, arrival: Int, departure: Int]

ASSUME NoneAssumption == None \notin Line

(* A unit is one night of a line: what one reserve() or release() step     *)
(* adds to or takes from one ledger row.                                   *)
Unit == [line: Line, night: Day]

Row == RoomType \X Day

VARIABLES
  status,   \* [Reservation -> Status]
  lines,    \* the committed lines
  sold,     \* [Row -> Nat]: committed InventoryLedger.sold_units
  draft,    \* [Row -> Nat]: sold_units as the owner of the row lock sees it
  lock,     \* [Row -> Session \cup {NoSession}]: FOR UPDATE row locks
  tx,       \* [Session -> Request]
  window    \* history: the supplies each open session may have read, per row

reservationVars == <<status, lines, sold, draft, lock, tx, window>>
vars == <<inventory, reservationVars>>

--------------------------------------------------------------------------------
LinesOf(r) == {l \in lines : l.res = r}
UnitsOf(L) == {u \in [line: L, night: Day] :
                 u.night \in Nights(u.line.arrival, u.line.departure)}
RowOf(u) == <<u.line.type, u.night>>
UnitsAt(row, U) == {u \in U : RowOf(u) = row}

(* The statuses whose nights the ledger counts: the code releases on       *)
(* cancel and no_show only, so a stay that is checked out keeps its nights. *)
CountedStatuses == ACTIVE_STATUSES \cup {"checked_out"}
CountedUnits == UnitsOf({l \in lines : status[l.res] \in CountedStatuses})
HeldCount(row) == Cardinality(UnitsAt(row, CountedUnits))

(* MUTANT of HoldsInventory: an inquiry holds inventory too.               *)
InquiryHoldsInventory(r) == status[r] \in ACTIVE_STATUSES \cup {"inquiry"}

(* _holds_inventory                                                        *)
HoldsInventory(r) == status[r] \in ACTIVE_STATUSES

RowSupply(row) == Supply(row[1], row[2])
NoWindow == [row \in Row |-> {}]

(* One open request: the reservations it will write and the status it      *)
(* writes ("keep": none), the reservations a sweep has still to load, the  *)
(* lines it deletes and inserts, the units it releases and reserves and    *)
(* those it is done with, the line whose RoomType it has loaded, and how   *)
(* far it is with the queries of capacity() for the next unit.             *)
Request ==
  [open: BOOLEAN, targets: SUBSET Reservation, writes: Status \cup {"keep"},
   todo: SUBSET Reservation, delete: SUBSET Line, insert: SUBSET Line,
   release: SUBSET Unit, reserve: SUBSET Unit, done: SUBSET Unit,
   rt: Line \cup {None}, counts: {0, 1, 2}, seen: SupplyRecord]

NothingSeen == [allowance |-> 0, active |-> 0, roomBlocks |-> 0, typeBlocks |-> 0]

Idle ==
  [open |-> FALSE, targets |-> {}, writes |-> "keep", todo |-> {},
   delete |-> {}, insert |-> {}, release |-> {}, reserve |-> {}, done |-> {},
   rt |-> None, counts |-> 0, seen |-> NothingSeen]

(* Rows, lines and requests have the shapes the code gives them.           *)
TypeOK ==
  /\ InventoryTypeOK
  /\ status \in [Reservation -> Status]
  /\ lines \subseteq Line
  /\ sold \in [Row -> Nat]
  /\ draft \in [Row -> Nat]
  /\ lock \in [Row -> Session \cup {NoSession}]
  /\ tx \in [Session -> Request]
  /\ window \in [Session -> [Row -> SUBSET SupplyRecord]]

Init ==
  /\ InventoryInit
  /\ status = [r \in Reservation |-> "none"]
  /\ lines = {}
  /\ sold = [row \in Row |-> 0]
  /\ draft = sold
  /\ lock = [row \in Row |-> NoSession]
  /\ tx = [s \in Session |-> Idle]
  /\ window = [s \in Session |-> NoWindow]

--------------------------------------------------------------------------------
(* The order in which a request visits the ledger: what it releases before *)
(* what it reserves, line by line, each line's nights in ascending order.  *)

Pending(s) == (tx[s].release \cup tx[s].reserve) \ tx[s].done

LineBefore(l, m) == l.gen < m.gen \/ (l.gen = m.gen /\ l.k < m.k)

(* MUTANT of Before: release walks a line's nights from the last one.      *)
BeforeFromLastNight(s, u, v) ==
  \/ u \in tx[s].release /\ v \in tx[s].reserve
  \/ /\ u \in tx[s].release <=> v \in tx[s].release
     /\ \/ LineBefore(u.line, v.line)
        \/ u.line = v.line /\ IF u \in tx[s].release THEN v.night < u.night
                                                    ELSE u.night < v.night

Before(s, u, v) ==
  \/ u \in tx[s].release /\ v \in tx[s].reserve
  \/ /\ u \in tx[s].release <=> v \in tx[s].release
     /\ LineBefore(u.line, v.line) \/ (u.line = v.line /\ u.night < v.night)

First(s, u) == u \in Pending(s) /\ \A v \in Pending(s) \ {u} : Before(s, u, v)

(* s is about to issue the SELECT ... FOR UPDATE for unit u.               *)
AtLock(s, u) ==
  /\ First(s, u)
  /\ u \in tx[s].reserve => tx[s].rt = u.line /\ tx[s].counts = 0

WaitsFor(s, o) ==
  /\ o \notin {s, NoSession}
  /\ \E u \in Pending(s) : AtLock(s, u) /\ lock[RowOf(u)] = o

(* A cycle of sessions each waiting for the next.                          *)
Knot(C) ==
  /\ C # {}
  /\ \A s \in C : \E o \in C : WaitsFor(s, o)
  /\ \A o \in C : \E s \in C : WaitsFor(s, o)

--------------------------------------------------------------------------------
(* Opening a request: the reservation and its lines are read without a     *)
(* lock, the guards of the service function are evaluated on that copy,    *)
(* and what it is going to write is settled.                               *)

Exclusive(R) == MayOverlap \/ \A o \in Session : tx[o].targets \cap R = {}

Open(s, q) ==
  /\ ~tx[s].open
  /\ tx' = [tx EXCEPT ![s] = q]
  /\ window' = [window EXCEPT ![s] = [row \in Row |-> {RowSupply(row)}]]
  /\ UNCHANGED <<inventory, status, lines, sold, draft, lock>>

(* A line id that no line and no open request uses.                        *)
FreshGen(r, g) ==
  /\ \A l \in LinesOf(r) : l.gen # g
  /\ \A o \in Session : \A l \in tx[o].delete \cup tx[o].insert : l.res = r => l.gen # g

NewLines(r, g, p) ==
  {[res |-> r, gen |-> g, k |-> i,
    type |-> p[i].type, arrival |-> p[i].arrival, departure |-> p[i].departure] :
   i \in DOMAIN p}

(* A reservation id comes from a sequence: no other request knows it.      *)
NewId(r) == status[r] = "none" /\ \A o \in Session : r \notin tx[o].targets

(* create_reservation: an inquiry takes no inventory.                      *)
CreateReservation(s, r, g, p, st) ==
  /\ NewId(r) /\ FreshGen(r, g)
  /\ LET new == NewLines(r, g, p)
     IN  Open(s, [Idle EXCEPT !.open = TRUE, !.targets = {r}, !.writes = st,
                              !.insert = new,
                              !.reserve = IF st \in ACTIVE_STATUSES THEN UnitsOf(new) ELSE {}])

(* walk_in: create_reservation, auto_assign and check_in in one request.   *)
WalkIn(s, r, g, p) == CreateReservation(s, r, g, p, "in_house")

(* A request that writes a status and touches no ledger row.               *)
Mark(s, r, from, to) ==
  /\ status[r] = from
  /\ Exclusive({r})
  /\ Open(s, [Idle EXCEPT !.open = TRUE, !.targets = {r}, !.writes = to])

Confirm(s, r) ==
  /\ status[r] = "inquiry"
  /\ Exclusive({r})
  /\ Open(s, [Idle EXCEPT !.open = TRUE, !.targets = {r}, !.writes = "confirmed",
                          !.reserve = UnitsOf(LinesOf(r))])

(* MUTANT of CanCancel: the guest may be in house.                         *)
CanCancelInHouse(r) == status[r] \notin {"none", "checked_out", "cancelled"}

CanCancel(r) == status[r] \notin {"none", "checked_out", "cancelled", "in_house"}

Cancel(s, r) ==
  /\ CanCancel(r)
  /\ Exclusive({r})
  /\ Open(s, [Idle EXCEPT !.open = TRUE, !.targets = {r}, !.writes = "cancelled",
                          !.release = IF HoldsInventory(r) THEN UnitsOf(LinesOf(r)) ELSE {}])

NoShow(s, r) ==
  /\ status[r] = "confirmed"
  /\ Exclusive({r})
  /\ Open(s, [Idle EXCEPT !.open = TRUE, !.targets = {r}, !.writes = "no_show",
                          !.release = UnitsOf(LinesOf(r))])

ModifyRooms(s, r, g, p) ==
  /\ status[r] \in {"inquiry", "confirmed"}
  /\ Exclusive({r}) /\ FreshGen(r, g)
  /\ LET new == NewLines(r, g, p)
         held(U) == IF HoldsInventory(r) THEN U ELSE {}
     IN  Open(s, [Idle EXCEPT !.open = TRUE, !.targets = {r},
                              !.delete = LinesOf(r), !.insert = new,
                              !.release = held(UnitsOf(LinesOf(r))),
                              !.reserve = held(UnitsOf(new))])

(* Room assignment and the folio balance, which check_in and check_out     *)
(* also ask for, are not in this module: a refusal for them is a Fail.     *)
CheckIn(s, r) == Mark(s, r, "confirmed", "in_house")
CheckOut(s, r) == Mark(s, r, "in_house", "checked_out")
UndoCheckIn(s, r) == Mark(s, r, "in_house", "confirmed")
UndoCheckOut(s, r) == Mark(s, r, "checked_out", "in_house")

(* no_show_sweep: one SELECT finds the stale reservations.                 *)
Stale(asOf) ==
  {r \in Reservation : status[r] = "confirmed" /\ \E l \in LinesOf(r) : l.arrival < asOf}

Sweep(s, asOf) ==
  /\ Stale(asOf) # {}
  /\ Exclusive(Stale(asOf))
  /\ Open(s, [Idle EXCEPT !.open = TRUE, !.targets = Stale(asOf), !.writes = "no_show",
                          !.todo = Stale(asOf)])

(* The sweep turns to its next reservation, in whatever order the SELECT   *)
(* returned them; its lines are loaded only now.                           *)
SweepNext(s, r) ==
  /\ r \in tx[s].todo
  /\ Pending(s) = {}
  /\ tx' = [tx EXCEPT ![s].todo = @ \ {r},
                      ![s].release = @ \cup UnitsOf(LinesOf(r))]
  /\ UNCHANGED <<inventory, status, lines, sold, draft, lock, window>>

--------------------------------------------------------------------------------
(* Working through the ledger.                                             *)

(* MUTANT of FreeFor: the row is read without FOR UPDATE.                  *)
FreeForAll(s, row) == TRUE

FreeFor(s, row) == lock[row] \in {NoSession, s}

(* sold_units after one unit less, and one unit more.                      *)
Released(n) == Max2(n - 1, 0)

Reserved(n) == n + 1

(* release, one night: lock the row, take one unit off.                    *)
ReleaseUnit(s) ==
  \E u \in tx[s].release : LET row == RowOf(u) IN
    /\ AtLock(s, u)
    /\ FreeFor(s, row)
    /\ lock' = [lock EXCEPT ![row] = s]
    /\ draft' = [draft EXCEPT ![row] = Released(@)]
    /\ tx' = [tx EXCEPT ![s].done = @ \cup {u}]
    /\ UNCHANGED <<inventory, status, lines, sold, window>>

(* reserve, before its loop: the RoomType is loaded once for a line.       *)
LoadRoomType(s) ==
  \E u \in tx[s].reserve :
    /\ First(s, u)
    /\ tx[s].rt # u.line
    /\ tx' = [tx EXCEPT ![s].rt = u.line, ![s].seen.allowance = allowance[u.line.type]]
    /\ UNCHANGED <<inventory, status, lines, sold, draft, lock, window>>

(* reserve, one night: lock the row, then the queries of capacity().       *)
LockAndCountRooms(s) ==
  \E u \in tx[s].reserve : LET row == RowOf(u) IN
    /\ AtLock(s, u)
    /\ FreeFor(s, row)
    /\ lock' = [lock EXCEPT ![row] = s]
    /\ tx' = [tx EXCEPT ![s].counts = 1, ![s].seen.active = ActiveRoomCount(row[1])]
    /\ UNCHANGED <<inventory, status, lines, sold, draft, window>>

CountRoomBlocks(s) ==
  \E u \in tx[s].reserve :
    /\ First(s, u) /\ tx[s].counts = 1
    /\ tx' = [tx EXCEPT ![s].counts = 2,
                        ![s].seen.roomBlocks = RoomBlocks(u.line.type, u.night)]
    /\ UNCHANGED <<inventory, status, lines, sold, draft, lock, window>>

(* MUTANT of SeenFor: the blocks of the type are not counted.              *)
SeenWithoutTypeBlocks(s, u) == tx[s].seen

(* What the request has seen once it has counted the type blocks as well.  *)
SeenFor(s, u) == [tx[s].seen EXCEPT !.typeBlocks = TypeBlocks(u.line.type, u.night)]

(* MUTANT of Fits: off by one.                                             *)
FitsOneMore(s, u) == draft[RowOf(u)] <= Capacity(SeenFor(s, u))

Fits(s, u) == draft[RowOf(u)] + 1 <= Capacity(SeenFor(s, u))

LastNight(u) == u.night + 1 = u.line.departure

ReserveUnit(s) ==
  \E u \in tx[s].reserve :
    /\ First(s, u) /\ tx[s].counts = 2
    /\ Fits(s, u)
    /\ draft' = [draft EXCEPT ![RowOf(u)] = Reserved(@)]
    /\ tx' = [tx EXCEPT ![s].done = @ \cup {u},
                        ![s].counts = 0,
                        ![s].rt = IF LastNight(u) THEN None ELSE @,
                        ![s].seen = IF LastNight(u) THEN NothingSeen
                                    ELSE [NothingSeen EXCEPT !.allowance = tx[s].seen.allowance]]
    /\ UNCHANGED <<inventory, status, lines, sold, lock, window>>

--------------------------------------------------------------------------------
(* Ending a request.                                                       *)

Owns(s, row) == lock[row] = s

(* MUTANT of Unlocked: the session is left open with its row locks.        *)
StillLocked(s) == lock

Unlocked(s) == [row \in Row |-> IF Owns(s, row) THEN NoSession ELSE lock[row]]

Close(s) ==
  /\ lock' = Unlocked(s)
  /\ tx' = [tx EXCEPT ![s] = Idle]
  /\ window' = [window EXCEPT ![s] = NoWindow]
  /\ UNCHANGED inventory

(* The status a reservation has after s commits.                           *)
Written(s, r) ==
  IF r \in tx[s].targets /\ tx[s].writes # "keep" THEN tx[s].writes ELSE status[r]

(* DBSessionMiddleware: the response was a success.                        *)
Commit(s) ==
  /\ tx[s].open /\ tx[s].todo = {} /\ Pending(s) = {}
  /\ status' = [r \in Reservation |-> Written(s, r)]
  /\ lines' = (lines \ tx[s].delete) \cup tx[s].insert
  /\ sold' = [row \in Row |-> IF Owns(s, row) THEN draft[row] ELSE sold[row]]
  /\ draft' = draft
  /\ Close(s)

Rollback(s) ==
  /\ draft' = [row \in Row |-> IF Owns(s, row) THEN sold[row] ELSE draft[row]]
  /\ UNCHANGED <<status, lines, sold>>
  /\ Close(s)

(* reserve raises NoAvailability; the 409 rolls the request back.          *)
Refuse(s) ==
  /\ \E u \in tx[s].reserve : First(s, u) /\ tx[s].counts = 2 /\ ~Fits(s, u)
  /\ Rollback(s)

(* Any other exception, or the loss of the process or of its connection.   *)
Fail(s) == tx[s].open /\ Rollback(s)

(* The database breaks a deadlock by aborting one session of the cycle.    *)
DeadlockVictim(s) ==
  /\ \E C \in SUBSET Session : s \in C /\ Knot(C)
  /\ Rollback(s)

(* An administrator's request commits while others are open.               *)
EditInventory ==
  /\ InventoryNext
  /\ window' = [s \in Session |-> [row \in Row |->
                  IF tx[s].open THEN window[s][row] \cup {RowSupply(row)'} ELSE {}]]
  /\ UNCHANGED <<status, lines, sold, draft, lock, tx>>

--------------------------------------------------------------------------------
Submit(s) ==
  \E r \in Reservation :
    \/ \E g \in Gen, p \in Payload :
         \/ \E st \in {"inquiry", "confirmed"} : CreateReservation(s, r, g, p, st)
         \/ WalkIn(s, r, g, p)
         \/ ModifyRooms(s, r, g, p)
    \/ Confirm(s, r) \/ Cancel(s, r) \/ NoShow(s, r)
    \/ CheckIn(s, r) \/ CheckOut(s, r) \/ UndoCheckIn(s, r) \/ UndoCheckOut(s, r)

RunSweep(s) == \E asOf \in Day : Sweep(s, asOf)

(* What an open request does by itself.                                    *)
Proceed(s) ==
  \/ \E r \in Reservation : SweepNext(s, r)
  \/ ReleaseUnit(s) \/ LoadRoomType(s) \/ LockAndCountRooms(s) \/ CountRoomBlocks(s)
  \/ ReserveUnit(s) \/ Refuse(s) \/ Commit(s)

Next ==
  \/ EditInventory
  \/ \E s \in Session :
       Submit(s) \/ RunSweep(s) \/ Proceed(s) \/ Fail(s) \/ DeadlockVictim(s)

Spec == Init /\ [][Next]_vars

(* A thread of the pool runs its request on; the database queues the       *)
(* waiters of a row in order, so a session that can take a lock again and  *)
(* again takes it; and its deadlock detector runs.  No request has to come *)
(* and none has to fail.                                                   *)
Fairness ==
  \A s \in Session : SF_vars(Proceed(s)) /\ WF_vars(DeadlockVictim(s))

FairSpec == Spec /\ Fairness

--------------------------------------------------------------------------------
(* The ledger counts exactly the nights of the stays that hold inventory,  *)
(* through every interleaving, refusal, crash and rollback: nothing is     *)
(* released twice, reserved twice, or lost with a failed request.          *)
LedgerMatchesBookings == \A row \in Row : sold[row] = HeldCount(row)

(* Sales only follow the inventory: with rooms, blocks and allowances left *)
(* alone, no row ever holds more stays than its capacity.                  *)
FixedInventory == EditableRoom = {} /\ EditableBlock = {} /\ Allowance = {}

NoOversell ==
  FixedInventory => \A row \in Row : HeldCount(row) <= Capacity(RowSupply(row))

(* Bookings of one room line visit their nights in ascending order, so a   *)
(* cycle of waiting requests always contains one that handles several      *)
(* lines (a group booking, a modification or the no-show sweep).           *)
ManyLines(s) == \E u, v \in tx[s].release \cup tx[s].reserve : u.line # v.line

DeadlockNeedsManyLines ==
  \A C \in SUBSET Session : Knot(C) => \E s \in C : ManyLines(s)

(* A reservation's status moves only along the documented lifecycle, the   *)
(* undo of a check-in or check-out, and a cancellation after a no-show.    *)
Lifecycle ==
  {<<"none", "inquiry">>, <<"none", "confirmed">>, <<"none", "in_house">>,
   <<"inquiry", "confirmed">>, <<"inquiry", "cancelled">>,
   <<"confirmed", "in_house">>, <<"confirmed", "cancelled">>, <<"confirmed", "no_show">>,
   <<"in_house", "checked_out">>, <<"no_show", "cancelled">>,
   <<"in_house", "confirmed">>, <<"checked_out", "in_house">>}

LifecycleFollowed ==
  [][\A r \in Reservation :
       status'[r] # status[r] => <<status[r], status'[r]>> \in Lifecycle]_status

(* release clamps the counter at zero ("max(row.sold_units - units, 0)").  *)
(* The clamp never acts: every night released, by a cancellation, a        *)
(* no-show, a modification or the sweep, takes a unit off that was sold,   *)
(* whatever other requests have committed on the row in between.           *)
ReleaseNeverClamps ==
  [][\A s \in Session : ReleaseUnit(s) => \E row \in Row : draft'[row] < draft[row]]_vars

(* The ledger counts the nights of the reservations whose status is in     *)
(* ACTIVE_STATUSES ("Statuses that hold inventory."), and no others.       *)
LedgerCountsActiveOnly ==
  \A row \in Row :
    sold[row] = Cardinality(UnitsAt(row, UnitsOf({l \in lines : HoldsInventory(l.res)})))

(* Every request ends: it commits, is refused, fails or is chosen as the   *)
(* victim of a deadlock; none waits for a row lock for ever.               *)
RequestsFinish == \A s \in Session : tx[s].open ~> ~tx[s].open

--------------------------------------------------------------------------------
(* The ledger implements the atomic sale of rooms: a request that commits  *)
(* sells in one step, within a capacity the inventory offered while the    *)
(* request ran, and one that rolls back sells nothing.                     *)
Sales == INSTANCE RoomSales WITH
  held <- [row \in Row |-> HeldCount(row)],
  supply <- [row \in Row |-> RowSupply(row)]

ImplementsRoomSales == Sales!Spec

================================================================================
