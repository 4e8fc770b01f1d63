-------------------------------- MODULE FrontDesk ------------------------------
(***************************************************************************)
(* The front desk (app/modules/frontdesk): rooms are assigned to the lines *)
(* of a reservation, guests are checked in and out, and an action recorded *)
(* in the audit log (app/modules/audit) can be undone by its actor.        *)
(* Check-out closes a settled folio (app/modules/billing) and marks the    *)
(* rooms dirty (app/modules/housekeeping); its undo takes both back.       *)
(*                                                                         *)
(* A request is a transaction of two steps.  It reads the committed rows,  *)
(* decides, and keeps what it will write (its write set: the attributes    *)
(* that change, as the unit of work emits them) until it commits.  With    *)
(* one session requests run one after another; with two, the second may    *)
(* decide on rows the first is about to change.                            *)
(***************************************************************************)
EXTENDS DateRange, FiniteSets, Sequences

CONSTANTS
  Reservation,
  Booked,          \* the reservations confirmed at the start; a walk-in makes the others
  Line,            \* the room lines of all reservations
  Lines,           \* [Reservation -> Seq(Line)]: the lines of each, by id
  Stay,            \* [Line -> [arrival, departure]]
  Room,            \* the active rooms, by number
  Fitting,         \* [Line -> SUBSET Room]: the rooms of the booked type
  RoomBlock,       \* blocks of single rooms: a set of [room, start, end]
  Actor,           \* the users of the front desk
  Session,         \* requests that may be running at the same time
  None,
  MaxEvents        \* bound: the number of events recorded

ASSUME StaysAssumption ==
  /\ Booked \subseteq Reservation
  /\ Lines \in [Reservation -> Seq(Line)]
  /\ Stay \in [Line -> [arrival: Int, departure: Int]]
  /\ Room \subseteq Nat
  /\ Fitting \in [Line -> SUBSET Room]
  /\ RoomBlock \subseteq [room: Room, start: Int, end: Int]
ASSUME OwnLinesAssumption ==
  /\ \A l \in Line : \E x \in Reservation : \E k \in 1..Len(Lines[x]) : Lines[x][k] = l
  /\ \A x, y \in Reservation :
       \A i \in 1..Len(Lines[x]), j \in 1..Len(Lines[y]) : Lines[x][i] = Lines[y][j] => x = y
ASSUME NoneAssumption == None \notin Room /\ MaxEvents \in Nat

Status == {"absent", "confirmed", "in_house", "checked_out", "cancelled"}
HousekeepingStatus == {"clean", "dirty", "inspected"}

VARIABLES
  status,          \* [Reservation -> Status]
  assigned,        \* [Line -> Room \cup {None}]
  folio,           \* [Reservation -> {"none", "open", "closed"}]
  owing,           \* [Reservation -> BOOLEAN]: the folio's balance is not zero
  housekeeping,    \* [Room -> HousekeepingStatus]
  log,             \* the audit events that concern these rows, by id
  undone,          \* the ids of the events marked undone
  tx               \* [Session -> the write set of its request, or None]

rows == <<status, assigned, folio, owing, housekeeping>>
vars == <<status, assigned, folio, owing, housekeeping, log, undone, tx>>

--------------------------------------------------------------------------------
(* Events.                                                                 *)

RoomAssigned(l, r, p, a) ==
  [type |-> "RoomAssigned", line |-> l, room |-> r, previous |-> p, actor |-> a]
GuestCheckedIn(x, a) == [type |-> "GuestCheckedIn", res |-> x, actor |-> a]
GuestCheckedOut(x, prior, closed, a) ==
  [type |-> "GuestCheckedOut", res |-> x, prior |-> prior,
   folioClosedByThisAction |-> closed, actor |-> a]
ActionUndone(e, a) == [type |-> "ActionUndone", original |-> e, actor |-> a]

--------------------------------------------------------------------------------
(* Transactions.                                                           *)

Nothing == [y \in {} |-> None]
One(x, v) == [y \in {x} |-> v]
Change(f, x, v) == IF f[x] = v THEN Nothing ELSE One(x, v)
Overlay(f, g) == [x \in DOMAIN f |-> IF x \in DOMAIN g THEN g[x] ELSE f[x]]

NoWrites ==
  [status |-> Nothing, assigned |-> Nothing, folio |-> Nothing, owing |-> Nothing,
   housekeeping |-> Nothing, events |-> <<>>, undo |-> {}]

Request(s, writes) ==
  /\ tx[s] = None
  /\ Len(log) < MaxEvents
  /\ tx' = [tx EXCEPT ![s] = writes]
  /\ UNCHANGED <<status, assigned, folio, owing, housekeeping, log, undone>>

Commit(s) ==
  LET w == tx[s] IN
  /\ w # None
  /\ status' = Overlay(status, w.status)
  /\ assigned' = Overlay(assigned, w.assigned)
  /\ folio' = Overlay(folio, w.folio)
  /\ owing' = Overlay(owing, w.owing)
  /\ housekeeping' = Overlay(housekeeping, w.housekeeping)
  /\ log' = log \o w.events
  /\ undone' = undone \cup w.undo
  /\ tx' = [tx EXCEPT ![s] = None]

--------------------------------------------------------------------------------
(* Rooms.                                                                  *)

ResOf(l) == CHOOSE x \in Reservation : \E k \in 1..Len(Lines[x]) : Lines[x][k] = l
LinesOf(x) == {Lines[x][k] : k \in 1..Len(Lines[x])}

OverlappingStays(l, m) ==
  Overlaps(Stay[l].arrival, Stay[l].departure, Stay[m].arrival, Stay[m].departure)

ACTIVE_STATUSES == {"confirmed", "in_house"}

ActiveReservations == {x \in Reservation : status[x] \in ACTIVE_STATUSES}

(* MUTANT of RoomFree: a stay in house no longer takes its room.           *)
RoomFreeOfConfirmed(a, A, l, r) ==
  \A m \in Line \ {l} :
    a[m] = r /\ ResOf(m) \in A /\ status[ResOf(m)] # "in_house" => ~OverlappingStays(l, m)

(* _room_conflicts, for the assignments a and the active reservations A.   *)
RoomFree(a, A, l, r) ==
  /\ \A m \in Line \ {l} : a[m] = r /\ ResOf(m) \in A => ~OverlappingStays(l, m)
  /\ \A b \in RoomBlock :
       b.room = r => ~Overlaps(Stay[l].arrival, Stay[l].departure, b.start, b.end)

(* Any active room: the caller may set allow_type_mismatch.                *)
CanAssign(l, r) ==
  /\ status[ResOf(l)] \in {"confirmed", "in_house"}
  /\ RoomFree(assigned, ActiveReservations, l, r)

AssignRoom(s, l, r, a) ==
  /\ CanAssign(l, r)
  /\ Request(s, [NoWrites EXCEPT !.assigned = Change(assigned, l, r),
                                 !.events = <<RoomAssigned(l, r, assigned[l], a)>>])

(* auto_assign, one line of x: it takes the first free room of its type,   *)
(* seeing the rooms the lines before it took, and publishes the event.  x  *)
(* is active by then: walk_in has just created it as confirmed.            *)
PlaceLine(p, x, l, a) ==
  LET free == {r \in Fitting[l] : RoomFree(p.rooms, ActiveReservations \cup {x}, l, r)}
      first == CHOOSE r \in free : \A q \in free : r <= q
  IN  IF p.rooms[l] # None \/ free = {} THEN p
      ELSE [rooms |-> [p.rooms EXCEPT ![l] = first],
            events |-> Append(p.events, RoomAssigned(l, first, None, a))]

(* The rooms and the events after it has gone through the lines of x.      *)
Placed(x, a) ==
  LET f[k \in 0..Len(Lines[x])] ==
        IF k = 0 THEN [rooms |-> assigned, events |-> <<>>]
        ELSE PlaceLine(f[k - 1], x, Lines[x][k], a)
  IN  f[Len(Lines[x])]

AllPlaced(x, rooms) == \A l \in LinesOf(x) : rooms[l] # None

NewlyPlaced(x, rooms) == [l \in {m \in LinesOf(x) : assigned[m] = None} |-> rooms[l]]

(* One line without a free room refuses the whole request.                 *)
AutoAssign(s, x, a) ==
  LET p == Placed(x, a) IN
  /\ status[x] \in {"confirmed", "in_house"}
  /\ p.events # <<>>
  /\ AllPlaced(x, p.rooms)
  /\ Request(s, [NoWrites EXCEPT !.assigned = NewlyPlaced(x, p.rooms), !.events = p.events])

--------------------------------------------------------------------------------
(* Guests.                                                                 *)

(* get_or_open_folio: a folio there already is kept, whatever its status.  *)
Opened(x) == IF folio[x] = "none" THEN "open" ELSE folio[x]

CheckIn(s, x, a) ==
  /\ \A l \in LinesOf(x) : assigned[l] # None
  /\ status[x] = "confirmed"
  /\ Request(s, [NoWrites EXCEPT !.status = One(x, "in_house"),
                                 !.folio = Change(folio, x, Opened(x)),
                                 !.events = <<GuestCheckedIn(x, a)>>])

(* walk_in: create, auto-assign and check in, in one transaction.          *)
WalkIn(s, x, a) ==
  LET p == Placed(x, a) IN
  /\ status[x] = "absent"
  /\ AllPlaced(x, p.rooms)
  /\ Request(s, [NoWrites EXCEPT !.status = One(x, "in_house"),
                                 !.assigned = NewlyPlaced(x, p.rooms),
                                 !.folio = One(x, "open"),
                                 !.events = Append(p.events, GuestCheckedIn(x, a))])

RoomsOf(x) == {assigned[l] : l \in LinesOf(x)} \ {None}

(* MUTANT of PriorStatus: a room nobody ever touched has no row to read.   *)
PriorRowStatus(x) ==
  [r \in RoomsOf(x) |-> IF housekeeping[r] = "clean" THEN "no row" ELSE housekeeping[r]]

(* MUTANT of PriorStatus: read after the room has been set to dirty.       *)
StatusAfter(x) == [r \in RoomsOf(x) |-> "dirty"]

(* on_guest_checked_out visits the rooms line by line and keeps the status *)
(* it found; a room two lines share is found dirty the second time.        *)
PriorStatus(x) ==
  [r \in RoomsOf(x) |->
     IF Cardinality({l \in LinesOf(x) : assigned[l] = r}) > 1 THEN "dirty" ELSE housekeeping[r]]

MadeDirty(x) == [r \in {q \in RoomsOf(x) : housekeeping[q] # "dirty"} |-> "dirty"]

(* A zero balance closes the folio, or finds it closed: the event says     *)
(* closed by this action either way.                                       *)
CheckOut(s, x, a, allowBalance) ==
  /\ status[x] = "in_house"
  /\ owing[x] => allowBalance
  /\ Request(s, [NoWrites EXCEPT
       !.status = One(x, "checked_out"),
       !.folio = Change(folio, x, IF owing[x] THEN Opened(x) ELSE "closed"),
       !.housekeeping = MadeDirty(x),
       !.events = <<GuestCheckedOut(x, PriorStatus(x), ~owing[x], a)>>])

Cancel(s, x) ==
  /\ status[x] = "confirmed"
  /\ Request(s, [NoWrites EXCEPT !.status = One(x, "cancelled")])

SetHousekeeping(s, r, h) ==
  /\ housekeeping[r] # h
  /\ Request(s, [NoWrites EXCEPT !.housekeeping = One(r, h)])

(* A charge, a payment or a void moves the balance off or back to zero.    *)
Post(s, x) ==
  /\ folio[x] = "open"
  /\ Request(s, [NoWrites EXCEPT !.owing = One(x, ~owing[x])])

CloseFolio(s, x) ==
  /\ folio[x] = "open"
  /\ ~owing[x]
  /\ Request(s, [NoWrites EXCEPT !.folio = One(x, "closed")])

--------------------------------------------------------------------------------
(* Undo.                                                                   *)

(* What undo_event checks before it runs the reversers.                    *)
MayUndo(e, a, type) ==
  /\ e \notin undone
  /\ log[e].actor = a
  /\ log[e].type = type

(* The way back to a previous room is an assignment, with its own guards   *)
(* and its own event; without a previous room the line is released.        *)
UndoRoomAssigned(s, e, a) ==
  LET l == log[e].line
      p == log[e].previous
  IN  /\ MayUndo(e, a, "RoomAssigned")
      /\ assigned[l] = log[e].room
      /\ IF p # None THEN CanAssign(l, p) ELSE status[ResOf(l)] # "in_house"
      /\ Request(s, [NoWrites EXCEPT
           !.assigned = Change(assigned, l, p),
           !.events = <<RoomAssigned(l, p, assigned[l], a), ActionUndone(e, a)>>,
           !.undo = {e}])

(* MUTANT of UndoCheckIn: the status is not looked at.                     *)
UndoCheckInAlways(s, e, a) ==
  /\ MayUndo(e, a, "GuestCheckedIn")
  /\ Request(s, [NoWrites EXCEPT !.status = One(log[e].res, "confirmed"),
                                 !.events = <<ActionUndone(e, a)>>,
                                 !.undo = {e}])

(* The folio the check-in opened stays.                                    *)
UndoCheckIn(s, e, a) ==
  /\ MayUndo(e, a, "GuestCheckedIn")
  /\ status[log[e].res] = "in_house"
  /\ Request(s, [NoWrites EXCEPT !.status = One(log[e].res, "confirmed"),
                                 !.events = <<ActionUndone(e, a)>>,
                                 !.undo = {e}])

(* revert_guest_checked_out_housekeeping: rooms still dirty go back.       *)
Restored(prior) ==
  [r \in {q \in DOMAIN prior : housekeeping[q] = "dirty" /\ prior[q] # "dirty"} |-> prior[r]]

UndoCheckOut(s, e, a) ==
  LET x == log[e].res
      reopen == log[e].folioClosedByThisAction /\ folio[x] = "closed"
  IN  /\ MayUndo(e, a, "GuestCheckedOut")
      /\ status[x] = "checked_out"
      /\ Request(s, [NoWrites EXCEPT
           !.status = One(x, "in_house"),
           !.folio = IF reopen THEN One(x, "open") ELSE Nothing,
           !.housekeeping = Restored(log[e].prior),
           !.events = <<ActionUndone(e, a)>>,
           !.undo = {e}])

--------------------------------------------------------------------------------
Init ==
  /\ status = [x \in Reservation |-> IF x \in Booked THEN "confirmed" ELSE "absent"]
  /\ assigned = [l \in Line |-> None]
  /\ folio = [x \in Reservation |-> "none"]
  /\ owing = [x \in Reservation |-> FALSE]
  /\ housekeeping = [r \in Room |-> "clean"]
  /\ log = <<>>
  /\ undone = {}
  /\ tx = [s \in Session |-> None]

Operate(s, a) ==
  \/ \E l \in Line, r \in Room : AssignRoom(s, l, r, a)
  \/ \E x \in Reservation : AutoAssign(s, x, a) \/ CheckIn(s, x, a) \/ WalkIn(s, x, a)
  \/ \E x \in Reservation, allow \in BOOLEAN : CheckOut(s, x, a, allow)

Undo(s, a) ==
  \E e \in 1..Len(log) :
    UndoRoomAssigned(s, e, a) \/ UndoCheckIn(s, e, a) \/ UndoCheckOut(s, e, a)

Elsewhere(s) ==
  \/ \E x \in Reservation : Cancel(s, x) \/ Post(s, x) \/ CloseFolio(s, x)
  \/ \E r \in Room, h \in HousekeepingStatus : SetHousekeeping(s, r, h)

Next ==
  \E s \in Session :
    Commit(s) \/ Elsewhere(s) \/ \E a \in Actor : Operate(s, a) \/ Undo(s, a)

Spec == Init /\ [][Next]_vars

--------------------------------------------------------------------------------
(* Properties.                                                             *)

Events(type) == {e \in 1..Len(log) : log[e].type = type}
Pending(type, x) == {e \in Events(type) \ undone : log[e].res = x}

(* Statuses, rooms and folios have the shapes the tables declare, and only *)
(* recorded events are marked undone (TypeOK of the committed rows).       *)
FrontDeskTypeOK ==
  /\ status \in [Reservation -> Status]
  /\ assigned \in [Line -> Room \cup {None}]
  /\ folio \in [Reservation -> {"none", "open", "closed"}]
  /\ owing \in [Reservation -> BOOLEAN]
  /\ housekeeping \in [Room -> HousekeepingStatus]
  /\ undone \subseteq 1..Len(log)

(* The audit log and the reservations agree, however actions and undos     *)
(* alternate: a guest in house has exactly one check-in that can still be  *)
(* undone, a departed guest one check-in and one check-out, anyone else    *)
(* neither.  So an undo can always find the action that led to the present *)
(* status, and no old action can be undone a second time (undo_event and   *)
(* the status gates of the reversers).                                     *)
UndoLogMatchesStatus ==
  \A x \in Reservation :
    /\ Cardinality(Pending("GuestCheckedIn", x)) =
         IF status[x] \in {"in_house", "checked_out"} THEN 1 ELSE 0
    /\ Cardinality(Pending("GuestCheckedOut", x)) = IF status[x] = "checked_out" THEN 1 ELSE 0

Shared ==
  {p \in Line \X Line :
     /\ p[1] # p[2]
     /\ assigned[p[1]] # None /\ assigned[p[1]] = assigned[p[2]]
     /\ status[ResOf(p[1])] \in ACTIVE_STATUSES /\ status[ResOf(p[2])] \in ACTIVE_STATUSES
     /\ OverlappingStays(p[1], p[2])}

UndoesCheckOut == \E e \in undone' \ undone : log[e].type = "GuestCheckedOut"

(* Only the undo of a check-out can give two stays one room: assignments,  *)
(* automatic ones, moves back by undo, check-ins and cancellations never   *)
(* do (_room_conflicts, the one guard of the room plan).                   *)
OnlyUndoneCheckOutShares == [][UndoesCheckOut \/ Shared' \subseteq Shared]_vars

(* No two stays that overlap have one room, what "Room ... is not free for *)
(* these dates" refuses (assign_room).                                     *)
RoomGivenOnce == Shared = {}

(* A guest in house has a room on every line, what "All rooms must be      *)
(* assigned before check-in" and "Cannot unassign a room while the guest   *)
(* is checked in" are for (check_in, release_room).                        *)
InHouseHasRoom ==
  \A x \in Reservation : status[x] = "in_house" => \A l \in LinesOf(x) : assigned[l] # None

(* An assignment is not undone once another user has moved the guest since *)
(* ("a genuine third-party change is still caught", reversers.py).         *)
ThirdPartyMoveCaught ==
  [][\A e \in undone' \ undone : log[e].type = "RoomAssigned" =>
       \A f \in Events("RoomAssigned") \ undone :
         f > e /\ log[f].line = log[e].line /\ log[f].room # log[f].previous =>
           log[f].actor = log[e].actor]_vars

(* A room that a later departure left dirty stays dirty when an earlier    *)
(* check-out is undone ("anything else is left alone", housekeeping).      *)
LaterDepartureStaysDirty ==
  [][\A e \in undone' \ undone : log[e].type = "GuestCheckedOut" =>
       \A f \in Events("GuestCheckedOut") \ undone, r \in Room :
         /\ f > e
         /\ r \in DOMAIN log[e].prior \cap DOMAIN log[f].prior
         /\ housekeeping[r] = "dirty"
         => housekeeping'[r] = "dirty"]_vars

(* Every undo shows up in the audit trail exactly once (ActionUndone).     *)
UndoneOnce ==
  \A e, f \in Events("ActionUndone") : log[e].original = log[f].original => e = f

================================================================================
