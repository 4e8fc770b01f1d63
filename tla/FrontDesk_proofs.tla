----------------------------- MODULE FrontDesk_proofs --------------------------
(***************************************************************************)
(* Theorems about the front desk: type correctness, whatever sessions run  *)
(* at the same time, and, for requests that run one after another, the     *)
(* agreement of the audit log with the statuses and the room plan.         *)
(***************************************************************************)
EXTENDS MCFrontDeskUndo, SequenceTheorems, Sums

--------------------------------------------------------------------------------
(* Shapes of events and write sets.                                        *)

Partial(S, T) == UNION {[X -> T] : X \in SUBSET S}

RoomAssignedEvent ==
  [type: {"RoomAssigned"}, line: Line, room: Room \cup {None}, previous: Room \cup {None},
   actor: Actor]
GuestCheckedInEvent == [type: {"GuestCheckedIn"}, res: Reservation, actor: Actor]
GuestCheckedOutEvent ==
  [type: {"GuestCheckedOut"}, res: Reservation, prior: Partial(Room, HousekeepingStatus),
   folioClosedByThisAction: BOOLEAN, actor: Actor]
ActionUndoneEvent == [type: {"ActionUndone"}, original: Nat, actor: Actor]

AuditEvent ==
  RoomAssignedEvent \cup GuestCheckedInEvent \cup GuestCheckedOutEvent \cup ActionUndoneEvent

FolioStatus == {"none", "open", "closed"}

WriteSet ==
  [status: Partial(Reservation, Status), assigned: Partial(Line, Room \cup {None}),
   folio: Partial(Reservation, FolioStatus), owing: Partial(Reservation, BOOLEAN),
   housekeeping: Partial(Room, HousekeepingStatus), events: Seq(AuditEvent),
   undo: SUBSET Nat]

(* Recorded events and the write sets of open requests are well formed,    *)
(* and a request undoes only what was recorded when it decided.            *)
DeskInvariant ==
  /\ FrontDeskTypeOK
  /\ log \in Seq(AuditEvent)
  /\ tx \in [Session -> WriteSet \cup {None}]
  /\ \A s \in Session : tx[s] # None => tx[s].undo \subseteq 1..Len(log)

--------------------------------------------------------------------------------
(* Partial functions.                                                      *)

LEMMA PartialMember ==
  ASSUME NEW S, NEW T, NEW f
  PROVE  f \in Partial(S, T) <=> f \in [DOMAIN f -> T] /\ DOMAIN f \subseteq S
BY DEF Partial

LEMMA NothingPartial == ASSUME NEW S, NEW T PROVE Nothing \in Partial(S, T)
BY PartialMember DEF Nothing

LEMMA OnePartial ==
  ASSUME NEW S, NEW T, NEW x \in S, NEW v \in T
  PROVE  One(x, v) \in Partial(S, T)
BY PartialMember DEF One

LEMMA ChangePartial ==
  ASSUME NEW S, NEW T, NEW f, NEW x \in S, NEW v \in T
  PROVE  Change(f, x, v) \in Partial(S, T)
BY OnePartial, NothingPartial DEF Change

LEMMA OverlayType ==
  ASSUME NEW S, NEW T, NEW f \in [S -> T], NEW g \in Partial(S, T)
  PROVE  Overlay(f, g) \in [S -> T]
BY PartialMember DEF Overlay

(* A row keeps its value unless it is written.                             *)
LEMMA OverlayValue ==
  ASSUME NEW S, NEW T, NEW f \in [S -> T], NEW y \in S
  PROVE  /\ Overlay(f, Nothing)[y] = f[y]
         /\ \A x, v : Overlay(f, One(x, v))[y] = IF y = x THEN v ELSE f[y]
         /\ \A x, v : Overlay(f, Change(f, x, v))[y] = IF y = x THEN v ELSE f[y]
BY DEF Overlay, Nothing, One, Change

--------------------------------------------------------------------------------
(* Automatic assignment.                                                   *)

(* auto_assign is defined line by line: a function on the first lines of x *)
(* that follows the recursion exists, by the least number of lines for     *)
(* which it would not.                                                     *)
PlacedBy(g, x, a, m) ==
  g = [k \in 0..m |-> IF k = 0 THEN [rooms |-> assigned, events |-> <<>>]
                      ELSE PlaceLine(g[k - 1], x, Lines[x][k], a)]

LEMMA PlacedFollows ==
  ASSUME NEW x \in Reservation, NEW a
  PROVE  \E g : PlacedBy(g, x, a, Len(Lines[x])) /\ Placed(x, a) = g[Len(Lines[x])]
<1> DEFINE n == Len(Lines[x])
           Start == [rooms |-> assigned, events |-> <<>>]
           Bad == {m \in 0..n : ~\E g : PlacedBy(g, x, a, m)}
<1>1. n \in Nat
  BY StaysAssumption
<1> HIDE DEF n
<1>2. Bad = {}
  <2> SUFFICES ASSUME Bad # {} PROVE FALSE
    OBVIOUS
  <2>1. PICK m \in Bad : \A k \in Bad : m <= k
    <3>1. Bad \in SUBSET Nat
      BY <1>1
    <3> HIDE DEF Bad
    <3> QED BY <3>1, NatLeast
  <2>2. m # 0
    <3>1. PlacedBy([k \in 0..0 |-> Start], x, a, 0)
      BY DEF PlacedBy
    <3> QED BY <2>1, <3>1
  <2>3. m \in 0..n /\ m - 1 \in 0..n /\ m - 1 \notin Bad
    BY <1>1, <2>1, <2>2
  <2>4. PICK g : PlacedBy(g, x, a, m - 1)
    BY <2>3
  <2>5. PlacedBy([k \in 0..m |-> IF k = m THEN PlaceLine(g[m - 1], x, Lines[x][m], a) ELSE g[k]],
                 x, a, m)
    BY <2>2, <2>3, <2>4 DEF PlacedBy
  <2> QED BY <2>1, <2>5
<1>3. \E g : PlacedBy(g, x, a, n)
  BY <1>1, <1>2
<1> QED BY <1>3 DEF PlacedBy, Placed, n

(* What holds of auto_assign after any number of lines: rooms and events   *)
(* keep their shapes, no line loses or changes its room, lines of other    *)
(* reservations are left alone, and two lines that share a room did so     *)
(* before.                                                                 *)
Placing(p, x) ==
  /\ p.rooms \in [Line -> Room \cup {None}]
  /\ p.events \in Seq(RoomAssignedEvent)
  /\ \A l \in Line : p.rooms[l] # assigned[l] => assigned[l] = None /\ l \in LinesOf(x)
  /\ \A l, m \in Line :
       /\ l # m
       /\ p.rooms[l] # None /\ p.rooms[l] = p.rooms[m]
       /\ {ResOf(l), ResOf(m)} \subseteq ActiveReservations \cup {x}
       /\ OverlappingStays(l, m)
       => p.rooms[l] = assigned[l] /\ p.rooms[m] = assigned[m]

LEMMA OverlapSymmetric ==
  ASSUME NEW l, NEW m
  PROVE  OverlappingStays(l, m) <=> OverlappingStays(m, l)
BY DEF OverlappingStays, Overlaps

LEMMA PlaceLineKeeps ==
  ASSUME NEW x \in Reservation, NEW l \in LinesOf(x), l \in Line, NEW a \in Actor,
         NEW p, Placing(p, x)
  PROVE  Placing(PlaceLine(p, x, l, a), x)
<1> DEFINE A == ActiveReservations \cup {x}
           free == {r \in Fitting[l] : RoomFree(p.rooms, A, l, r)}
           first == CHOOSE r \in free : \A q \in free : r <= q
           rooms == [p.rooms EXCEPT ![l] = first]
           events == Append(p.events, RoomAssigned(l, first, None, a))
<1>1. CASE p.rooms[l] # None \/ free = {}
  BY <1>1 DEF PlaceLine
<1>2. CASE p.rooms[l] = None /\ free # {}
  <2>1. free \subseteq Room /\ free \in SUBSET Nat
    BY StaysAssumption
  <2>2. first \in free
    <3> HIDE DEF free
    <3> QED BY <1>2, <2>1, NatLeast
  <2>3. first \in Room /\ RoomFree(p.rooms, A, l, first) /\ first # None
    BY <2>1, <2>2, NoneAssumption
  <2>4. PlaceLine(p, x, l, a) = [rooms |-> rooms, events |-> events]
    BY <1>2 DEF PlaceLine
  <2> HIDE DEF first, free, A
  <2>5. \A m \in Line : rooms[m] = IF m = l THEN first ELSE p.rooms[m]
    BY DEF Placing
  <2>6. rooms \in [Line -> Room \cup {None}]
    BY <2>3 DEF Placing
  <2>7. events \in Seq(RoomAssignedEvent)
    <3>1. RoomAssigned(l, first, None, a) \in RoomAssignedEvent
      BY <2>3 DEF RoomAssigned, RoomAssignedEvent
    <3> QED BY <3>1 DEF Placing
  <2>8. \A m \in Line : rooms[m] # assigned[m] => assigned[m] = None /\ m \in LinesOf(x)
    BY <1>2, <2>5 DEF Placing
  <2>9. ASSUME NEW k \in Line, NEW m \in Line, k # m, rooms[k] # None, rooms[k] = rooms[m],
               {ResOf(k), ResOf(m)} \subseteq A, OverlappingStays(k, m)
        PROVE  rooms[k] = assigned[k] /\ rooms[m] = assigned[m]
    <3>1. k # l
      BY <2>3, <2>5, <2>9 DEF RoomFree
    <3>2. m # l
      BY <2>3, <2>5, <2>9, OverlapSymmetric DEF RoomFree
    <3> QED BY <2>5, <2>9, <3>1, <3>2 DEF Placing, A
  <2> HIDE DEF rooms, events
  <2> QED BY <2>4, <2>6, <2>7, <2>8, <2>9 DEF Placing, A
<1> QED BY <1>1, <1>2

LEMMA LineOf ==
  ASSUME NEW x \in Reservation
  PROVE  /\ Len(Lines[x]) \in Nat /\ LinesOf(x) \subseteq Line
         /\ \A k \in 1..Len(Lines[x]) : Lines[x][k] \in LinesOf(x)
<1>1. Lines[x] \in Seq(Line)
  BY StaysAssumption
<1> QED BY <1>1 DEF LinesOf

LEMMA PlacedKeeps ==
  ASSUME FrontDeskTypeOK, NEW x \in Reservation, NEW a \in Actor
  PROVE  Placing(Placed(x, a), x)
<1> DEFINE n == Len(Lines[x])
<1>1. PICK g : PlacedBy(g, x, a, n) /\ Placed(x, a) = g[n]
  BY PlacedFollows
<1>2. n \in Nat /\ \A k \in 1..n : Lines[x][k] \in LinesOf(x) /\ Lines[x][k] \in Line
  BY LineOf
<1> HIDE DEF n
<1>3. \A k \in 0..n : g[k] = IF k = 0 THEN [rooms |-> assigned, events |-> <<>>]
                             ELSE PlaceLine(g[k - 1], x, Lines[x][k], a)
  BY <1>1 DEF PlacedBy
<1> DEFINE Bad == {m \in 0..n : ~Placing(g[m], x)}
<1>4. Bad = {}
  <2> SUFFICES ASSUME Bad # {} PROVE FALSE
    OBVIOUS
  <2>1. PICK m \in Bad : \A k \in Bad : m <= k
    <3>1. Bad \in SUBSET Nat
      BY <1>2
    <3> HIDE DEF Bad
    <3> QED BY <3>1, NatLeast
  <2>2. m # 0
    <3>1. Placing([rooms |-> assigned, events |-> <<>>], x)
      BY DEF Placing, FrontDeskTypeOK
    <3> QED BY <1>2, <1>3, <2>1, <3>1
  <2>3. m \in 1..n /\ m - 1 \in 0..n /\ Placing(g[m - 1], x)
    BY <1>2, <2>1, <2>2
  <2>4. Placing(g[m], x)
    BY <1>2, <1>3, <2>2, <2>3, PlaceLineKeeps
  <2> QED BY <2>1, <2>4
<1> QED BY <1>1, <1>2, <1>4

--------------------------------------------------------------------------------
(* Type correctness: every request prepares a well-formed write set.       *)

LEMMA NoWritesType == NoWrites \in WriteSet
BY NothingPartial DEF NoWrites, WriteSet

LEMMA EventTypes ==
  /\ \A l \in Line, r, p \in Room \cup {None}, a \in Actor :
       RoomAssigned(l, r, p, a) \in RoomAssignedEvent
  /\ \A x \in Reservation, a \in Actor : GuestCheckedIn(x, a) \in GuestCheckedInEvent
  /\ \A x \in Reservation, p \in Partial(Room, HousekeepingStatus), c \in BOOLEAN, a \in Actor :
       GuestCheckedOut(x, p, c, a) \in GuestCheckedOutEvent
  /\ \A e \in Nat, a \in Actor : ActionUndone(e, a) \in ActionUndoneEvent
BY DEF RoomAssigned, RoomAssignedEvent, GuestCheckedIn, GuestCheckedInEvent,
   GuestCheckedOut, GuestCheckedOutEvent, ActionUndone, ActionUndoneEvent

LEMMA LogEvent ==
  ASSUME DeskInvariant, NEW e \in 1..Len(log)
  PROVE  /\ log[e] \in AuditEvent
         /\ log[e].type = "RoomAssigned" => log[e] \in RoomAssignedEvent
         /\ log[e].type = "GuestCheckedIn" => log[e] \in GuestCheckedInEvent
         /\ log[e].type = "GuestCheckedOut" => log[e] \in GuestCheckedOutEvent
<1>1. log[e] \in AuditEvent
  BY DEF DeskInvariant
<1> QED BY <1>1 DEF AuditEvent, RoomAssignedEvent, GuestCheckedInEvent, GuestCheckedOutEvent,
           ActionUndoneEvent

(* A request that prepares w.                                              *)
Prepares(s, w) ==
  /\ Request(s, w)
  /\ w \in WriteSet
  /\ w.undo \subseteq 1..Len(log)

(* The fields of a write set, one by one.                                  *)
Fields(w, st, as, fo, ow, hk, ev, un) ==
  /\ w = [y \in DOMAIN NoWrites |-> w[y]]
  /\ w.status = st /\ w.assigned = as /\ w.folio = fo /\ w.owing = ow
  /\ w.housekeeping = hk /\ w.events = ev /\ w.undo = un

(* A request whose writes have the shapes of the rows prepares them.       *)
LEMMA PreparesIf ==
  ASSUME NEW s \in Session,
         NEW st \in Partial(Reservation, Status), NEW as \in Partial(Line, Room \cup {None}),
         NEW fo \in Partial(Reservation, FolioStatus), NEW ow \in Partial(Reservation, BOOLEAN),
         NEW hk \in Partial(Room, HousekeepingStatus), NEW ev \in Seq(AuditEvent),
         NEW un \in SUBSET (1..Len(log)), NEW w, Fields(w, st, as, fo, ow, hk, ev, un),
         Request(s, w), DeskInvariant
  PROVE  Prepares(s, w)
<1>1. un \in SUBSET Nat
  BY DEF DeskInvariant
<1>2. w = [y \in {"status", "assigned", "folio", "owing", "housekeeping", "events", "undo"}
            |-> w[y]]
  BY DEF Fields, NoWrites
<1>3. w \in WriteSet
  BY <1>1, <1>2 DEF WriteSet, Fields
<1> QED BY <1>3 DEF Prepares, Fields

(* A request that will write the statuses st and the rooms as, record the  *)
(* events ev and mark un undone, whatever it writes to folios and rooms.   *)
Asks(s, st, as, ev, un) ==
  \E w : /\ Prepares(s, w)
         /\ w.status = st /\ w.assigned = as /\ w.events = ev /\ w.undo = un

LEMMA AsksIf ==
  ASSUME NEW s, NEW w, NEW st, NEW as, NEW fo, NEW ow, NEW hk, NEW ev, NEW un,
         Prepares(s, w), Fields(w, st, as, fo, ow, hk, ev, un)
  PROVE  Asks(s, st, as, ev, un)
BY DEF Asks, Fields

LEMMA RequestKeepsTypes ==
  ASSUME DeskInvariant, NEW s \in Session, NEW w, Prepares(s, w)
  PROVE  DeskInvariant'
<1>1. tx' = [tx EXCEPT ![s] = w] /\ w \in WriteSet /\ w.undo \subseteq 1..Len(log)
  BY DEF Prepares, Request
<1>2. UNCHANGED <<status, assigned, folio, owing, housekeeping, log, undone>>
  BY DEF Prepares, Request
<1>3. tx' \in [Session -> WriteSet \cup {None}]
  BY <1>1 DEF DeskInvariant
<1>4. \A o \in Session : tx'[o] # None => tx'[o].undo \subseteq 1..Len(log)
  BY <1>1 DEF DeskInvariant
<1> QED BY <1>2, <1>3, <1>4 DEF DeskInvariant, FrontDeskTypeOK

LEMMA AskingKeepsTypes ==
  ASSUME DeskInvariant, NEW s \in Session, NEW st, NEW as, NEW ev, NEW un,
         Asks(s, st, as, ev, un)
  PROVE  DeskInvariant'
BY RequestKeepsTypes DEF Asks

LEMMA CommitKeepsTypes ==
  ASSUME DeskInvariant, NEW s \in Session, Commit(s)
  PROVE  DeskInvariant'
<1> DEFINE w == tx[s]
<1>1. w \in WriteSet /\ w.undo \subseteq 1..Len(log)
  BY DEF DeskInvariant, Commit
<1>2. /\ w.status \in Partial(Reservation, Status)
      /\ w.assigned \in Partial(Line, Room \cup {None})
      /\ w.folio \in Partial(Reservation, FolioStatus)
      /\ w.owing \in Partial(Reservation, BOOLEAN)
      /\ w.housekeeping \in Partial(Room, HousekeepingStatus)
      /\ w.events \in Seq(AuditEvent)
  BY <1>1 DEF WriteSet
<1>3. /\ status' = Overlay(status, w.status) /\ assigned' = Overlay(assigned, w.assigned)
      /\ folio' = Overlay(folio, w.folio) /\ owing' = Overlay(owing, w.owing)
      /\ housekeeping' = Overlay(housekeeping, w.housekeeping)
      /\ log' = log \o w.events /\ undone' = undone \cup w.undo
      /\ tx' = [tx EXCEPT ![s] = None]
  BY DEF Commit
<1> HIDE DEF w
<1>4. /\ status' \in [Reservation -> Status]
      /\ assigned' \in [Line -> Room \cup {None}]
      /\ folio' \in [Reservation -> FolioStatus]
      /\ owing' \in [Reservation -> BOOLEAN]
      /\ housekeeping' \in [Room -> HousekeepingStatus]
  BY <1>2, <1>3, OverlayType DEF DeskInvariant, FrontDeskTypeOK, FolioStatus
<1>5. log' \in Seq(AuditEvent) /\ Len(log') = Len(log) + Len(w.events)
  BY <1>2, <1>3 DEF DeskInvariant
<1>6. 1..Len(log) \subseteq 1..Len(log')
  BY <1>2, <1>5 DEF DeskInvariant
<1>7. undone' \subseteq 1..Len(log')
  BY <1>1, <1>3, <1>6 DEF DeskInvariant, FrontDeskTypeOK
<1>8. tx' \in [Session -> WriteSet \cup {None}]
  BY <1>3 DEF DeskInvariant
<1>9. \A o \in Session : tx'[o] # None => tx'[o].undo \subseteq 1..Len(log')
  BY <1>3, <1>6 DEF DeskInvariant
<1> QED BY <1>4, <1>5, <1>7, <1>8, <1>9 DEF DeskInvariant, FrontDeskTypeOK, FolioStatus

LEMMA AssignRoomPrepares ==
  ASSUME DeskInvariant, NEW s \in Session, NEW l \in Line, NEW r \in Room, NEW a \in Actor,
         AssignRoom(s, l, r, a)
  PROVE  Asks(s, Nothing, Change(assigned, l, r), <<RoomAssigned(l, r, assigned[l], a)>>, {})
<1>1. Change(assigned, l, r) \in Partial(Line, Room \cup {None})
  BY ChangePartial
<1>2. RoomAssigned(l, r, assigned[l], a) \in AuditEvent
  BY EventTypes DEF DeskInvariant, FrontDeskTypeOK, AuditEvent
<1> DEFINE as == Change(assigned, l, r)
           g == RoomAssigned(l, r, assigned[l], a)
           w == [NoWrites EXCEPT !.assigned = as, !.events = <<g>>]
<1>3. Request(s, w)
  BY DEF AssignRoom
<1> HIDE DEF as, g
<1>4. Fields(w, Nothing, as, Nothing, Nothing, Nothing, <<g>>, {})
  BY DEF NoWrites, Fields
<1>5. <<g>> \in Seq(AuditEvent)
  BY <1>2 DEF g
<1> HIDE DEF w
<1>6. Prepares(s, w)
  BY <1>1, <1>3, <1>4, <1>5, PreparesIf, NothingPartial DEF as
<1> QED BY <1>4, <1>6, AsksIf DEF as, g

LEMMA NewlyPlacedType ==
  ASSUME DeskInvariant, NEW x \in Reservation, NEW a \in Actor
  PROVE  /\ NewlyPlaced(x, Placed(x, a).rooms) \in Partial(Line, Room \cup {None})
         /\ Placed(x, a).events \in Seq(RoomAssignedEvent)
         /\ Placed(x, a).events \in Seq(AuditEvent)
<1>1. Placing(Placed(x, a), x) /\ LinesOf(x) \subseteq Line
  BY PlacedKeeps, LineOf DEF DeskInvariant
<1>2. NewlyPlaced(x, Placed(x, a).rooms) \in Partial(Line, Room \cup {None})
  BY <1>1, PartialMember DEF NewlyPlaced, Placing
<1>3. Placed(x, a).events \in Seq(AuditEvent)
  BY <1>1 DEF Placing, AuditEvent
<1> QED BY <1>1, <1>2, <1>3 DEF Placing

LEMMA AutoAssignPrepares ==
  ASSUME DeskInvariant, NEW s \in Session, NEW x \in Reservation, NEW a \in Actor,
         AutoAssign(s, x, a)
  PROVE  Asks(s, Nothing, NewlyPlaced(x, Placed(x, a).rooms), Placed(x, a).events, {})
<1> DEFINE as == NewlyPlaced(x, Placed(x, a).rooms)
           ev == Placed(x, a).events
           w == [NoWrites EXCEPT !.assigned = as, !.events = ev]
<1>1. Request(s, w)
  BY DEF AutoAssign
<1>2. as \in Partial(Line, Room \cup {None}) /\ ev \in Seq(AuditEvent)
  BY NewlyPlacedType
<1> HIDE DEF as, ev
<1>3. Fields(w, Nothing, as, Nothing, Nothing, Nothing, ev, {})
  BY DEF NoWrites, Fields
<1> HIDE DEF w
<1>4. Prepares(s, w)
  BY <1>1, <1>2, <1>3, PreparesIf, NothingPartial
<1> QED BY <1>3, <1>4, AsksIf DEF as, ev

LEMMA OpenedType ==
  ASSUME DeskInvariant, NEW x \in Reservation
  PROVE  Opened(x) \in FolioStatus
BY DEF DeskInvariant, FrontDeskTypeOK, Opened, FolioStatus

LEMMA CheckInPrepares ==
  ASSUME DeskInvariant, NEW s \in Session, NEW x \in Reservation, NEW a \in Actor,
         CheckIn(s, x, a)
  PROVE  Asks(s, One(x, "in_house"), Nothing, <<GuestCheckedIn(x, a)>>, {})
<1>1. One(x, "in_house") \in Partial(Reservation, Status)
  BY OnePartial DEF Status
<1>2. Change(folio, x, Opened(x)) \in Partial(Reservation, FolioStatus)
  BY OpenedType, ChangePartial
<1>3. GuestCheckedIn(x, a) \in AuditEvent
  BY EventTypes DEF AuditEvent
<1> DEFINE st == One(x, "in_house")
           fo == Change(folio, x, Opened(x))
           g == GuestCheckedIn(x, a)
           w == [NoWrites EXCEPT !.status = st, !.folio = fo, !.events = <<g>>]
<1>4. Request(s, w)
  BY DEF CheckIn
<1> HIDE DEF st, fo, g
<1>5. Fields(w, st, Nothing, fo, Nothing, Nothing, <<g>>, {})
  BY DEF NoWrites, Fields
<1>6. <<g>> \in Seq(AuditEvent)
  BY <1>3 DEF g
<1> HIDE DEF w
<1>7. Prepares(s, w)
  BY <1>1, <1>2, <1>4, <1>5, <1>6, PreparesIf, NothingPartial DEF st, fo
<1> QED BY <1>5, <1>7, AsksIf DEF st, g

LEMMA WalkInPrepares ==
  ASSUME DeskInvariant, NEW s \in Session, NEW x \in Reservation, NEW a \in Actor,
         WalkIn(s, x, a)
  PROVE  Asks(s, One(x, "in_house"), NewlyPlaced(x, Placed(x, a).rooms),
              Append(Placed(x, a).events, GuestCheckedIn(x, a)), {})
<1>1. One(x, "in_house") \in Partial(Reservation, Status)
  BY OnePartial DEF Status
<1>2. One(x, "open") \in Partial(Reservation, FolioStatus)
  BY OnePartial DEF FolioStatus
<1>3. GuestCheckedIn(x, a) \in AuditEvent
  BY EventTypes DEF AuditEvent
<1>4. Append(Placed(x, a).events, GuestCheckedIn(x, a)) \in Seq(AuditEvent)
  BY <1>3, NewlyPlacedType
<1> DEFINE st == One(x, "in_house")
           as == NewlyPlaced(x, Placed(x, a).rooms)
           fo == One(x, "open")
           ev == Append(Placed(x, a).events, GuestCheckedIn(x, a))
           w == [NoWrites EXCEPT !.status = st, !.assigned = as, !.folio = fo, !.events = ev]
<1>5. Request(s, w)
  BY DEF WalkIn
<1>6. as \in Partial(Line, Room \cup {None})
  BY NewlyPlacedType
<1> HIDE DEF st, as, fo, ev
<1>7. Fields(w, st, as, fo, Nothing, Nothing, ev, {})
  BY DEF NoWrites, Fields
<1> HIDE DEF w
<1>8. Prepares(s, w)
  BY <1>1, <1>2, <1>4, <1>5, <1>6, <1>7, PreparesIf, NothingPartial DEF st, fo, ev
<1> QED BY <1>7, <1>8, AsksIf DEF st, as, ev

LEMMA CheckOutTypes ==
  ASSUME DeskInvariant, NEW x \in Reservation
  PROVE  /\ MadeDirty(x) \in Partial(Room, HousekeepingStatus)
         /\ PriorStatus(x) \in Partial(Room, HousekeepingStatus)
<1>1. RoomsOf(x) \subseteq Room
  BY LineOf DEF RoomsOf, DeskInvariant, FrontDeskTypeOK
<1>2. MadeDirty(x) \in Partial(Room, HousekeepingStatus)
  BY <1>1, PartialMember DEF MadeDirty, HousekeepingStatus
<1>3. \A r \in RoomsOf(x) : housekeeping[r] \in HousekeepingStatus
  BY <1>1 DEF DeskInvariant, FrontDeskTypeOK
<1>4. PriorStatus(x) \in Partial(Room, HousekeepingStatus)
  BY <1>1, <1>3, PartialMember DEF PriorStatus, HousekeepingStatus
<1> QED BY <1>2, <1>4

LEMMA CheckOutPrepares ==
  ASSUME DeskInvariant, NEW s \in Session, NEW x \in Reservation, NEW a \in Actor,
         NEW allow \in BOOLEAN, CheckOut(s, x, a, allow)
  PROVE  Asks(s, One(x, "checked_out"), Nothing,
              <<GuestCheckedOut(x, PriorStatus(x), ~owing[x], a)>>, {})
<1>1. One(x, "checked_out") \in Partial(Reservation, Status)
  BY OnePartial DEF Status
<1>2. Change(folio, x, IF owing[x] THEN Opened(x) ELSE "closed")
        \in Partial(Reservation, FolioStatus)
  <2>1. (IF owing[x] THEN Opened(x) ELSE "closed") \in FolioStatus
    BY OpenedType DEF FolioStatus
  <2> QED BY <2>1, ChangePartial
<1>3. GuestCheckedOut(x, PriorStatus(x), ~owing[x], a) \in AuditEvent
  BY CheckOutTypes, EventTypes DEF AuditEvent, DeskInvariant, FrontDeskTypeOK
<1> DEFINE st == One(x, "checked_out")
           fo == Change(folio, x, IF owing[x] THEN Opened(x) ELSE "closed")
           hk == MadeDirty(x)
           g == GuestCheckedOut(x, PriorStatus(x), ~owing[x], a)
           w == [NoWrites EXCEPT !.status = st, !.folio = fo, !.housekeeping = hk,
                                 !.events = <<g>>]
<1>4. Request(s, w)
  BY DEF CheckOut
<1>5. hk \in Partial(Room, HousekeepingStatus)
  BY CheckOutTypes
<1> HIDE DEF st, fo, hk, g
<1>6. Fields(w, st, Nothing, fo, Nothing, hk, <<g>>, {})
  BY DEF NoWrites, Fields
<1>7. <<g>> \in Seq(AuditEvent)
  BY <1>3 DEF g
<1> HIDE DEF w
<1>8. Prepares(s, w)
  BY <1>1, <1>2, <1>4, <1>5, <1>6, <1>7, PreparesIf, NothingPartial DEF st, fo
<1> QED BY <1>6, <1>8, AsksIf DEF st, g

LEMMA ElsewherePrepares ==
  ASSUME DeskInvariant, NEW s \in Session
  PROVE  /\ \A x \in Reservation :
              /\ Cancel(s, x) => Asks(s, One(x, "cancelled"), Nothing, <<>>, {})
              /\ Post(s, x) \/ CloseFolio(s, x) => Asks(s, Nothing, Nothing, <<>>, {})
         /\ \A r \in Room, h \in HousekeepingStatus :
              SetHousekeeping(s, r, h) => Asks(s, Nothing, Nothing, <<>>, {})
<1>1. ASSUME NEW x \in Reservation, Cancel(s, x)
      PROVE  Asks(s, One(x, "cancelled"), Nothing, <<>>, {})
  <2> DEFINE v == One(x, "cancelled")
             w == [NoWrites EXCEPT !.status = v]
  <2>1. Request(s, w)
    BY <1>1 DEF Cancel
  <2>2. v \in Partial(Reservation, Status)
    BY OnePartial DEF Status
  <2> HIDE DEF v
  <2>3. Fields(w, v, Nothing, Nothing, Nothing, Nothing, <<>>, {})
    BY DEF NoWrites, Fields
  <2> HIDE DEF w
  <2>4. <<>> \in Seq(AuditEvent)
    OBVIOUS
  <2>5. Prepares(s, w)
    BY <2>1, <2>2, <2>3, <2>4, PreparesIf, NothingPartial
  <2> QED BY <2>3, <2>5, AsksIf DEF v
<1>2. ASSUME NEW x \in Reservation, Post(s, x)
      PROVE  Asks(s, Nothing, Nothing, <<>>, {})
  <2> DEFINE v == One(x, ~owing[x])
             w == [NoWrites EXCEPT !.owing = v]
  <2>1. Request(s, w)
    BY <1>2 DEF Post
  <2>2. v \in Partial(Reservation, BOOLEAN)
    <3>1. (~owing[x]) \in BOOLEAN
      OBVIOUS
    <3> QED BY <3>1, OnePartial
  <2> HIDE DEF v
  <2>3. Fields(w, Nothing, Nothing, Nothing, v, Nothing, <<>>, {})
    BY DEF NoWrites, Fields
  <2> HIDE DEF w
  <2>4. <<>> \in Seq(AuditEvent)
    OBVIOUS
  <2>5. Prepares(s, w)
    BY <2>1, <2>2, <2>3, <2>4, PreparesIf, NothingPartial
  <2> QED BY <2>3, <2>5, AsksIf
<1>3. ASSUME NEW x \in Reservation, CloseFolio(s, x)
      PROVE  Asks(s, Nothing, Nothing, <<>>, {})
  <2> DEFINE v == One(x, "closed")
             w == [NoWrites EXCEPT !.folio = v]
  <2>1. Request(s, w)
    BY <1>3 DEF CloseFolio
  <2>2. v \in Partial(Reservation, FolioStatus)
    BY OnePartial DEF FolioStatus
  <2> HIDE DEF v
  <2>3. Fields(w, Nothing, Nothing, v, Nothing, Nothing, <<>>, {})
    BY DEF NoWrites, Fields
  <2> HIDE DEF w
  <2>4. <<>> \in Seq(AuditEvent)
    OBVIOUS
  <2>5. Prepares(s, w)
    BY <2>1, <2>2, <2>3, <2>4, PreparesIf, NothingPartial
  <2> QED BY <2>3, <2>5, AsksIf
<1>4. ASSUME NEW r \in Room, NEW h \in HousekeepingStatus, SetHousekeeping(s, r, h)
      PROVE  Asks(s, Nothing, Nothing, <<>>, {})
  <2> DEFINE v == One(r, h)
             w == [NoWrites EXCEPT !.housekeeping = v]
  <2>1. Request(s, w)
    BY <1>4 DEF SetHousekeeping
  <2>2. v \in Partial(Room, HousekeepingStatus)
    BY OnePartial
  <2> HIDE DEF v
  <2>3. Fields(w, Nothing, Nothing, Nothing, Nothing, v, <<>>, {})
    BY DEF NoWrites, Fields
  <2> HIDE DEF w
  <2>4. <<>> \in Seq(AuditEvent)
    OBVIOUS
  <2>5. Prepares(s, w)
    BY <2>1, <2>2, <2>3, <2>4, PreparesIf, NothingPartial
  <2> QED BY <2>3, <2>5, AsksIf
<1> QED BY <1>1, <1>2, <1>3, <1>4

LEMMA UndoRoomAssignedPrepares ==
  ASSUME DeskInvariant, NEW s \in Session, NEW e \in 1..Len(log), NEW a \in Actor,
         UndoRoomAssigned(s, e, a)
  PROVE  /\ log[e] \in RoomAssignedEvent
         /\ Asks(s, Nothing, Change(assigned, log[e].line, log[e].previous),
                 <<RoomAssigned(log[e].line, log[e].previous, assigned[log[e].line], a),
                   ActionUndone(e, a)>>, {e})
<1> DEFINE l == log[e].line
           p == log[e].previous
<1>1. log[e] \in RoomAssignedEvent
  BY LogEvent DEF UndoRoomAssigned, MayUndo
<1>2. l \in Line /\ p \in Room \cup {None} /\ assigned[l] \in Room \cup {None}
  BY <1>1 DEF RoomAssignedEvent, DeskInvariant, FrontDeskTypeOK
<1>3. Request(s, [NoWrites EXCEPT
        !.assigned = Change(assigned, l, p),
        !.events = <<RoomAssigned(l, p, assigned[l], a), ActionUndone(e, a)>>,
        !.undo = {e}])
  BY DEF UndoRoomAssigned
<1> HIDE DEF l, p
<1>4. Change(assigned, l, p) \in Partial(Line, Room \cup {None})
  BY <1>2, ChangePartial
<1>5. RoomAssigned(l, p, assigned[l], a) \in AuditEvent /\ ActionUndone(e, a) \in AuditEvent
  BY <1>2, EventTypes DEF AuditEvent
<1>6. e \in Nat
  OBVIOUS
<1> DEFINE as == Change(assigned, l, p)
           g == RoomAssigned(l, p, assigned[l], a)
           u == ActionUndone(e, a)
           w == [NoWrites EXCEPT !.assigned = as, !.events = <<g, u>>, !.undo = {e}]
<1>8. Request(s, w)
  BY <1>3
<1>9. <<g, u>> \in Seq(AuditEvent)
  BY <1>5
<1> HIDE DEF as, g, u
<1>10. Fields(w, Nothing, as, Nothing, Nothing, Nothing, <<g, u>>, {e})
  BY DEF NoWrites, Fields
<1> HIDE DEF w
<1>11. Prepares(s, w)
  BY <1>4, <1>8, <1>9, <1>10, PreparesIf, NothingPartial DEF as
<1> QED BY <1>1, <1>10, <1>11, AsksIf DEF as, g, u, l, p

LEMMA UndoCheckInPrepares ==
  ASSUME DeskInvariant, NEW s \in Session, NEW e \in 1..Len(log), NEW a \in Actor,
         UndoCheckIn(s, e, a)
  PROVE  /\ log[e] \in GuestCheckedInEvent
         /\ Asks(s, One(log[e].res, "confirmed"), Nothing, <<ActionUndone(e, a)>>, {e})
<1>1. log[e] \in GuestCheckedInEvent /\ log[e].res \in Reservation /\ e \in Nat
  BY LogEvent DEF UndoCheckIn, MayUndo, GuestCheckedInEvent
<1>2. One(log[e].res, "confirmed") \in Partial(Reservation, Status)
  BY <1>1, OnePartial DEF Status
<1>3. ActionUndone(e, a) \in AuditEvent
  BY <1>1, EventTypes DEF AuditEvent
<1> DEFINE st == One(log[e].res, "confirmed")
           u == ActionUndone(e, a)
           w == [NoWrites EXCEPT !.status = st, !.events = <<u>>, !.undo = {e}]
<1>4. Request(s, w)
  BY DEF UndoCheckIn
<1>5. <<u>> \in Seq(AuditEvent)
  BY <1>3
<1> HIDE DEF st, u
<1>6. Fields(w, st, Nothing, Nothing, Nothing, Nothing, <<u>>, {e})
  BY DEF NoWrites, Fields
<1> HIDE DEF w
<1>7. Prepares(s, w)
  BY <1>2, <1>4, <1>5, <1>6, PreparesIf, NothingPartial DEF st
<1> QED BY <1>1, <1>6, <1>7, AsksIf DEF st, u

LEMMA UndoCheckOutPrepares ==
  ASSUME DeskInvariant, NEW s \in Session, NEW e \in 1..Len(log), NEW a \in Actor,
         UndoCheckOut(s, e, a)
  PROVE  /\ log[e] \in GuestCheckedOutEvent
         /\ Asks(s, One(log[e].res, "in_house"), Nothing, <<ActionUndone(e, a)>>, {e})
<1> DEFINE x == log[e].res
           f == IF log[e].folioClosedByThisAction /\ folio[x] = "closed"
                THEN One(x, "open") ELSE Nothing
           h == Restored(log[e].prior)
<1>1. /\ log[e] \in GuestCheckedOutEvent /\ x \in Reservation /\ e \in Nat
      /\ log[e].prior \in Partial(Room, HousekeepingStatus)
  BY LogEvent DEF UndoCheckOut, MayUndo, GuestCheckedOutEvent
<1>2. One(x, "in_house") \in Partial(Reservation, Status)
  BY <1>1, OnePartial DEF Status
<1>3. ActionUndone(e, a) \in AuditEvent
  BY <1>1, EventTypes DEF AuditEvent
<1>4. f \in Partial(Reservation, FolioStatus)
  BY <1>1, OnePartial, NothingPartial DEF FolioStatus
<1>5. h \in Partial(Room, HousekeepingStatus)
  BY <1>1, PartialMember DEF Restored
<1>6. Request(s, [NoWrites EXCEPT !.status = One(x, "in_house"),
                                  !.folio = f, !.housekeeping = h,
                                  !.events = <<ActionUndone(e, a)>>,
                                  !.undo = {e}])
  BY DEF UndoCheckOut
<1> DEFINE st == One(x, "in_house")
           u == ActionUndone(e, a)
           w == [NoWrites EXCEPT !.status = st, !.folio = f, !.housekeeping = h,
                                 !.events = <<u>>, !.undo = {e}]
<1>8. Request(s, w)
  BY <1>6
<1>9. <<u>> \in Seq(AuditEvent)
  BY <1>3
<1> HIDE DEF f, h, st, u
<1>10. Fields(w, st, Nothing, f, Nothing, h, <<u>>, {e})
  BY DEF NoWrites, Fields
<1> HIDE DEF w
<1>11. Prepares(s, w)
  BY <1>2, <1>4, <1>5, <1>8, <1>9, <1>10, PreparesIf, NothingPartial DEF st
<1> QED BY <1>1, <1>10, <1>11, AsksIf DEF st, u, x

LEMMA NextKeepsTypes == DeskInvariant /\ [Next]_vars => DeskInvariant'
<1> SUFFICES ASSUME DeskInvariant, [Next]_vars PROVE DeskInvariant'
  OBVIOUS
<1>1. CASE UNCHANGED vars
  BY <1>1 DEF vars, DeskInvariant, FrontDeskTypeOK
<1>2. ASSUME NEW s \in Session, Commit(s) PROVE DeskInvariant'
  BY <1>2, CommitKeepsTypes
<1>3. ASSUME NEW s \in Session, Elsewhere(s) PROVE DeskInvariant'
  <2>1. ASSUME NEW x \in Reservation, Cancel(s, x) PROVE DeskInvariant'
    BY <2>1, ElsewherePrepares, AskingKeepsTypes
  <2>2. ASSUME NEW x \in Reservation, Post(s, x) PROVE DeskInvariant'
    BY <2>2, ElsewherePrepares, AskingKeepsTypes
  <2>3. ASSUME NEW x \in Reservation, CloseFolio(s, x) PROVE DeskInvariant'
    BY <2>3, ElsewherePrepares, AskingKeepsTypes
  <2>4. ASSUME NEW r \in Room, NEW h \in HousekeepingStatus, SetHousekeeping(s, r, h)
        PROVE  DeskInvariant'
    BY <2>4, ElsewherePrepares, AskingKeepsTypes
  <2> QED BY <1>3, <2>1, <2>2, <2>3, <2>4 DEF Elsewhere
<1>4. ASSUME NEW s \in Session, NEW a \in Actor, Operate(s, a) PROVE DeskInvariant'
  <2>1. ASSUME NEW l \in Line, NEW r \in Room, AssignRoom(s, l, r, a) PROVE DeskInvariant'
    BY <2>1, AssignRoomPrepares, AskingKeepsTypes
  <2>2. ASSUME NEW x \in Reservation, AutoAssign(s, x, a) PROVE DeskInvariant'
    BY <2>2, AutoAssignPrepares, AskingKeepsTypes
  <2>3. ASSUME NEW x \in Reservation, CheckIn(s, x, a) PROVE DeskInvariant'
    BY <2>3, CheckInPrepares, AskingKeepsTypes
  <2>4. ASSUME NEW x \in Reservation, WalkIn(s, x, a) PROVE DeskInvariant'
    BY <2>4, WalkInPrepares, AskingKeepsTypes
  <2>5. ASSUME NEW x \in Reservation, NEW allow \in BOOLEAN, CheckOut(s, x, a, allow)
        PROVE  DeskInvariant'
    BY <2>5, CheckOutPrepares, AskingKeepsTypes
  <2> QED BY <1>4, <2>1, <2>2, <2>3, <2>4, <2>5 DEF Operate
<1>5. ASSUME NEW s \in Session, NEW a \in Actor, Undo(s, a) PROVE DeskInvariant'
  <2>1. ASSUME NEW e \in 1..Len(log), UndoRoomAssigned(s, e, a) PROVE DeskInvariant'
    BY <2>1, UndoRoomAssignedPrepares, AskingKeepsTypes
  <2>2. ASSUME NEW e \in 1..Len(log), UndoCheckIn(s, e, a) PROVE DeskInvariant'
    BY <2>2, UndoCheckInPrepares, AskingKeepsTypes
  <2>3. ASSUME NEW e \in 1..Len(log), UndoCheckOut(s, e, a) PROVE DeskInvariant'
    BY <2>3, UndoCheckOutPrepares, AskingKeepsTypes
  <2> QED BY <1>5, <2>1, <2>2, <2>3 DEF Undo
<1> QED BY <1>1, <1>2, <1>3, <1>4, <1>5 DEF Next

LEMMA InitTypes == Init => DeskInvariant
<1> SUFFICES ASSUME Init PROVE DeskInvariant
  OBVIOUS
<1>1. FrontDeskTypeOK
  BY DEF Init, FrontDeskTypeOK, Status, HousekeepingStatus
<1> QED BY <1>1 DEF Init, DeskInvariant

(* Whatever requests run at the same time, the committed rows keep their   *)
(* shapes and only recorded events are marked undone.                      *)
THEOREM DeskTypeCorrect == Spec => []FrontDeskTypeOK
<1>1. DeskInvariant => FrontDeskTypeOK
  BY DEF DeskInvariant
<1> QED BY <1>1, InitTypes, NextKeepsTypes, PTL DEF Spec

--------------------------------------------------------------------------------
(* Requests that run one after another: what is committed satisfies the    *)
(* two clauses below, and what an open request will commit satisfies them  *)
(* as well.                                                                *)

PendingIn(lg, un, type, x) ==
  {e \in 1..Len(lg) : lg[e].type = type /\ e \notin un /\ lg[e].res = x}

Single(S) == \E e : S = {e}

(* The statuses st and the events lg, un of them undone, agree about x.    *)
AgreesAt(st, lg, un, x) ==
  /\ st[x] \in {"in_house", "checked_out"} => Single(PendingIn(lg, un, "GuestCheckedIn", x))
  /\ st[x] \notin {"in_house", "checked_out"} => PendingIn(lg, un, "GuestCheckedIn", x) = {}
  /\ st[x] = "checked_out" => Single(PendingIn(lg, un, "GuestCheckedOut", x))
  /\ st[x] # "checked_out" => PendingIn(lg, un, "GuestCheckedOut", x) = {}

Agreement(st, lg, un) == \A x \in Reservation : AgreesAt(st, lg, un, x)

(* A reservation nobody has made yet has no room.                          *)
Unborn(st, as) == \A l \in Line : st[ResOf(l)] = "absent" => as[l] = None

SharedIn(st, as) ==
  {p \in Line \X Line :
     /\ p[1] # p[2]
     /\ as[p[1]] # None /\ as[p[1]] = as[p[2]]
     /\ st[ResOf(p[1])] \in ACTIVE_STATUSES /\ st[ResOf(p[2])] \in ACTIVE_STATUSES
     /\ OverlappingStays(p[1], p[2])}

(* The writes st, as, ev and un, applied to the committed rows, keep both  *)
(* clauses, and let two stays share a room only if they undo a check-out.  *)
SoundWrites(st, as, ev, un) ==
  /\ Agreement(Overlay(status, st), log \o ev, undone \cup un)
  /\ Unborn(Overlay(status, st), Overlay(assigned, as))
  /\ \/ \E e \in un \ undone : log[e].type = "GuestCheckedOut"
     \/ SharedIn(Overlay(status, st), Overlay(assigned, as)) \subseteq Shared

OneAtATime == \A s, o \in Session : s = o

AloneInvariant ==
  /\ DeskInvariant
  /\ Agreement(status, log, undone)
  /\ Unborn(status, assigned)
  /\ \A s \in Session :
       tx[s] # None => SoundWrites(tx[s].status, tx[s].assigned, tx[s].events, tx[s].undo)

--------------------------------------------------------------------------------
(* Pending events.                                                         *)

LEMMA PendingNone ==
  ASSUME NEW lg \in Seq(AuditEvent), NEW ev \in Seq(AuditEvent), NEW un, NEW type, NEW x,
         \A k \in 1..Len(ev) : ev[k].type # type
  PROVE  PendingIn(lg \o ev, un, type, x) = PendingIn(lg, un, type, x)
<1>1. /\ Len(lg \o ev) = Len(lg) + Len(ev) /\ Len(lg) \in Nat /\ Len(ev) \in Nat
      /\ \A e \in 1..Len(lg \o ev) :
           (lg \o ev)[e] = IF e <= Len(lg) THEN lg[e] ELSE ev[e - Len(lg)]
  OBVIOUS
<1>2. \A e \in 1..Len(lg \o ev) : (lg \o ev)[e].type = type => e \in 1..Len(lg)
  BY <1>1
<1> QED BY <1>1, <1>2 DEF PendingIn

LEMMA PendingOne ==
  ASSUME NEW lg \in Seq(AuditEvent), NEW g \in AuditEvent, NEW un, un \subseteq 1..Len(lg),
         NEW type, NEW x
  PROVE  /\ g.type = type /\ g.res = x =>
              PendingIn(lg \o <<g>>, un, type, x) = PendingIn(lg, un, type, x) \cup {Len(lg) + 1}
         /\ g.type # type \/ g.res # x =>
              PendingIn(lg \o <<g>>, un, type, x) = PendingIn(lg, un, type, x)
<1>1. /\ Len(lg \o <<g>>) = Len(lg) + 1 /\ Len(lg) \in Nat
      /\ \A e \in 1..Len(lg) : (lg \o <<g>>)[e] = lg[e]
      /\ (lg \o <<g>>)[Len(lg) + 1] = g
  OBVIOUS
<1>2. 1..(Len(lg) + 1) = 1..Len(lg) \cup {Len(lg) + 1} /\ Len(lg) + 1 \notin un
  BY <1>1
<1> DEFINE new == lg \o <<g>>
<1> HIDE DEF new
<1>3. /\ Len(new) = Len(lg) + 1
      /\ \A e \in 1..Len(lg) : new[e] = lg[e]
      /\ new[Len(lg) + 1] = g
  BY <1>1 DEF new
<1>4. PendingIn(new, un, type, x) =
        PendingIn(lg, un, type, x) \cup
        {e \in {Len(lg) + 1} : g.type = type /\ g.res = x}
  BY <1>2, <1>3 DEF PendingIn
<1> QED BY <1>4 DEF new

LEMMA PendingUndone ==
  ASSUME NEW lg, NEW un, NEW un2, NEW type, NEW x
  PROVE  PendingIn(lg, un \cup un2, type, x) = PendingIn(lg, un, type, x) \ un2
BY DEF PendingIn

LEMMA OverlayNothing ==
  ASSUME NEW S, NEW T, NEW f \in [S -> T]
  PROVE  Overlay(f, Nothing) = f
BY DEF Overlay, Nothing

LEMMA OverlayOne ==
  ASSUME NEW S, NEW T, NEW f \in [S -> T], NEW y \in S, NEW x, NEW v
  PROVE  Overlay(f, One(x, v))[y] = IF y = x THEN v ELSE f[y]
BY DEF Overlay, One

LEMMA ResOfLine ==
  ASSUME NEW l \in Line
  PROVE  /\ ResOf(l) \in Reservation
         /\ \A x \in Reservation : l \in LinesOf(x) <=> ResOf(l) = x
<1>1. ResOf(l) \in Reservation /\ \E k \in 1..Len(Lines[ResOf(l)]) : Lines[ResOf(l)][k] = l
  BY OwnLinesAssumption DEF ResOf
<1> QED BY <1>1, OwnLinesAssumption DEF LinesOf

--------------------------------------------------------------------------------
(* What every kind of request writes keeps the agreement.                  *)

(* Events that are not check-ins or check-outs, none of them undone.       *)
LEMMA QuietAgrees ==
  ASSUME DeskInvariant, Agreement(status, log, undone),
         NEW ev \in Seq(AuditEvent), NEW un \in SUBSET (1..Len(log)),
         \A k \in 1..Len(ev) : ev[k].type \notin {"GuestCheckedIn", "GuestCheckedOut"},
         \A e \in un : log[e].type \notin {"GuestCheckedIn", "GuestCheckedOut"}
  PROVE  Agreement(status, log \o ev, undone \cup un)
<1> SUFFICES ASSUME NEW x \in Reservation PROVE AgreesAt(status, log \o ev, undone \cup un, x)
  BY DEF Agreement
<1>1. ASSUME NEW type \in {"GuestCheckedIn", "GuestCheckedOut"}
      PROVE  PendingIn(log \o ev, undone \cup un, type, x) = PendingIn(log, undone, type, x)
  <2>1. PendingIn(log \o ev, undone \cup un, type, x) = PendingIn(log, undone \cup un, type, x)
    BY PendingNone DEF DeskInvariant
  <2>2. PendingIn(log, undone \cup un, type, x) = PendingIn(log, undone, type, x) \ un
    BY PendingUndone
  <2>3. PendingIn(log, undone, type, x) \cap un = {}
    BY DEF PendingIn
  <2> QED BY <2>1, <2>2, <2>3
<1> QED BY <1>1 DEF AgreesAt, Agreement

(* One event about x, of which nothing was pending, and a status for x.    *)
LEMMA RecordedAgrees ==
  ASSUME DeskInvariant, Agreement(status, log, undone), NEW x \in Reservation,
         NEW ev \in Seq(AuditEvent), NEW g \in AuditEvent, NEW v,
         \A k \in 1..Len(ev) : ev[k].type \notin {"GuestCheckedIn", "GuestCheckedOut"},
         g.res = x,
         \/ /\ g.type = "GuestCheckedIn" /\ v = "in_house"
            /\ status[x] \in {"absent", "confirmed"}
         \/ g.type = "GuestCheckedOut" /\ v = "checked_out" /\ status[x] = "in_house"
  PROVE  Agreement(Overlay(status, One(x, v)), log \o (ev \o <<g>>), undone)
<1> DEFINE st == Overlay(status, One(x, v))
<1>1. log \o (ev \o <<g>>) = (log \o ev) \o <<g>> /\ log \o ev \in Seq(AuditEvent)
      /\ undone \subseteq 1..Len(log \o ev)
  BY DEF DeskInvariant, FrontDeskTypeOK
<1> DEFINE lg == log \o ev
<1> HIDE DEF lg
<1> SUFFICES ASSUME NEW y \in Reservation PROVE AgreesAt(st, lg \o <<g>>, undone, y)
  BY <1>1 DEF Agreement, lg
<1>2. st[y] = IF y = x THEN v ELSE status[y]
  <2>1. status \in [Reservation -> Status]
    BY DEF DeskInvariant, FrontDeskTypeOK
  <2> QED BY <2>1 DEF Overlay, One
<1> HIDE DEF st
<1>3. ASSUME NEW type \in {"GuestCheckedIn", "GuestCheckedOut"}
      PROVE  /\ PendingIn(lg, undone, type, y) = PendingIn(log, undone, type, y)
             /\ g.type = type /\ y = x =>
                  PendingIn(lg \o <<g>>, undone, type, y)
                    = PendingIn(log, undone, type, y) \cup {Len(lg) + 1}
             /\ g.type # type \/ y # x =>
                  PendingIn(lg \o <<g>>, undone, type, y) = PendingIn(log, undone, type, y)
  <2>1. PendingIn(lg, undone, type, y) = PendingIn(log, undone, type, y)
    BY PendingNone DEF DeskInvariant, lg
  <2>2. lg \in Seq(AuditEvent) /\ undone \subseteq 1..Len(lg)
    BY <1>1 DEF lg
  <2> DEFINE p == PendingIn(lg \o <<g>>, undone, type, y)
             q == PendingIn(lg, undone, type, y)
  <2>5. \A t, z : LET r == PendingIn(lg \o <<g>>, undone, t, z)
                 IN  /\ g.type = t /\ g.res = z =>
                          r = PendingIn(lg, undone, t, z) \cup {Len(lg) + 1}
                     /\ g.type # t \/ g.res # z => r = PendingIn(lg, undone, t, z)
    BY <2>2, PendingOne
  <2>3. g.type = type /\ g.res = y => p = PendingIn(lg, undone, type, y) \cup {Len(lg) + 1}
    BY <2>5
  <2>4. g.type # type \/ g.res # y => p = PendingIn(lg, undone, type, y)
    BY <2>5
  <2> QED BY <2>1, <2>3, <2>4
<1>4. AgreesAt(status, log, undone, y)
  BY DEF Agreement
<1>5. CASE y # x
  BY <1>2, <1>3, <1>4, <1>5 DEF AgreesAt
<1>6. CASE y = x /\ g.type = "GuestCheckedIn"
  <2>1. PendingIn(log, undone, "GuestCheckedIn", y) = {}
        /\ PendingIn(log, undone, "GuestCheckedOut", y) = {}
    BY <1>4, <1>6 DEF AgreesAt
  <2>2. PendingIn(lg \o <<g>>, undone, "GuestCheckedIn", y) = {Len(lg) + 1}
        /\ PendingIn(lg \o <<g>>, undone, "GuestCheckedOut", y) = {}
    BY <1>3, <1>6, <2>1
  <2>3. st[y] = "in_house"
    BY <1>2, <1>6
  <2> QED BY <2>2, <2>3 DEF AgreesAt, Single
<1>7. CASE y = x /\ g.type = "GuestCheckedOut"
  <2>1. Single(PendingIn(log, undone, "GuestCheckedIn", y))
        /\ PendingIn(log, undone, "GuestCheckedOut", y) = {}
    BY <1>4, <1>7 DEF AgreesAt
  <2>2. PendingIn(lg \o <<g>>, undone, "GuestCheckedIn", y)
          = PendingIn(log, undone, "GuestCheckedIn", y)
        /\ PendingIn(lg \o <<g>>, undone, "GuestCheckedOut", y) = {Len(lg) + 1}
    BY <1>3, <1>7, <2>1
  <2>3. st[y] = "checked_out"
    BY <1>2, <1>7
  <2> QED BY <2>1, <2>2, <2>3 DEF AgreesAt, Single
<1> QED BY <1>5, <1>6, <1>7

(* The undo of the pending check-in of a guest in house, or of the pending *)
(* check-out of a departed one.                                            *)
LEMMA UndoneAgrees ==
  ASSUME DeskInvariant, Agreement(status, log, undone), NEW e \in 1..Len(log), e \notin undone,
         NEW u \in AuditEvent, u.type = "ActionUndone", NEW v, NEW x \in Reservation,
         log[e].res = x,
         \/ log[e].type = "GuestCheckedIn" /\ status[x] = "in_house" /\ v = "confirmed"
         \/ log[e].type = "GuestCheckedOut" /\ status[x] = "checked_out" /\ v = "in_house"
  PROVE  Agreement(Overlay(status, One(x, v)), log \o <<u>>, undone \cup {e})
<1> DEFINE st == Overlay(status, One(x, v))
<1> SUFFICES ASSUME NEW y \in Reservation PROVE AgreesAt(st, log \o <<u>>, undone \cup {e}, y)
  BY DEF Agreement
<1>2. st[y] = IF y = x THEN v ELSE status[y]
  <2>1. status \in [Reservation -> Status]
    BY DEF DeskInvariant, FrontDeskTypeOK
  <2> QED BY <2>1 DEF Overlay, One
<1> HIDE DEF st
<1>3. ASSUME NEW type \in {"GuestCheckedIn", "GuestCheckedOut"}
      PROVE  PendingIn(log \o <<u>>, undone \cup {e}, type, y)
               = PendingIn(log, undone, type, y) \ {e}
  <2>1. undone \cup {e} \subseteq 1..Len(log) /\ log \in Seq(AuditEvent)
    BY DEF DeskInvariant, FrontDeskTypeOK
  <2>2. PendingIn(log \o <<u>>, undone \cup {e}, type, y)
          = PendingIn(log, undone \cup {e}, type, y)
    BY <2>1, PendingOne
  <2>3. PendingIn(log, undone \cup {e}, type, y) = PendingIn(log, undone, type, y) \ {e}
    BY DEF PendingIn
  <2> QED BY <2>2, <2>3
<1>4. AgreesAt(status, log, undone, y)
  BY DEF Agreement
<1>5. \A type : e \in PendingIn(log, undone, type, y) <=> log[e].type = type /\ y = x
  BY DEF PendingIn
<1>6. CASE y # x
  <2>1. \A type \in {"GuestCheckedIn", "GuestCheckedOut"} :
          PendingIn(log \o <<u>>, undone \cup {e}, type, y) = PendingIn(log, undone, type, y)
    BY <1>3, <1>5, <1>6
  <2> QED BY <1>2, <1>4, <1>6, <2>1 DEF AgreesAt
<1>7. CASE y = x /\ log[e].type = "GuestCheckedIn"
  <2>1. Single(PendingIn(log, undone, "GuestCheckedIn", y))
        /\ PendingIn(log, undone, "GuestCheckedOut", y) = {}
    BY <1>4, <1>7 DEF AgreesAt
  <2>2. PendingIn(log, undone, "GuestCheckedIn", y) = {e}
    BY <1>5, <1>7, <2>1 DEF Single
  <2>3. PendingIn(log \o <<u>>, undone \cup {e}, "GuestCheckedIn", y) = {}
        /\ PendingIn(log \o <<u>>, undone \cup {e}, "GuestCheckedOut", y) = {}
    BY <1>3, <2>1, <2>2
  <2>4. st[y] = "confirmed"
    BY <1>2, <1>7
  <2> QED BY <2>3, <2>4 DEF AgreesAt
<1>8. CASE y = x /\ log[e].type = "GuestCheckedOut"
  <2>1. Single(PendingIn(log, undone, "GuestCheckedIn", y))
        /\ Single(PendingIn(log, undone, "GuestCheckedOut", y))
    BY <1>4, <1>8 DEF AgreesAt
  <2>2. PendingIn(log, undone, "GuestCheckedOut", y) = {e}
    BY <1>5, <1>8, <2>1 DEF Single
  <2>3. PendingIn(log \o <<u>>, undone \cup {e}, "GuestCheckedOut", y) = {}
    BY <1>3, <2>2
  <2>4. PendingIn(log \o <<u>>, undone \cup {e}, "GuestCheckedIn", y)
          = PendingIn(log, undone, "GuestCheckedIn", y)
    <3>1. e \notin PendingIn(log, undone, "GuestCheckedIn", y)
      BY <1>5, <1>8
    <3>2. PendingIn(log, undone, "GuestCheckedIn", y) \ {e}
            = PendingIn(log, undone, "GuestCheckedIn", y)
      BY <3>1
    <3> QED BY <1>3, <3>2
  <2>5. st[y] = "in_house"
    BY <1>2, <1>8
  <2> QED BY <2>1, <2>3, <2>4, <2>5 DEF AgreesAt
<1> QED BY <1>6, <1>7, <1>8

--------------------------------------------------------------------------------
(* What every kind of request writes lets no new pair of stays share.      *)

(* A line that takes a room it may be assigned shares it with nobody new.  *)
LEMMA AssignedSharesNothing ==
  ASSUME DeskInvariant, NEW l \in Line, NEW r \in Room, CanAssign(l, r), NEW as,
         \A m \in Line : as[m] = IF m = l THEN r ELSE assigned[m]
  PROVE  SharedIn(status, as) \subseteq Shared
<1> SUFFICES ASSUME NEW p \in Line \X Line, p \in SharedIn(status, as) PROVE p \in Shared
  BY DEF SharedIn
<1>1. /\ p[1] \in Line /\ p[2] \in Line /\ p[1] # p[2]
      /\ as[p[1]] # None /\ as[p[1]] = as[p[2]]
      /\ status[ResOf(p[1])] \in ACTIVE_STATUSES /\ status[ResOf(p[2])] \in ACTIVE_STATUSES
      /\ OverlappingStays(p[1], p[2]) /\ OverlappingStays(p[2], p[1])
  BY OverlapSymmetric DEF SharedIn
<1>2. ResOf(p[1]) \in ActiveReservations /\ ResOf(p[2]) \in ActiveReservations
  BY <1>1, ResOfLine DEF ActiveReservations
<1>3. p[1] # l /\ p[2] # l
  BY <1>1, <1>2 DEF CanAssign, RoomFree
<1> QED BY <1>1, <1>3 DEF Shared

(* Rooms that are only released and reservations that only become inactive *)
(* make no pair share a room.                                              *)
LEMMA ReleasedSharesNothing ==
  ASSUME NEW st, NEW as,
         \A m \in Line : as[m] \in {assigned[m], None},
         \A x \in Reservation : st[x] \in ACTIVE_STATUSES => status[x] \in ACTIVE_STATUSES
  PROVE  SharedIn(st, as) \subseteq Shared
<1> SUFFICES ASSUME NEW p \in Line \X Line, p \in SharedIn(st, as) PROVE p \in Shared
  BY DEF SharedIn
<1>1. /\ p[1] \in Line /\ p[2] \in Line /\ p[1] # p[2]
      /\ as[p[1]] # None /\ as[p[1]] = as[p[2]]
      /\ st[ResOf(p[1])] \in ACTIVE_STATUSES /\ st[ResOf(p[2])] \in ACTIVE_STATUSES
      /\ OverlappingStays(p[1], p[2])
  BY DEF SharedIn
<1>2. as[p[1]] = assigned[p[1]] /\ as[p[2]] = assigned[p[2]]
  BY <1>1
<1>3. status[ResOf(p[1])] \in ACTIVE_STATUSES /\ status[ResOf(p[2])] \in ACTIVE_STATUSES
  BY <1>1, ResOfLine
<1> QED BY <1>1, <1>2, <1>3 DEF Shared

(* The assignments after auto_assign are those it went on with.            *)
LEMMA NewlyPlacedRooms ==
  ASSUME DeskInvariant, NEW x \in Reservation, NEW a \in Actor
  PROVE  Overlay(assigned, NewlyPlaced(x, Placed(x, a).rooms)) = Placed(x, a).rooms
<1> DEFINE rooms == Placed(x, a).rooms
           new == NewlyPlaced(x, rooms)
<1>1. /\ rooms \in [Line -> Room \cup {None}] /\ LinesOf(x) \subseteq Line
      /\ \A l \in Line : rooms[l] # assigned[l] => assigned[l] = None /\ l \in LinesOf(x)
  BY PlacedKeeps, LineOf DEF DeskInvariant, Placing
<1>2. assigned \in [Line -> Room \cup {None}]
  BY DEF DeskInvariant, FrontDeskTypeOK
<1> HIDE DEF rooms
<1>3. /\ DOMAIN new = {m \in LinesOf(x) : assigned[m] = None}
      /\ \A l \in DOMAIN new : new[l] = rooms[l]
  BY DEF NewlyPlaced
<1> HIDE DEF new
<1>4. \A l \in Line : (IF l \in DOMAIN new THEN new[l] ELSE assigned[l]) = rooms[l]
  BY <1>1, <1>3
<1>5. Overlay(assigned, new) = rooms
  BY <1>1, <1>2, <1>4 DEF Overlay
<1> QED BY <1>5 DEF new, rooms

(* A reservation that auto_assign placed, active already or made active in *)
(* the same request, shares nothing it did not share before.               *)
LEMMA PlacedSharesNothing ==
  ASSUME DeskInvariant, Unborn(status, assigned), NEW x \in Reservation, NEW a \in Actor,
         NEW st, status[x] \in ACTIVE_STATUSES \cup {"absent"},
         \A y \in Reservation : y # x => st[y] = status[y]
  PROVE  SharedIn(st, Placed(x, a).rooms) \subseteq Shared
<1> DEFINE as == Placed(x, a).rooms
<1>1. \A l, m \in Line :
        /\ l # m
        /\ as[l] # None /\ as[l] = as[m]
        /\ {ResOf(l), ResOf(m)} \subseteq ActiveReservations \cup {x}
        /\ OverlappingStays(l, m)
        => as[l] = assigned[l] /\ as[m] = assigned[m]
  BY PlacedKeeps DEF DeskInvariant, Placing
<1> HIDE DEF as
<1> SUFFICES ASSUME NEW p \in Line \X Line, p \in SharedIn(st, as) PROVE p \in Shared
  BY DEF SharedIn, as
<1>2. /\ p[1] \in Line /\ p[2] \in Line /\ p[1] # p[2]
      /\ as[p[1]] # None /\ as[p[1]] = as[p[2]]
      /\ st[ResOf(p[1])] \in ACTIVE_STATUSES /\ st[ResOf(p[2])] \in ACTIVE_STATUSES
      /\ OverlappingStays(p[1], p[2])
  BY DEF SharedIn
<1>3. \A l \in Line : st[ResOf(l)] \in ACTIVE_STATUSES => ResOf(l) \in ActiveReservations \cup {x}
  BY ResOfLine DEF ActiveReservations
<1>4. as[p[1]] = assigned[p[1]] /\ as[p[2]] = assigned[p[2]]
  BY <1>1, <1>2, <1>3
<1>5. \A l \in Line : st[ResOf(l)] \in ACTIVE_STATUSES /\ assigned[l] # None
                        => status[ResOf(l)] \in ACTIVE_STATUSES
  BY ResOfLine DEF Unborn
<1>6. status[ResOf(p[1])] \in ACTIVE_STATUSES /\ status[ResOf(p[2])] \in ACTIVE_STATUSES
  BY <1>2, <1>4, <1>5
<1> QED BY <1>2, <1>4, <1>6 DEF Shared

--------------------------------------------------------------------------------
(* Every request is sound.                                                 *)

LEMMA EventKinds ==
  ASSUME NEW x, NEW l, NEW r, NEW p, NEW a, NEW e, NEW c
  PROVE  /\ RoomAssigned(l, r, p, a).type = "RoomAssigned"
         /\ ActionUndone(e, a).type = "ActionUndone"
         /\ GuestCheckedIn(x, a).type = "GuestCheckedIn" /\ GuestCheckedIn(x, a).res = x
         /\ GuestCheckedOut(x, p, c, a).type = "GuestCheckedOut"
         /\ GuestCheckedOut(x, p, c, a).res = x
BY DEF RoomAssigned, ActionUndone, GuestCheckedIn, GuestCheckedOut

(* Requests that change no status and record no event about a guest.       *)
LEMMA QuietSound ==
  ASSUME AloneInvariant, NEW as, NEW ev \in Seq(AuditEvent), NEW un \in SUBSET (1..Len(log)),
         \A k \in 1..Len(ev) : ev[k].type \notin {"GuestCheckedIn", "GuestCheckedOut"},
         \A e \in un : log[e].type \notin {"GuestCheckedIn", "GuestCheckedOut"},
         Unborn(status, Overlay(assigned, as)),
         SharedIn(status, Overlay(assigned, as)) \subseteq Shared
  PROVE  SoundWrites(Nothing, as, ev, un)
<1>1. Overlay(status, Nothing) = status
  BY OverlayNothing DEF AloneInvariant, DeskInvariant, FrontDeskTypeOK
<1> QED BY <1>1, QuietAgrees DEF SoundWrites, AloneInvariant

LEMMA AssignRoomSound ==
  ASSUME AloneInvariant, NEW l \in Line, NEW r \in Room, NEW ev \in Seq(AuditEvent),
         NEW un \in SUBSET (1..Len(log)), CanAssign(l, r),
         \A k \in 1..Len(ev) : ev[k].type \notin {"GuestCheckedIn", "GuestCheckedOut"},
         \A e \in un : log[e].type \notin {"GuestCheckedIn", "GuestCheckedOut"}
  PROVE  SoundWrites(Nothing, Change(assigned, l, r), ev, un)
<1> DEFINE as == Overlay(assigned, Change(assigned, l, r))
<1>1. \A m \in Line : as[m] = IF m = l THEN r ELSE assigned[m]
  BY DEF AloneInvariant, DeskInvariant, FrontDeskTypeOK, Overlay, Change, One, Nothing
<1> HIDE DEF as
<1>2. SharedIn(status, as) \subseteq Shared
  BY <1>1, AssignedSharesNothing DEF AloneInvariant
<1>3. Unborn(status, as)
  BY <1>1 DEF Unborn, AloneInvariant, CanAssign
<1> QED BY <1>2, <1>3, QuietSound DEF as

(* A line that loses its room.                                             *)
LEMMA ReleaseSound ==
  ASSUME AloneInvariant, NEW l \in Line, NEW ev \in Seq(AuditEvent),
         NEW un \in SUBSET (1..Len(log)),
         \A k \in 1..Len(ev) : ev[k].type \notin {"GuestCheckedIn", "GuestCheckedOut"},
         \A e \in un : log[e].type \notin {"GuestCheckedIn", "GuestCheckedOut"}
  PROVE  SoundWrites(Nothing, Change(assigned, l, None), ev, un)
<1> DEFINE as == Overlay(assigned, Change(assigned, l, None))
<1>1. \A m \in Line : as[m] = IF m = l THEN None ELSE assigned[m]
  BY DEF AloneInvariant, DeskInvariant, FrontDeskTypeOK, Overlay, Change, One, Nothing
<1> HIDE DEF as
<1>2. SharedIn(status, as) \subseteq Shared
  BY <1>1, ReleasedSharesNothing
<1>3. Unborn(status, as)
  BY <1>1 DEF Unborn, AloneInvariant
<1> QED BY <1>2, <1>3, QuietSound DEF as

(* Nothing about statuses, rooms or events.                                *)
LEMMA NoWritesSound ==
  ASSUME AloneInvariant
  PROVE  SoundWrites(Nothing, Nothing, <<>>, {})
<1>1. Overlay(assigned, Nothing) = assigned
  BY OverlayNothing DEF AloneInvariant, DeskInvariant, FrontDeskTypeOK
<1>2. SharedIn(status, assigned) = Shared
  BY DEF SharedIn, Shared
<1>3. <<>> \in Seq(AuditEvent) /\ {} \in SUBSET (1..Len(log)) /\ Len(<<>>) = 0
  OBVIOUS
<1>4. Unborn(status, Overlay(assigned, Nothing))
  BY <1>1 DEF AloneInvariant
<1>5. SharedIn(status, Overlay(assigned, Nothing)) \subseteq Shared
  BY <1>1, <1>2
<1> DEFINE ev == <<>>
           un == {}
<1>6. /\ \A k \in 1..Len(ev) : ev[k].type \notin {"GuestCheckedIn", "GuestCheckedOut"}
      /\ \A e \in un : log[e].type \notin {"GuestCheckedIn", "GuestCheckedOut"}
  BY <1>3
<1>7. ev \in Seq(AuditEvent) /\ un \in SUBSET (1..Len(log))
  BY <1>3
<1> HIDE DEF ev, un
<1>8. SoundWrites(Nothing, Nothing, ev, un)
  BY <1>4, <1>5, <1>6, <1>7, QuietSound
<1> QED BY <1>8 DEF ev, un

LEMMA AssignmentsAreQuiet ==
  ASSUME NEW ev \in Seq(RoomAssignedEvent)
  PROVE  \A k \in 1..Len(ev) : ev[k].type \notin {"GuestCheckedIn", "GuestCheckedOut"}
<1>1. \A k \in 1..Len(ev) : ev[k] \in RoomAssignedEvent
  OBVIOUS
<1> QED BY <1>1 DEF RoomAssignedEvent

(* One reservation takes another status, and no line another room.         *)
LEMMA StatusSound ==
  ASSUME AloneInvariant, NEW x \in Reservation, NEW v, v # "absent", NEW ev, NEW un,
         Agreement(Overlay(status, One(x, v)), log \o ev, undone \cup un),
         \/ v \in ACTIVE_STATUSES => status[x] \in ACTIVE_STATUSES
         \/ \E e \in un \ undone : log[e].type = "GuestCheckedOut"
  PROVE  SoundWrites(One(x, v), Nothing, ev, un)
<1> DEFINE st == Overlay(status, One(x, v))
<1>1. \A y \in Reservation : st[y] = IF y = x THEN v ELSE status[y]
  BY DEF AloneInvariant, DeskInvariant, FrontDeskTypeOK, Overlay, One
<1>2. Overlay(assigned, Nothing) = assigned
  BY OverlayNothing DEF AloneInvariant, DeskInvariant, FrontDeskTypeOK
<1> HIDE DEF st
<1>3. Unborn(st, assigned)
  BY <1>1, ResOfLine DEF Unborn, AloneInvariant
<1>4. (v \in ACTIVE_STATUSES => status[x] \in ACTIVE_STATUSES)
        => SharedIn(st, assigned) \subseteq Shared
  BY <1>1, ReleasedSharesNothing
<1> QED BY <1>2, <1>3, <1>4 DEF st, SoundWrites

LEMMA RecordedSound ==
  ASSUME AloneInvariant, NEW x \in Reservation, NEW g \in AuditEvent, NEW v, g.res = x,
         \/ g.type = "GuestCheckedIn" /\ v = "in_house" /\ status[x] = "confirmed"
         \/ g.type = "GuestCheckedOut" /\ v = "checked_out" /\ status[x] = "in_house"
  PROVE  SoundWrites(One(x, v), Nothing, <<g>>, {})
<1> DEFINE ev == <<>>
<1>1. ev \in Seq(AuditEvent) /\ Len(ev) = 0 /\ ev \o <<g>> = <<g>>
  OBVIOUS
<1> HIDE DEF ev
<1>2. Agreement(Overlay(status, One(x, v)), log \o (ev \o <<g>>), undone)
  <2>1. \A k \in 1..Len(ev) : ev[k].type \notin {"GuestCheckedIn", "GuestCheckedOut"}
    BY <1>1
  <2> QED BY <1>1, <2>1, RecordedAgrees DEF AloneInvariant
<1>3. v # "absent" /\ (v \in ACTIVE_STATUSES => status[x] \in ACTIVE_STATUSES)
  BY DEF ACTIVE_STATUSES
<1> DEFINE un == {}
<1>4. Agreement(Overlay(status, One(x, v)), log \o <<g>>, undone \cup un)
  <2>1. undone \cup un = undone
    OBVIOUS
  <2> QED BY <1>1, <1>2, <2>1
<1> HIDE DEF un
<1>5. SoundWrites(One(x, v), Nothing, <<g>>, un)
  BY <1>3, <1>4, StatusSound
<1> QED BY <1>5 DEF un

LEMMA WalkInSound ==
  ASSUME AloneInvariant, NEW s \in Session, NEW x \in Reservation, NEW a \in Actor,
         WalkIn(s, x, a)
  PROVE  SoundWrites(One(x, "in_house"), NewlyPlaced(x, Placed(x, a).rooms),
                     Append(Placed(x, a).events, GuestCheckedIn(x, a)), {})
<1> DEFINE rooms == Placed(x, a).rooms
           ev == Placed(x, a).events
           g == GuestCheckedIn(x, a)
           st == Overlay(status, One(x, "in_house"))
<1>1. status[x] = "absent"
  BY DEF WalkIn
<1>2. Overlay(assigned, NewlyPlaced(x, rooms)) = rooms
  BY NewlyPlacedRooms DEF AloneInvariant
<1>3. \A y \in Reservation : st[y] = IF y = x THEN "in_house" ELSE status[y]
  BY DEF AloneInvariant, DeskInvariant, FrontDeskTypeOK, Overlay, One
<1>4. /\ g \in AuditEvent /\ g.type = "GuestCheckedIn" /\ g.res = x
      /\ ev \in Seq(AuditEvent) /\ ev \in Seq(RoomAssignedEvent)
  <2>1. g \in GuestCheckedInEvent
    BY EventTypes
  <2>2. g.type = "GuestCheckedIn" /\ g.res = x
    BY DEF GuestCheckedIn
  <2>3. ev \in Seq(AuditEvent) /\ ev \in Seq(RoomAssignedEvent)
    BY NewlyPlacedType DEF AloneInvariant
  <2> QED BY <2>1, <2>2, <2>3 DEF AuditEvent
<1>5. \A k \in 1..Len(ev) : ev[k].type \notin {"GuestCheckedIn", "GuestCheckedOut"}
  BY <1>4, AssignmentsAreQuiet
<1>6. /\ rooms \in [Line -> Room \cup {None}]
      /\ \A l \in Line : rooms[l] # assigned[l] => l \in LinesOf(x)
  BY PlacedKeeps DEF AloneInvariant, DeskInvariant, Placing
<1> HIDE DEF g, ev
<1>7. Agreement(st, log \o (ev \o <<g>>), undone)
  BY <1>1, <1>4, <1>5, RecordedAgrees DEF AloneInvariant
<1>8. Append(ev, g) = ev \o <<g>>
  BY <1>4
<1>9. SharedIn(st, rooms) \subseteq Shared
  <2>1. \A y \in Reservation : y # x => st[y] = status[y]
    BY <1>3
  <2> HIDE DEF st
  <2> QED BY <1>1, <2>1, PlacedSharesNothing DEF AloneInvariant
<1> HIDE DEF rooms, st
<1>10. Unborn(st, rooms)
  BY <1>1, <1>3, <1>6, ResOfLine DEF Unborn, AloneInvariant
<1>11. Agreement(st, log \o Append(ev, g), undone \cup {})
  <2>1. undone \cup {} = undone
    OBVIOUS
  <2> QED BY <1>7, <1>8, <2>1
<1>12. SharedIn(st, Overlay(assigned, NewlyPlaced(x, rooms))) \subseteq Shared
       /\ Unborn(st, Overlay(assigned, NewlyPlaced(x, rooms)))
  BY <1>2, <1>9, <1>10
<1> QED BY <1>11, <1>12 DEF SoundWrites, rooms, st, ev, g

LEMMA AutoAssignSound ==
  ASSUME AloneInvariant, NEW s \in Session, NEW x \in Reservation, NEW a \in Actor,
         AutoAssign(s, x, a)
  PROVE  SoundWrites(Nothing, NewlyPlaced(x, Placed(x, a).rooms), Placed(x, a).events, {})
<1> DEFINE rooms == Placed(x, a).rooms
           ev == Placed(x, a).events
           as == NewlyPlaced(x, rooms)
           un == {}
<1>1. status[x] \in ACTIVE_STATUSES
  BY DEF AutoAssign, ACTIVE_STATUSES
<1>2. Overlay(assigned, as) = rooms
  BY NewlyPlacedRooms DEF AloneInvariant
<1>3. ev \in Seq(AuditEvent) /\ ev \in Seq(RoomAssignedEvent)
  BY NewlyPlacedType DEF AloneInvariant
<1>4. \A k \in 1..Len(ev) : ev[k].type \notin {"GuestCheckedIn", "GuestCheckedOut"}
  BY <1>3, AssignmentsAreQuiet
<1>5. /\ rooms \in [Line -> Room \cup {None}]
      /\ \A l \in Line : rooms[l] # assigned[l] => l \in LinesOf(x)
  BY PlacedKeeps DEF AloneInvariant, DeskInvariant, Placing
<1>6. SharedIn(status, rooms) \subseteq Shared
  BY <1>1, PlacedSharesNothing DEF AloneInvariant
<1> HIDE DEF rooms, ev
<1>7. Unborn(status, rooms)
  BY <1>1, <1>5, ResOfLine DEF Unborn, AloneInvariant, ACTIVE_STATUSES
<1>8. /\ un \in SUBSET (1..Len(log))
      /\ \A e \in un : log[e].type \notin {"GuestCheckedIn", "GuestCheckedOut"}
  OBVIOUS
<1> HIDE DEF as, un
<1>9. SoundWrites(Nothing, as, ev, un)
  BY <1>2, <1>3, <1>4, <1>6, <1>7, <1>8, QuietSound
<1> QED BY <1>9 DEF as, un, rooms, ev

LEMMA CancelSound ==
  ASSUME AloneInvariant, NEW x \in Reservation, status[x] = "confirmed"
  PROVE  SoundWrites(One(x, "cancelled"), Nothing, <<>>, {})
<1> DEFINE st == Overlay(status, One(x, "cancelled"))
           ev == <<>>
           un == {}
<1>1. \A y \in Reservation : st[y] = IF y = x THEN "cancelled" ELSE status[y]
  BY DEF AloneInvariant, DeskInvariant, FrontDeskTypeOK, Overlay, One
<1>2. log \o ev = log /\ undone \cup un = undone
  BY DEF AloneInvariant, DeskInvariant
<1> HIDE DEF st
<1>3. Agreement(st, log, undone)
  BY <1>1 DEF Agreement, AgreesAt, AloneInvariant
<1>4. Agreement(st, log \o ev, undone \cup un)
  BY <1>2, <1>3
<1>5. "cancelled" # "absent" /\ "cancelled" \notin ACTIVE_STATUSES
  BY DEF ACTIVE_STATUSES
<1> HIDE DEF ev, un
<1>6. SoundWrites(One(x, "cancelled"), Nothing, ev, un)
  BY <1>4, <1>5, StatusSound DEF st
<1> QED BY <1>6 DEF ev, un

(* An undo moves a guest one status back.                                  *)
LEMMA UndoSound ==
  ASSUME AloneInvariant, NEW e \in 1..Len(log), e \notin undone, NEW a \in Actor, NEW v,
         NEW x \in Reservation, log[e].res = x,
         \/ log[e].type = "GuestCheckedIn" /\ status[x] = "in_house" /\ v = "confirmed"
         \/ log[e].type = "GuestCheckedOut" /\ status[x] = "checked_out" /\ v = "in_house"
  PROVE  SoundWrites(One(x, v), Nothing, <<ActionUndone(e, a)>>, {e})
<1> DEFINE u == ActionUndone(e, a)
           ev == <<u>>
           un == {e}
<1>1. u \in AuditEvent /\ u.type = "ActionUndone"
  <2>1. e \in Nat
    OBVIOUS
  <2>2. u \in ActionUndoneEvent
    BY <2>1, EventTypes
  <2> QED BY <2>2 DEF AuditEvent, ActionUndoneEvent
<1> HIDE DEF u
<1>2. Agreement(Overlay(status, One(x, v)), log \o ev, undone \cup un)
  BY <1>1, UndoneAgrees DEF AloneInvariant
<1>3. /\ v # "absent"
      /\ \/ v \in ACTIVE_STATUSES => status[x] \in ACTIVE_STATUSES
         \/ \E d \in un \ undone : log[d].type = "GuestCheckedOut"
  BY DEF ACTIVE_STATUSES
<1> HIDE DEF ev, un
<1>4. SoundWrites(One(x, v), Nothing, ev, un)
  BY <1>2, <1>3, StatusSound
<1> QED BY <1>4 DEF ev, un, u

(* A step commits, or a request decides on writes that are sound.          *)
Decides(s) ==
  \E st, as, ev, un : Asks(s, st, as, ev, un) /\ SoundWrites(st, as, ev, un)

LEMMA DecidesIf ==
  ASSUME NEW s, NEW st, NEW as, NEW ev, NEW un,
         Asks(s, st, as, ev, un), SoundWrites(st, as, ev, un)
  PROVE  Decides(s)
BY DEF Decides

LEMMA ElsewhereDecides ==
  ASSUME AloneInvariant, NEW s \in Session, Elsewhere(s)
  PROVE  Decides(s)
<1>1. DeskInvariant
  BY DEF AloneInvariant
<1>2. ASSUME NEW x \in Reservation, Cancel(s, x) PROVE Decides(s)
  <2>1. Asks(s, One(x, "cancelled"), Nothing, <<>>, {})
    BY <1>1, <1>2, ElsewherePrepares
  <2>2. SoundWrites(One(x, "cancelled"), Nothing, <<>>, {})
    BY <1>2, CancelSound DEF Cancel
  <2> QED BY <2>1, <2>2, DecidesIf
<1>3. ASSUME Asks(s, Nothing, Nothing, <<>>, {}) PROVE Decides(s)
  BY <1>3, NoWritesSound, DecidesIf
<1>4. ASSUME NEW x \in Reservation, Post(s, x) \/ CloseFolio(s, x) PROVE Decides(s)
  BY <1>1, <1>3, <1>4, ElsewherePrepares
<1>5. ASSUME NEW r \in Room, NEW h \in HousekeepingStatus, SetHousekeeping(s, r, h)
      PROVE  Decides(s)
  BY <1>1, <1>3, <1>5, ElsewherePrepares
<1> QED BY <1>2, <1>4, <1>5 DEF Elsewhere

LEMMA OperateDecides ==
  ASSUME AloneInvariant, NEW s \in Session, NEW a \in Actor, Operate(s, a)
  PROVE  Decides(s)
<1>1. DeskInvariant
  BY DEF AloneInvariant
<1>2. ASSUME NEW l \in Line, NEW r \in Room, AssignRoom(s, l, r, a) PROVE Decides(s)
  <2> DEFINE g == RoomAssigned(l, r, assigned[l], a)
             ev == <<g>>
             un == {}
  <2>1. Asks(s, Nothing, Change(assigned, l, r), ev, un)
    BY <1>1, <1>2, AssignRoomPrepares
  <2>2. g \in AuditEvent /\ g.type = "RoomAssigned"
    BY EventTypes DEF AloneInvariant, DeskInvariant, FrontDeskTypeOK, AuditEvent, RoomAssigned
  <2> HIDE DEF g
  <2>3. /\ ev \in Seq(AuditEvent) /\ un \in SUBSET (1..Len(log))
        /\ \A k \in 1..Len(ev) : ev[k].type \notin {"GuestCheckedIn", "GuestCheckedOut"}
        /\ \A e \in un : log[e].type \notin {"GuestCheckedIn", "GuestCheckedOut"}
    BY <2>2
  <2> HIDE DEF ev, un
  <2>4. SoundWrites(Nothing, Change(assigned, l, r), ev, un)
    BY <1>2, <2>3, AssignRoomSound DEF AssignRoom
  <2> QED BY <2>1, <2>4, DecidesIf
<1>3. ASSUME NEW x \in Reservation, AutoAssign(s, x, a) PROVE Decides(s)
  <2>1. Asks(s, Nothing, NewlyPlaced(x, Placed(x, a).rooms), Placed(x, a).events, {})
    BY <1>1, <1>3, AutoAssignPrepares
  <2>2. SoundWrites(Nothing, NewlyPlaced(x, Placed(x, a).rooms), Placed(x, a).events, {})
    BY <1>3, AutoAssignSound
  <2> QED BY <2>1, <2>2, DecidesIf
<1>4. ASSUME NEW x \in Reservation, CheckIn(s, x, a) PROVE Decides(s)
  <2> DEFINE g == GuestCheckedIn(x, a)
  <2>1. Asks(s, One(x, "in_house"), Nothing, <<g>>, {})
    BY <1>1, <1>4, CheckInPrepares
  <2>2. g \in GuestCheckedInEvent /\ g.type = "GuestCheckedIn" /\ g.res = x
    BY EventTypes DEF GuestCheckedIn
  <2> HIDE DEF g
  <2>3. SoundWrites(One(x, "in_house"), Nothing, <<g>>, {})
    BY <1>4, <2>2, RecordedSound DEF CheckIn, AuditEvent
  <2> QED BY <2>1, <2>3, DecidesIf
<1>5. ASSUME NEW x \in Reservation, WalkIn(s, x, a) PROVE Decides(s)
  <2>1. Asks(s, One(x, "in_house"), NewlyPlaced(x, Placed(x, a).rooms),
             Append(Placed(x, a).events, GuestCheckedIn(x, a)), {})
    BY <1>1, <1>5, WalkInPrepares
  <2>2. SoundWrites(One(x, "in_house"), NewlyPlaced(x, Placed(x, a).rooms),
                    Append(Placed(x, a).events, GuestCheckedIn(x, a)), {})
    BY <1>5, WalkInSound
  <2> QED BY <2>1, <2>2, DecidesIf
<1>6. ASSUME NEW x \in Reservation, NEW allow \in BOOLEAN, CheckOut(s, x, a, allow)
      PROVE  Decides(s)
  <2> DEFINE g == GuestCheckedOut(x, PriorStatus(x), ~owing[x], a)
  <2>1. Asks(s, One(x, "checked_out"), Nothing, <<g>>, {})
    BY <1>1, <1>6, CheckOutPrepares
  <2>2. g \in GuestCheckedOutEvent
    BY <1>1, CheckOutTypes, EventTypes
  <2>3. g.type = "GuestCheckedOut" /\ g.res = x
    BY DEF GuestCheckedOut
  <2> HIDE DEF g
  <2>4. SoundWrites(One(x, "checked_out"), Nothing, <<g>>, {})
    BY <1>6, <2>2, <2>3, RecordedSound DEF CheckOut, AuditEvent
  <2> QED BY <2>1, <2>4, DecidesIf
<1> QED BY <1>2, <1>3, <1>4, <1>5, <1>6 DEF Operate

LEMMA UndoDecides ==
  ASSUME AloneInvariant, NEW s \in Session, NEW a \in Actor, Undo(s, a)
  PROVE  Decides(s)
<1>1. DeskInvariant
  BY DEF AloneInvariant
<1>2. ASSUME NEW e \in 1..Len(log), UndoRoomAssigned(s, e, a) PROVE Decides(s)
  <2> DEFINE l == log[e].line
             p == log[e].previous
             g == RoomAssigned(l, p, assigned[l], a)
             u == ActionUndone(e, a)
             ev == <<g, u>>
             un == {e}
  <2>1. log[e] \in RoomAssignedEvent /\ Asks(s, Nothing, Change(assigned, l, p), ev, un)
    BY <1>1, <1>2, UndoRoomAssignedPrepares
  <2>2. log[e].type = "RoomAssigned" /\ (p = None \/ CanAssign(l, p))
    BY <1>2 DEF UndoRoomAssigned, MayUndo
  <2>3. l \in Line /\ p \in Room \cup {None} /\ assigned[l] \in Room \cup {None}
    BY <1>1, <2>1 DEF RoomAssignedEvent, DeskInvariant, FrontDeskTypeOK
  <2>4. g \in RoomAssignedEvent /\ g.type = "RoomAssigned"
    BY <2>3, EventTypes DEF RoomAssigned
  <2>5. u \in ActionUndoneEvent /\ u.type = "ActionUndone"
    <3>1. e \in Nat
      OBVIOUS
    <3> QED BY <3>1, EventTypes DEF ActionUndone
  <2> HIDE DEF g, u, l, p
  <2>6. g \in AuditEvent /\ u \in AuditEvent
    BY <2>4, <2>5 DEF AuditEvent
  <2>7. /\ ev \in Seq(AuditEvent) /\ un \in SUBSET (1..Len(log))
        /\ \A k \in 1..Len(ev) : ev[k].type \notin {"GuestCheckedIn", "GuestCheckedOut"}
        /\ \A d \in un : log[d].type \notin {"GuestCheckedIn", "GuestCheckedOut"}
    BY <2>2, <2>4, <2>5, <2>6
  <2> HIDE DEF ev, un
  <2>8. CASE p = None
    <3>1. SoundWrites(Nothing, Change(assigned, l, None), ev, un)
      BY <2>3, <2>7, ReleaseSound
    <3> QED BY <2>1, <2>8, <3>1, DecidesIf
  <2>9. CASE p # None
    <3>1. SoundWrites(Nothing, Change(assigned, l, p), ev, un)
      BY <2>2, <2>3, <2>7, <2>9, AssignRoomSound
    <3> QED BY <2>1, <3>1, DecidesIf
  <2> QED BY <2>8, <2>9
<1>3. ASSUME NEW e \in 1..Len(log), UndoCheckIn(s, e, a) PROVE Decides(s)
  <2> DEFINE x == log[e].res
  <2>1. /\ log[e] \in GuestCheckedInEvent
        /\ Asks(s, One(x, "confirmed"), Nothing, <<ActionUndone(e, a)>>, {e})
    BY <1>1, <1>3, UndoCheckInPrepares
  <2>2. x \in Reservation
    BY <2>1 DEF GuestCheckedInEvent
  <2>3. e \notin undone /\ log[e].type = "GuestCheckedIn" /\ status[x] = "in_house"
    BY <1>3 DEF UndoCheckIn, MayUndo
  <2>4. SoundWrites(One(x, "confirmed"), Nothing, <<ActionUndone(e, a)>>, {e})
    BY <2>2, <2>3, UndoSound
  <2> QED BY <2>1, <2>4, DecidesIf
<1>4. ASSUME NEW e \in 1..Len(log), UndoCheckOut(s, e, a) PROVE Decides(s)
  <2> DEFINE x == log[e].res
  <2>1. /\ log[e] \in GuestCheckedOutEvent
        /\ Asks(s, One(x, "in_house"), Nothing, <<ActionUndone(e, a)>>, {e})
    BY <1>1, <1>4, UndoCheckOutPrepares
  <2>2. x \in Reservation
    BY <2>1 DEF GuestCheckedOutEvent
  <2>3. e \notin undone /\ log[e].type = "GuestCheckedOut" /\ status[x] = "checked_out"
    BY <1>4 DEF UndoCheckOut, MayUndo
  <2>4. SoundWrites(One(x, "in_house"), Nothing, <<ActionUndone(e, a)>>, {e})
    BY <2>2, <2>3, UndoSound
  <2> QED BY <2>1, <2>4, DecidesIf
<1> QED BY <1>2, <1>3, <1>4 DEF Undo

LEMMA NextDecides ==
  ASSUME AloneInvariant, Next
  PROVE  \E s \in Session : Commit(s) \/ Decides(s)
BY ElsewhereDecides, OperateDecides, UndoDecides DEF Next

--------------------------------------------------------------------------------
(* The theorems about requests that run one after another.                 *)

LEMMA DecidingKeeps ==
  ASSUME AloneInvariant, OneAtATime, NEW s \in Session, Decides(s)
  PROVE  AloneInvariant' /\ Shared' = Shared
<1>1. PICK st, as, ev, un : Asks(s, st, as, ev, un) /\ SoundWrites(st, as, ev, un)
  BY DEF Decides
<1>2. PICK w : /\ Prepares(s, w)
               /\ w.status = st /\ w.assigned = as /\ w.events = ev /\ w.undo = un
  BY <1>1 DEF Asks
<1>3. /\ UNCHANGED <<status, assigned, log, undone>>
      /\ tx' = [tx EXCEPT ![s] = w]
  BY <1>2 DEF Prepares, Request
<1>4. DeskInvariant'
  BY <1>1, AskingKeepsTypes DEF AloneInvariant
<1>5. Shared' = Shared
  BY <1>3 DEF Shared
<1>6. Agreement(status', log', undone') /\ Unborn(status', assigned')
  BY <1>3 DEF AloneInvariant
<1>7. SoundWrites(st, as, ev, un)'
  BY <1>1, <1>3, <1>5 DEF SoundWrites
<1>8. ASSUME NEW o \in Session
      PROVE  SoundWrites(tx[o].status, tx[o].assigned, tx[o].events, tx[o].undo)'
  <2>1. o = s
    BY DEF OneAtATime
  <2>2. tx'[o] = w
    BY <1>3, <2>1 DEF AloneInvariant, DeskInvariant
  <2> QED BY <1>2, <1>7, <2>2
<1> QED BY <1>4, <1>5, <1>6, <1>8 DEF AloneInvariant

LEMMA CommitKeepsAlone ==
  ASSUME AloneInvariant, OneAtATime, NEW s \in Session, Commit(s)
  PROVE  AloneInvariant' /\ (UndoesCheckOut \/ Shared' \subseteq Shared)
<1> DEFINE w == tx[s]
<1>1. SoundWrites(w.status, w.assigned, w.events, w.undo)
  BY DEF Commit, AloneInvariant
<1>2. /\ status' = Overlay(status, w.status) /\ assigned' = Overlay(assigned, w.assigned)
      /\ log' = log \o w.events /\ undone' = undone \cup w.undo
      /\ tx' = [tx EXCEPT ![s] = None]
  BY DEF Commit
<1> HIDE DEF w
<1>3. DeskInvariant'
  BY CommitKeepsTypes DEF AloneInvariant
<1>4. Agreement(status', log', undone') /\ Unborn(status', assigned')
  BY <1>1, <1>2 DEF SoundWrites
<1>5. \A o \in Session : tx'[o] = None
  BY <1>2 DEF AloneInvariant, DeskInvariant, OneAtATime
<1>6. Shared' = SharedIn(status', assigned')
  BY DEF Shared, SharedIn
<1>7. UndoesCheckOut \/ Shared' \subseteq Shared
  BY <1>1, <1>2, <1>6 DEF SoundWrites, UndoesCheckOut
<1> QED BY <1>3, <1>4, <1>5, <1>7 DEF AloneInvariant

LEMMA NextKeepsAlone ==
  AloneInvariant /\ OneAtATime /\ [Next]_vars
    => AloneInvariant' /\ [UndoesCheckOut \/ Shared' \subseteq Shared]_vars
<1> SUFFICES ASSUME AloneInvariant, OneAtATime, [Next]_vars
             PROVE  AloneInvariant' /\ [UndoesCheckOut \/ Shared' \subseteq Shared]_vars
  OBVIOUS
<1>1. CASE UNCHANGED vars
  <2>1. DeskInvariant'
    BY <1>1, NextKeepsTypes DEF AloneInvariant
  <2>2. Shared' = Shared
    BY <1>1 DEF vars, Shared
  <2>3. Agreement(status', log', undone') /\ Unborn(status', assigned')
    BY <1>1 DEF vars, AloneInvariant
  <2>4. ASSUME NEW s \in Session, tx'[s] # None
        PROVE  SoundWrites(tx[s].status, tx[s].assigned, tx[s].events, tx[s].undo)'
    <3>1. SoundWrites(tx[s].status, tx[s].assigned, tx[s].events, tx[s].undo)
      BY <1>1, <2>4 DEF vars, AloneInvariant
    <3> QED BY <1>1, <2>2, <3>1 DEF vars, SoundWrites
  <2> QED BY <1>1, <2>1, <2>3, <2>4 DEF AloneInvariant
<1>2. CASE Next
  BY <1>2, NextDecides, DecidingKeeps, CommitKeepsAlone
<1> QED BY <1>1, <1>2

LEMMA InitAlone == Init => AloneInvariant
<1> SUFFICES ASSUME Init PROVE AloneInvariant
  OBVIOUS
<1>1. \A un, type, x : PendingIn(log, un, type, x) = {}
  BY DEF Init, PendingIn
<1>2. Agreement(status, log, undone)
  BY <1>1 DEF Init, Agreement, AgreesAt
<1>3. Unborn(status, assigned)
  BY DEF Init, Unborn
<1> QED BY <1>2, <1>3, InitTypes DEF Init, AloneInvariant

(* With one request at a time the statuses and the undo log agree: a guest *)
(* in house has one check-in to undo, a departed one a check-out as well.  *)
THEOREM UndoLogConsistent == OneAtATime => (Spec => []UndoLogMatchesStatus)
<1> SUFFICES ASSUME OneAtATime PROVE Spec => []UndoLogMatchesStatus
  OBVIOUS
<1>1. AloneInvariant => UndoLogMatchesStatus
  <2> SUFFICES ASSUME AloneInvariant, NEW x \in Reservation
               PROVE  /\ Cardinality(Pending("GuestCheckedIn", x)) =
                           IF status[x] \in {"in_house", "checked_out"} THEN 1 ELSE 0
                      /\ Cardinality(Pending("GuestCheckedOut", x)) =
                           IF status[x] = "checked_out" THEN 1 ELSE 0
    BY DEF UndoLogMatchesStatus
  <2>1. \A type : Pending(type, x) = PendingIn(log, undone, type, x)
    BY DEF Pending, PendingIn, Events
  <2>2. \A S : Single(S) => Cardinality(S) = 1
    BY FS_Singleton DEF Single
  <2>3. Cardinality({}) = 0
    BY FS_EmptySet
  <2>4. AgreesAt(status, log, undone, x)
    BY DEF AloneInvariant, Agreement
  <2> QED BY <2>1, <2>2, <2>3, <2>4 DEF AgreesAt
<1>2. AloneInvariant /\ [Next]_vars => AloneInvariant'
  BY NextKeepsAlone
<1> QED BY <1>1, <1>2, InitAlone, PTL DEF Spec

(* With one request at a time nothing but the undo of a check-out gives    *)
(* two overlapping stays one room.                                         *)
THEOREM RoomsSharedByUndoOnly == OneAtATime => (Spec => OnlyUndoneCheckOutShares)
<1> SUFFICES ASSUME OneAtATime PROVE Spec => OnlyUndoneCheckOutShares
  OBVIOUS
<1>1. AloneInvariant /\ [Next]_vars
        => AloneInvariant' /\ [UndoesCheckOut \/ Shared' \subseteq Shared]_vars
  BY NextKeepsAlone
<1> QED BY <1>1, InitAlone, PTL DEF Spec, OnlyUndoneCheckOutShares

--------------------------------------------------------------------------------
(* An undo at once takes back what was done.  The rows before the last     *)
(* commit are those its one event leads back to, and what an open request  *)
(* will commit can be taken back in the same way.                          *)

(* The undo of the event g leads from the rows st, as and hk to old.       *)
TakesBack(g, st, as, hk, old) ==
  /\ g.type = "RoomAssigned" => old = <<st, [as EXCEPT ![g.line] = g.previous], hk>>
  /\ g.type = "GuestCheckedIn" => old = <<[st EXCEPT ![g.res] = "confirmed"], as, hk>>
  /\ g.type = "GuestCheckedOut" =>
       old = <<[st EXCEPT ![g.res] = "in_house"], as,
               [r \in Room |-> IF r \in DOMAIN g.prior /\ hk[r] = "dirty" THEN g.prior[r]
                               ELSE hk[r]]>>

(* No two lines of one reservation have the same room.                     *)
RoomsApart(as) ==
  \A l, m \in Line : l # m /\ ResOf(l) = ResOf(m) /\ as[l] = as[m] => as[l] = None

(* Writes that lead to st, as and hk, recording ev and undoing un.         *)
RestoringWrites(st, as, hk, ev, un) ==
  /\ Len(ev) = 1 => TakesBack(ev[1], st, as, hk, Remembered)
  /\ \A e \in un : before.event = e => before.state = <<st, as, hk>>
  /\ RoomsApart(as)

Restoring(w) ==
  RestoringWrites(Overlay(status, w.status), Overlay(assigned, w.assigned),
                  Overlay(housekeeping, w.housekeeping), w.events, w.undo)

LastActionKnown ==
  before.event # 0 =>
    /\ before.event = Len(log)
    /\ TakesBack(log[Len(log)], status, assigned, housekeeping, before.state)

HistoryInvariant ==
  /\ AloneInvariant
  /\ LastActionKnown
  /\ RoomsApart(assigned)
  /\ \A s \in Session : tx[s] # None => Restoring(tx[s])

(* A reservation has at least one line, and its lines are for one stay, so *)
(* that no room serves two of them.                                        *)
OneStayEach ==
  \A x \in Reservation :
    /\ Lines[x] # <<>>
    /\ \A l, m \in LinesOf(x) : l # m => OverlappingStays(l, m)

LEMMA DeskShapes ==
  ASSUME AloneInvariant
  PROVE  /\ status \in [Reservation -> Status] /\ assigned \in [Line -> Room \cup {None}]
         /\ housekeeping \in [Room -> HousekeepingStatus] /\ log \in Seq(AuditEvent)
         /\ Overlay(status, Nothing) = status /\ Overlay(assigned, Nothing) = assigned
         /\ Overlay(housekeeping, Nothing) = housekeeping
<1>1. /\ status \in [Reservation -> Status] /\ assigned \in [Line -> Room \cup {None}]
      /\ housekeeping \in [Room -> HousekeepingStatus] /\ log \in Seq(AuditEvent)
  BY DEF AloneInvariant, DeskInvariant, FrontDeskTypeOK
<1> QED BY <1>1, OverlayNothing

LEMMA OverlayIsExcept ==
  ASSUME NEW S, NEW T, NEW f \in [S -> T], NEW x \in S, NEW v
  PROVE  /\ Overlay(f, One(x, v)) = [f EXCEPT ![x] = v]
         /\ Overlay(f, Change(f, x, v)) = [f EXCEPT ![x] = v]
BY DEF Overlay, One, Change, Nothing

(* A request that decides on restoring writes.                             *)
Remembers(s) == \E w : Request(s, w) /\ Restoring(w)

(* One that records nothing and moves nobody.                              *)
LEMMA QuietRemembers ==
  ASSUME HistoryInvariant, NEW s, NEW w, Request(s, w),
         w.assigned = Nothing, w.events = <<>>, w.undo = {}
  PROVE  Remembers(s)
<1>1. Len(w.events) # 1 /\ Overlay(assigned, w.assigned) = assigned
  BY DeskShapes DEF HistoryInvariant
<1>2. RoomsApart(assigned)
  BY DEF HistoryInvariant
<1> QED BY <1>1, <1>2 DEF Remembers, Restoring, RestoringWrites

LEMMA ElsewhereRemembers ==
  ASSUME HistoryInvariant, NEW s \in Session, Elsewhere(s)
  PROVE  Remembers(s)
<1>1. ASSUME NEW x \in Reservation, Cancel(s, x) PROVE Remembers(s)
  <2> DEFINE v == One(x, "cancelled")
             w == [NoWrites EXCEPT !.status = v]
  <2>1. Request(s, w)
    BY <1>1 DEF Cancel
  <2> HIDE DEF v
  <2>2. w.assigned = Nothing /\ w.events = <<>> /\ w.undo = {}
    BY DEF NoWrites
  <2> HIDE DEF w
  <2> QED BY <2>1, <2>2, QuietRemembers
<1>2. ASSUME NEW x \in Reservation, Post(s, x) PROVE Remembers(s)
  <2> DEFINE v == One(x, ~owing[x])
             w == [NoWrites EXCEPT !.owing = v]
  <2>1. Request(s, w)
    BY <1>2 DEF Post
  <2> HIDE DEF v
  <2>2. w.assigned = Nothing /\ w.events = <<>> /\ w.undo = {}
    BY DEF NoWrites
  <2> HIDE DEF w
  <2> QED BY <2>1, <2>2, QuietRemembers
<1>3. ASSUME NEW x \in Reservation, CloseFolio(s, x) PROVE Remembers(s)
  <2> DEFINE v == One(x, "closed")
             w == [NoWrites EXCEPT !.folio = v]
  <2>1. Request(s, w)
    BY <1>3 DEF CloseFolio
  <2> HIDE DEF v
  <2>2. w.assigned = Nothing /\ w.events = <<>> /\ w.undo = {}
    BY DEF NoWrites
  <2> HIDE DEF w
  <2> QED BY <2>1, <2>2, QuietRemembers
<1>4. ASSUME NEW r \in Room, NEW h \in HousekeepingStatus, SetHousekeeping(s, r, h)
      PROVE  Remembers(s)
  <2> DEFINE v == One(r, h)
             w == [NoWrites EXCEPT !.housekeeping = v]
  <2>1. Request(s, w)
    BY <1>4 DEF SetHousekeeping
  <2> HIDE DEF v
  <2>2. w.assigned = Nothing /\ w.events = <<>> /\ w.undo = {}
    BY DEF NoWrites
  <2> HIDE DEF w
  <2> QED BY <2>1, <2>2, QuietRemembers
<1> QED BY <1>1, <1>2, <1>3, <1>4 DEF Elsewhere

(* A line that takes a room it may be assigned, or loses its room, has no  *)
(* room in common with another line of its reservation.                    *)
LEMMA MovedRoomsApart ==
  ASSUME HistoryInvariant, OneStayEach, NEW l \in Line, NEW r \in Room \cup {None},
         r = None \/ CanAssign(l, r)
  PROVE  RoomsApart([assigned EXCEPT ![l] = r])
<1> DEFINE as == [assigned EXCEPT ![l] = r]
<1> SUFFICES ASSUME NEW k \in Line, NEW m \in Line, k # m, ResOf(k) = ResOf(m),
                    as[k] = as[m], as[k] # None
             PROVE  FALSE
  BY DEF RoomsApart
<1>1. \A n \in Line : as[n] = IF n = l THEN r ELSE assigned[n]
  BY DeskShapes DEF HistoryInvariant
<1> HIDE DEF as
<1>2. OverlappingStays(k, m) /\ OverlappingStays(m, k)
  BY ResOfLine, OverlapSymmetric DEF OneStayEach
<1>3. CASE k # l /\ m # l
  BY <1>1, <1>3 DEF HistoryInvariant, RoomsApart
<1>4. CASE k = l \/ m = l
  <2>1. CanAssign(l, r)
    BY <1>1, <1>4
  <2>2. ResOf(l) \in ActiveReservations
    BY <2>1, ResOfLine DEF CanAssign, ActiveReservations, ACTIVE_STATUSES
  <2> QED BY <1>1, <1>2, <1>4, <2>1, <2>2 DEF CanAssign, RoomFree
<1> QED BY <1>3, <1>4

(* auto_assign records an event for each room it gives.                    *)
Counted(rooms, ev) ==
  /\ Len(ev) = 0 => rooms = assigned
  /\ Len(ev) = 1 => assigned = [rooms EXCEPT ![ev[1].line] = ev[1].previous]

LEMMA PlaceLineCounts ==
  ASSUME FrontDeskTypeOK, NEW x \in Reservation, NEW l \in LinesOf(x), l \in Line,
         NEW a \in Actor, NEW p, Placing(p, x), Counted(p.rooms, p.events)
  PROVE  Counted(PlaceLine(p, x, l, a).rooms, PlaceLine(p, x, l, a).events)
<1> DEFINE free == {r \in Fitting[l] : RoomFree(p.rooms, ActiveReservations \cup {x}, l, r)}
           first == CHOOSE r \in free : \A q \in free : r <= q
           g == RoomAssigned(l, first, None, a)
           rooms == [p.rooms EXCEPT ![l] = first]
           events == Append(p.events, g)
<1>1. CASE p.rooms[l] # None \/ free = {}
  BY <1>1 DEF PlaceLine
<1>2. CASE p.rooms[l] = None /\ free # {}
  <2>1. PlaceLine(p, x, l, a) = [rooms |-> rooms, events |-> events]
    BY <1>2 DEF PlaceLine
  <2>2. g.line = l /\ g.previous = None
    BY DEF RoomAssigned
  <2> HIDE DEF first, free, g
  <2>3. /\ p.events \in Seq(RoomAssignedEvent) /\ p.rooms \in [Line -> Room \cup {None}]
        /\ assigned \in [Line -> Room \cup {None}]
    BY DEF Placing, FrontDeskTypeOK
  <2>4. Len(events) = Len(p.events) + 1 /\ Len(p.events) \in Nat
    BY <2>3
  <2>5. ASSUME Len(events) = 1
        PROVE  assigned = [rooms EXCEPT ![events[1].line] = events[1].previous]
    <3>1. p.rooms = assigned /\ Len(p.events) = 0
      BY <2>4, <2>5 DEF Counted
    <3>2. events[1] = g
      BY <2>3, <3>1
    <3>3. assigned = [rooms EXCEPT ![l] = None]
      BY <1>2, <2>3, <3>1
    <3> QED BY <2>2, <3>2, <3>3
  <2>6. Len(events) # 0
    BY <2>4
  <2> HIDE DEF rooms, events
  <2>7. Counted(rooms, events)
    BY <2>5, <2>6 DEF Counted
  <2> QED BY <2>1, <2>7
<1> QED BY <1>1, <1>2

LEMMA PlacedCounts ==
  ASSUME FrontDeskTypeOK, NEW x \in Reservation, NEW a \in Actor
  PROVE  Counted(Placed(x, a).rooms, Placed(x, a).events)
<1> DEFINE n == Len(Lines[x])
<1>1. PICK g : PlacedBy(g, x, a, n) /\ Placed(x, a) = g[n]
  BY PlacedFollows
<1>2. n \in Nat /\ \A k \in 1..n : Lines[x][k] \in LinesOf(x) /\ Lines[x][k] \in Line
  BY LineOf
<1> HIDE DEF n
<1>3. \A k \in 0..n : g[k] = IF k = 0 THEN [rooms |-> assigned, events |-> <<>>]
                             ELSE PlaceLine(g[k - 1], x, Lines[x][k], a)
  BY <1>1 DEF PlacedBy
<1> DEFINE Good(m) == Placing(g[m], x) /\ Counted(g[m].rooms, g[m].events)
           Bad == {m \in 0..n : ~Good(m)}
<1>4. Bad = {}
  <2> SUFFICES ASSUME Bad # {} PROVE FALSE
    OBVIOUS
  <2>1. PICK m \in Bad : \A k \in Bad : m <= k
    <3>1. Bad \in SUBSET Nat
      BY <1>2
    <3> HIDE DEF Bad
    <3> QED BY <3>1, NatLeast
  <2>2. m # 0
    <3> DEFINE p == [rooms |-> assigned, events |-> <<>>]
    <3>1. Placing(p, x)
      BY DEF Placing, FrontDeskTypeOK
    <3>2. Counted(p.rooms, p.events)
      BY DEF Counted
    <3>3. g[0] = p
      BY <1>2, <1>3
    <3> QED BY <2>1, <3>1, <3>2, <3>3
  <2>3. m \in 1..n /\ m - 1 \in 0..n /\ Good(m - 1)
    BY <1>2, <2>1, <2>2
  <2>4. g[m] = PlaceLine(g[m - 1], x, Lines[x][m], a)
    BY <1>2, <1>3, <2>2, <2>3
  <2>5. Placing(g[m], x) /\ Counted(g[m].rooms, g[m].events)
    BY <1>2, <2>3, <2>4, PlaceLineKeeps, PlaceLineCounts
  <2> QED BY <2>1, <2>5
<1> QED BY <1>1, <1>2, <1>4

LEMMA PlacedRoomsApart ==
  ASSUME HistoryInvariant, OneStayEach, NEW x \in Reservation, NEW a \in Actor
  PROVE  RoomsApart(Placed(x, a).rooms)
<1> DEFINE as == Placed(x, a).rooms
<1>1. /\ \A l \in Line : as[l] # assigned[l] => l \in LinesOf(x)
      /\ \A l, m \in Line :
           /\ l # m
           /\ as[l] # None /\ as[l] = as[m]
           /\ {ResOf(l), ResOf(m)} \subseteq ActiveReservations \cup {x}
           /\ OverlappingStays(l, m)
           => as[l] = assigned[l] /\ as[m] = assigned[m]
  BY PlacedKeeps DEF HistoryInvariant, AloneInvariant, DeskInvariant, Placing
<1> HIDE DEF as
<1> SUFFICES ASSUME NEW k \in Line, NEW m \in Line, k # m, ResOf(k) = ResOf(m),
                    as[k] = as[m], as[k] # None
             PROVE  FALSE
  BY DEF RoomsApart, as
<1>2. as[k] = assigned[k] /\ as[m] = assigned[m]
  <2>1. CASE ResOf(k) = x
    <3>1. OverlappingStays(k, m)
      BY ResOfLine DEF OneStayEach
    <3> QED BY <1>1, <2>1, <3>1
  <2>2. CASE ResOf(k) # x
    BY <1>1, <2>2, ResOfLine
  <2> QED BY <2>1, <2>2
<1> QED BY <1>2 DEF HistoryInvariant, RoomsApart

LEMMA AssignRemembers ==
  ASSUME HistoryInvariant, OneStayEach, NEW s \in Session, NEW l \in Line, NEW r \in Room,
         NEW a \in Actor, AssignRoom(s, l, r, a)
  PROVE  Remembers(s)
<1> DEFINE as == Change(assigned, l, r)
           g == RoomAssigned(l, r, assigned[l], a)
           w == [NoWrites EXCEPT !.assigned = as, !.events = <<g>>]
<1>1. Request(s, w) /\ CanAssign(l, r)
  BY DEF AssignRoom
<1>2. g.type = "RoomAssigned" /\ g.line = l /\ g.previous = assigned[l]
  BY DEF RoomAssigned
<1>3. Overlay(assigned, as) = [assigned EXCEPT ![l] = r]
  <2>1. assigned \in [Line -> Room \cup {None}]
    BY DeskShapes DEF HistoryInvariant
  <2> QED BY <2>1 DEF Overlay, Change, One, Nothing
<1> HIDE DEF as, g
<1>4. /\ w.status = Nothing /\ w.assigned = as /\ w.housekeeping = Nothing
      /\ w.events = <<g>> /\ w.undo = {}
  BY DEF NoWrites
<1> HIDE DEF w
<1>5. RoomsApart([assigned EXCEPT ![l] = r])
  BY <1>1, MovedRoomsApart
<1>6. assigned = [[assigned EXCEPT ![l] = r] EXCEPT ![l] = assigned[l]]
  BY DeskShapes DEF HistoryInvariant
<1>7. TakesBack(g, status, [assigned EXCEPT ![l] = r], housekeeping, Remembered)
  BY <1>2, <1>6 DEF TakesBack, Remembered
<1>8. /\ Overlay(status, w.status) = status
      /\ Overlay(housekeeping, w.housekeeping) = housekeeping
      /\ w.events[1] = g
  BY <1>4, DeskShapes DEF HistoryInvariant
<1> QED BY <1>1, <1>3, <1>4, <1>5, <1>7, <1>8 DEF Remembers, Restoring, RestoringWrites

LEMMA AutoAssignRemembers ==
  ASSUME HistoryInvariant, OneStayEach, NEW s \in Session, NEW x \in Reservation,
         NEW a \in Actor, AutoAssign(s, x, a)
  PROVE  Remembers(s)
<1> DEFINE p == Placed(x, a)
           as == NewlyPlaced(x, p.rooms)
           ev == p.events
           w == [NoWrites EXCEPT !.assigned = as, !.events = ev]
<1>1. Request(s, w)
  BY DEF AutoAssign
<1>2. Overlay(assigned, as) = p.rooms /\ RoomsApart(p.rooms)
  BY NewlyPlacedRooms, PlacedRoomsApart DEF HistoryInvariant, AloneInvariant
<1>3. ev \in Seq(RoomAssignedEvent) /\ Counted(p.rooms, ev)
  BY NewlyPlacedType, PlacedCounts DEF HistoryInvariant, AloneInvariant, DeskInvariant
<1> HIDE DEF p, as
<1>4. /\ w.status = Nothing /\ w.assigned = as /\ w.housekeeping = Nothing
      /\ w.events = ev /\ w.undo = {}
  BY DEF NoWrites
<1> HIDE DEF w
<1>5. ASSUME Len(ev) = 1
      PROVE  TakesBack(ev[1], status, p.rooms, housekeeping, Remembered)
  <2>1. ev[1] \in RoomAssignedEvent
    BY <1>3, <1>5
  <2>2. ev[1].type = "RoomAssigned"
    BY <2>1 DEF RoomAssignedEvent
  <2>3. assigned = [p.rooms EXCEPT ![ev[1].line] = ev[1].previous]
    BY <1>3, <1>5 DEF Counted
  <2> QED BY <2>2, <2>3 DEF TakesBack, Remembered
<1>6. Overlay(status, w.status) = status /\ Overlay(housekeeping, w.housekeeping) = housekeeping
  BY <1>4, DeskShapes DEF HistoryInvariant
<1> HIDE DEF ev
<1> QED BY <1>1, <1>2, <1>4, <1>5, <1>6 DEF Remembers, Restoring, RestoringWrites

LEMMA CheckInRemembers ==
  ASSUME HistoryInvariant, NEW s \in Session, NEW x \in Reservation, NEW a \in Actor,
         CheckIn(s, x, a)
  PROVE  Remembers(s)
<1> DEFINE st == One(x, "in_house")
           fo == Change(folio, x, Opened(x))
           g == GuestCheckedIn(x, a)
           w == [NoWrites EXCEPT !.status = st, !.folio = fo, !.events = <<g>>]
<1>1. Request(s, w) /\ status[x] = "confirmed"
  BY DEF CheckIn
<1>2. g.type = "GuestCheckedIn" /\ g.res = x
  BY DEF GuestCheckedIn
<1>3. status = [Overlay(status, st) EXCEPT ![x] = "confirmed"]
  <2>1. status \in [Reservation -> Status]
    BY DeskShapes DEF HistoryInvariant
  <2> QED BY <1>1, <2>1 DEF Overlay, One
<1> HIDE DEF st, fo, g
<1>4. /\ w.status = st /\ w.assigned = Nothing /\ w.housekeeping = Nothing
      /\ w.events = <<g>> /\ w.undo = {}
  BY DEF NoWrites
<1> HIDE DEF w
<1>5. TakesBack(g, Overlay(status, st), assigned, housekeeping, Remembered)
  BY <1>2, <1>3 DEF TakesBack, Remembered
<1>6. /\ Overlay(assigned, w.assigned) = assigned /\ w.events[1] = g
      /\ Overlay(housekeeping, w.housekeeping) = housekeeping
  BY <1>4, DeskShapes DEF HistoryInvariant
<1>7. RoomsApart(assigned)
  BY DEF HistoryInvariant
<1> QED BY <1>1, <1>4, <1>5, <1>6, <1>7 DEF Remembers, Restoring, RestoringWrites

(* A walk-in gives a room to each of its lines: it records several events. *)
LEMMA WalkInRemembers ==
  ASSUME HistoryInvariant, OneStayEach, NEW s \in Session, NEW x \in Reservation,
         NEW a \in Actor, WalkIn(s, x, a)
  PROVE  Remembers(s)
<1> DEFINE rooms == Placed(x, a).rooms
           st == One(x, "in_house")
           as == NewlyPlaced(x, rooms)
           fo == One(x, "open")
           pl == Placed(x, a).events
           ev == Append(pl, GuestCheckedIn(x, a))
           w == [NoWrites EXCEPT !.status = st, !.assigned = as, !.folio = fo, !.events = ev]
<1>1. Request(s, w) /\ status[x] = "absent" /\ AllPlaced(x, rooms)
  BY DEF WalkIn
<1>2. Overlay(assigned, as) = rooms /\ RoomsApart(rooms)
  BY NewlyPlacedRooms, PlacedRoomsApart DEF HistoryInvariant, AloneInvariant
<1>3. pl \in Seq(RoomAssignedEvent) /\ Counted(rooms, pl)
  BY NewlyPlacedType, PlacedCounts DEF HistoryInvariant, AloneInvariant, DeskInvariant
<1> HIDE DEF rooms, pl
<1>4. Len(ev) # 1
  <2>1. PICK l \in Line : l \in LinesOf(x)
    <3>1. Lines[x] \in Seq(Line) /\ Lines[x] # <<>>
      BY StaysAssumption DEF OneStayEach
    <3>2. 1 \in 1..Len(Lines[x])
      BY <3>1
    <3> QED BY <3>2, LineOf
  <2>2. rooms[l] # None /\ assigned[l] = None
    BY <1>1, <2>1, ResOfLine DEF AllPlaced, HistoryInvariant, AloneInvariant, Unborn
  <2>3. Len(pl) # 0
    BY <1>3, <2>2 DEF Counted
  <2> QED BY <1>3, <2>3
<1> HIDE DEF st, as, fo, ev
<1>5. w.assigned = as /\ w.events = ev /\ w.undo = {}
  BY DEF NoWrites
<1> HIDE DEF w
<1> QED BY <1>1, <1>2, <1>4, <1>5 DEF Remembers, Restoring, RestoringWrites

(* The rooms of a reservation are dirty when it has left, and each has the *)
(* status of before on record.                                             *)
LEMMA RoomsMadeDirty ==
  ASSUME HistoryInvariant, NEW x \in Reservation
  PROVE  LET hk == Overlay(housekeeping, MadeDirty(x))
             prior == PriorStatus(x)
         IN  housekeeping = [r \in Room |-> IF r \in DOMAIN prior /\ hk[r] = "dirty"
                                             THEN prior[r] ELSE hk[r]]
<1> DEFINE hk == Overlay(housekeeping, MadeDirty(x))
           prior == PriorStatus(x)
<1>1. housekeeping \in [Room -> HousekeepingStatus] /\ LinesOf(x) \subseteq Line
  BY DeskShapes, LineOf DEF HistoryInvariant
<1>2. DOMAIN prior = RoomsOf(x)
  BY DEF PriorStatus
<1>3. ASSUME NEW r \in RoomsOf(x) PROVE prior[r] = housekeeping[r]
  <2> DEFINE L == {l \in LinesOf(x) : assigned[l] = r}
  <2>1. PICK l \in LinesOf(x) : assigned[l] = r /\ r # None
    BY DEF RoomsOf
  <2>2. \A m \in LinesOf(x) : assigned[m] = r => m = l
    BY <1>1, <2>1, ResOfLine DEF HistoryInvariant, RoomsApart
  <2>3. L = {l}
    BY <2>1, <2>2
  <2> HIDE DEF L
  <2>4. Cardinality(L) = 1
    BY <2>3, FS_Singleton
  <2>5. ~(Cardinality(L) > 1)
    BY <2>4
  <2> QED BY <2>5 DEF PriorStatus, L
<1>4. \A r \in Room : hk[r] = IF r \in RoomsOf(x) THEN "dirty" ELSE housekeeping[r]
  BY <1>1 DEF Overlay, MadeDirty
<1> HIDE DEF hk, prior
<1>5. \A r \in Room : housekeeping[r] = IF r \in DOMAIN prior /\ hk[r] = "dirty"
                                        THEN prior[r] ELSE hk[r]
  BY <1>2, <1>3, <1>4
<1>6. housekeeping = [r \in Room |-> IF r \in DOMAIN prior /\ hk[r] = "dirty"
                                     THEN prior[r] ELSE hk[r]]
  BY <1>1, <1>5
<1> QED BY <1>6 DEF hk, prior

LEMMA CheckOutRemembers ==
  ASSUME HistoryInvariant, NEW s \in Session, NEW x \in Reservation, NEW a \in Actor,
         NEW allow \in BOOLEAN, CheckOut(s, x, a, allow)
  PROVE  Remembers(s)
<1> DEFINE st == One(x, "checked_out")
           fo == Change(folio, x, IF owing[x] THEN Opened(x) ELSE "closed")
           dirty == MadeDirty(x)
           hk == Overlay(housekeeping, dirty)
           prior == PriorStatus(x)
           g == GuestCheckedOut(x, prior, ~owing[x], a)
           w == [NoWrites EXCEPT !.status = st, !.folio = fo, !.housekeeping = dirty,
                                 !.events = <<g>>]
<1>1. Request(s, w) /\ status[x] = "in_house"
  BY DEF CheckOut
<1>2. g.type = "GuestCheckedOut" /\ g.res = x /\ g.prior = prior
  BY DEF GuestCheckedOut
<1>3. status = [Overlay(status, st) EXCEPT ![x] = "in_house"]
  <2>1. status \in [Reservation -> Status]
    BY DeskShapes DEF HistoryInvariant
  <2> QED BY <1>1, <2>1 DEF Overlay, One
<1>4. housekeeping = [r \in Room |-> IF r \in DOMAIN prior /\ hk[r] = "dirty"
                                     THEN prior[r] ELSE hk[r]]
  BY RoomsMadeDirty
<1> HIDE DEF st, fo, dirty, prior, g
<1>5. /\ w.status = st /\ w.assigned = Nothing /\ w.housekeeping = dirty
      /\ w.events = <<g>> /\ w.undo = {}
  BY DEF NoWrites
<1> HIDE DEF w, hk
<1>6. TakesBack(g, Overlay(status, st), assigned, hk, Remembered)
  BY <1>2, <1>3, <1>4 DEF TakesBack, Remembered
<1>7. Overlay(assigned, w.assigned) = assigned /\ w.events[1] = g
  BY <1>5, DeskShapes DEF HistoryInvariant
<1>8. RoomsApart(assigned)
  BY DEF HistoryInvariant
<1> QED BY <1>1, <1>5, <1>6, <1>7, <1>8 DEF Remembers, Restoring, RestoringWrites, hk

LEMMA OperateRemembers ==
  ASSUME HistoryInvariant, OneStayEach, NEW s \in Session, NEW a \in Actor, Operate(s, a)
  PROVE  Remembers(s)
<1>1. ASSUME NEW l \in Line, NEW r \in Room, AssignRoom(s, l, r, a) PROVE Remembers(s)
  BY <1>1, AssignRemembers
<1>2. ASSUME NEW x \in Reservation, AutoAssign(s, x, a) PROVE Remembers(s)
  BY <1>2, AutoAssignRemembers
<1>3. ASSUME NEW x \in Reservation, CheckIn(s, x, a) PROVE Remembers(s)
  BY <1>3, CheckInRemembers
<1>4. ASSUME NEW x \in Reservation, WalkIn(s, x, a) PROVE Remembers(s)
  BY <1>4, WalkInRemembers
<1>5. ASSUME NEW x \in Reservation, NEW allow \in BOOLEAN, CheckOut(s, x, a, allow)
      PROVE  Remembers(s)
  BY <1>5, CheckOutRemembers
<1> QED BY <1>1, <1>2, <1>3, <1>4, <1>5 DEF Operate

(* The last action, if its event is e.                                     *)
LEMMA LastEvent ==
  ASSUME HistoryInvariant, NEW e \in 1..Len(log), before.event = e
  PROVE  TakesBack(log[e], status, assigned, housekeeping, before.state)
<1>1. e # 0
  OBVIOUS
<1> QED BY <1>1 DEF HistoryInvariant, LastActionKnown

LEMMA UndoRoomAssignedRemembers ==
  ASSUME HistoryInvariant, OneStayEach, NEW s \in Session, NEW e \in 1..Len(log),
         NEW a \in Actor, UndoRoomAssigned(s, e, a)
  PROVE  Remembers(s)
<1> DEFINE l == log[e].line
           p == log[e].previous
           as == Change(assigned, l, p)
           ev == <<RoomAssigned(l, p, assigned[l], a), ActionUndone(e, a)>>
           w == [NoWrites EXCEPT !.assigned = as, !.events = ev, !.undo = {e}]
<1>1. Request(s, w) /\ log[e].type = "RoomAssigned" /\ (p = None \/ CanAssign(l, p))
  BY DEF UndoRoomAssigned, MayUndo
<1>2. l \in Line /\ p \in Room \cup {None}
  BY UndoRoomAssignedPrepares DEF HistoryInvariant, AloneInvariant, RoomAssignedEvent
<1>3. Len(ev) # 1
  OBVIOUS
<1>4. before.event = e
        => before.state = <<status, [assigned EXCEPT ![l] = p], housekeeping>>
  BY <1>1, LastEvent DEF TakesBack
<1> HIDE DEF l, p
<1>5. Overlay(assigned, as) = [assigned EXCEPT ![l] = p]
  <2>1. assigned \in [Line -> Room \cup {None}]
    BY DeskShapes DEF HistoryInvariant
  <2> QED BY <1>2, <2>1 DEF Overlay, Change, One, Nothing
<1>6. RoomsApart([assigned EXCEPT ![l] = p])
  BY <1>1, <1>2, MovedRoomsApart
<1> HIDE DEF as, ev
<1>7. /\ w.status = Nothing /\ w.assigned = as /\ w.housekeeping = Nothing
      /\ w.events = ev /\ w.undo = {e}
  BY DEF NoWrites
<1> HIDE DEF w
<1>8. Overlay(status, w.status) = status /\ Overlay(housekeeping, w.housekeeping) = housekeeping
  BY <1>7, DeskShapes DEF HistoryInvariant
<1> QED BY <1>1, <1>3, <1>4, <1>5, <1>6, <1>7, <1>8 DEF Remembers, Restoring, RestoringWrites

LEMMA UndoCheckInRemembers ==
  ASSUME HistoryInvariant, NEW s \in Session, NEW e \in 1..Len(log), NEW a \in Actor,
         UndoCheckIn(s, e, a)
  PROVE  Remembers(s)
<1> DEFINE x == log[e].res
           st == One(x, "confirmed")
           u == ActionUndone(e, a)
           w == [NoWrites EXCEPT !.status = st, !.events = <<u>>, !.undo = {e}]
<1>1. Request(s, w) /\ log[e].type = "GuestCheckedIn"
  BY DEF UndoCheckIn, MayUndo
<1>2. x \in Reservation
  BY UndoCheckInPrepares DEF HistoryInvariant, AloneInvariant, GuestCheckedInEvent
<1>3. u.type = "ActionUndone"
  BY DEF ActionUndone
<1>4. before.event = e
        => before.state = <<[status EXCEPT ![x] = "confirmed"], assigned, housekeeping>>
  BY <1>1, LastEvent DEF TakesBack
<1> HIDE DEF x
<1>5. Overlay(status, st) = [status EXCEPT ![x] = "confirmed"]
  <2>1. status \in [Reservation -> Status]
    BY DeskShapes DEF HistoryInvariant
  <2> QED BY <1>2, <2>1 DEF Overlay, One
<1> HIDE DEF st, u
<1>6. /\ w.status = st /\ w.assigned = Nothing /\ w.housekeeping = Nothing
      /\ w.events = <<u>> /\ w.undo = {e}
  BY DEF NoWrites
<1> HIDE DEF w
<1>7. /\ Overlay(assigned, w.assigned) = assigned /\ w.events[1] = u
      /\ Overlay(housekeeping, w.housekeeping) = housekeeping
  BY <1>6, DeskShapes DEF HistoryInvariant
<1>8. RoomsApart(assigned)
  BY DEF HistoryInvariant
<1>9. TakesBack(u, Overlay(status, st), assigned, housekeeping, Remembered)
  BY <1>3 DEF TakesBack
<1> QED BY <1>1, <1>4, <1>5, <1>6, <1>7, <1>8, <1>9
        DEF Remembers, Restoring, RestoringWrites

LEMMA UndoCheckOutRemembers ==
  ASSUME HistoryInvariant, NEW s \in Session, NEW e \in 1..Len(log), NEW a \in Actor,
         UndoCheckOut(s, e, a)
  PROVE  Remembers(s)
<1> DEFINE x == log[e].res
           prior == log[e].prior
           st == One(x, "in_house")
           fo == IF log[e].folioClosedByThisAction /\ folio[x] = "closed"
                 THEN One(x, "open") ELSE Nothing
           hk == Restored(prior)
           back == [r \in Room |-> IF r \in DOMAIN prior /\ housekeeping[r] = "dirty"
                                   THEN prior[r] ELSE housekeeping[r]]
           u == ActionUndone(e, a)
           w == [NoWrites EXCEPT !.status = st, !.folio = fo, !.housekeeping = hk,
                                 !.events = <<u>>, !.undo = {e}]
<1>1. Request(s, w) /\ log[e].type = "GuestCheckedOut"
  BY DEF UndoCheckOut, MayUndo
<1>2. x \in Reservation
  BY UndoCheckOutPrepares DEF HistoryInvariant, AloneInvariant, GuestCheckedOutEvent
<1>3. u.type = "ActionUndone"
  BY DEF ActionUndone
<1>4. before.event = e => before.state = <<[status EXCEPT ![x] = "in_house"], assigned, back>>
  BY <1>1, LastEvent DEF TakesBack
<1> HIDE DEF x, prior, fo
<1>5. Overlay(status, st) = [status EXCEPT ![x] = "in_house"]
  <2>1. status \in [Reservation -> Status]
    BY DeskShapes DEF HistoryInvariant
  <2> QED BY <1>2, <2>1 DEF Overlay, One
<1>6. Overlay(housekeeping, hk) = back
  <2>1. housekeeping \in [Room -> HousekeepingStatus]
    BY DeskShapes DEF HistoryInvariant
  <2> QED BY <2>1 DEF Overlay, Restored
<1> HIDE DEF st, hk, back, u
<1>7. /\ w.status = st /\ w.assigned = Nothing /\ w.housekeeping = hk
      /\ w.events = <<u>> /\ w.undo = {e}
  BY DEF NoWrites
<1> HIDE DEF w
<1>8. Overlay(assigned, w.assigned) = assigned /\ w.events[1] = u
  BY <1>7, DeskShapes DEF HistoryInvariant
<1>9. RoomsApart(assigned)
  BY DEF HistoryInvariant
<1>10. TakesBack(u, Overlay(status, st), assigned, back, Remembered)
  BY <1>3 DEF TakesBack
<1> QED BY <1>1, <1>4, <1>5, <1>6, <1>7, <1>8, <1>9, <1>10
        DEF Remembers, Restoring, RestoringWrites

LEMMA UndoRemembers ==
  ASSUME HistoryInvariant, OneStayEach, NEW s \in Session, NEW a \in Actor, Undo(s, a)
  PROVE  Remembers(s)
<1>1. ASSUME NEW e \in 1..Len(log), UndoRoomAssigned(s, e, a) PROVE Remembers(s)
  BY <1>1, UndoRoomAssignedRemembers
<1>2. ASSUME NEW e \in 1..Len(log), UndoCheckIn(s, e, a) PROVE Remembers(s)
  BY <1>2, UndoCheckInRemembers
<1>3. ASSUME NEW e \in 1..Len(log), UndoCheckOut(s, e, a) PROVE Remembers(s)
  BY <1>3, UndoCheckOutRemembers
<1> QED BY <1>1, <1>2, <1>3 DEF Undo

(* What a step does to the undone events: nothing, or an undo of the last  *)
(* action leads back to the rows before it.                                *)
TakenBack ==
  \A e \in undone' \ undone : before.event = e => Remembered' = before.state

(* The part of the invariant that is about the rows before the last commit.*)
RememberedRows ==
  /\ LastActionKnown
  /\ RoomsApart(assigned)
  /\ \A s \in Session : tx[s] # None => Restoring(tx[s])

LEMMA RememberingKeeps ==
  ASSUME HistoryInvariant, OneAtATime, HistoryStep, NEW s \in Session, Remembers(s)
  PROVE  RememberedRows' /\ TakenBack
<1>1. PICK w : Request(s, w) /\ Restoring(w)
  BY DEF Remembers
<1>2. /\ UNCHANGED <<status, assigned, housekeeping, log, undone>>
      /\ tx[s] = None /\ tx' = [tx EXCEPT ![s] = w]
  BY <1>1 DEF Request
<1>3. UNCHANGED before
  BY <1>2 DEF HistoryStep, OneAtATime
<1>4. Restoring(w)'
  BY <1>1, <1>2, <1>3 DEF Restoring, RestoringWrites, Remembered, RoomsApart, TakesBack
<1>5. ASSUME NEW o \in Session PROVE Restoring(tx[o])'
  <2>1. tx'[o] = w
    BY <1>2 DEF OneAtATime, HistoryInvariant, AloneInvariant, DeskInvariant
  <2> QED BY <1>4, <2>1 DEF Restoring
<1>6. LastActionKnown' /\ RoomsApart(assigned)'
  BY <1>2, <1>3 DEF HistoryInvariant, LastActionKnown, TakesBack, RoomsApart
<1> QED BY <1>2, <1>5, <1>6 DEF RememberedRows, TakenBack

LEMMA CommitKeepsRemembered ==
  ASSUME HistoryInvariant, OneAtATime, HistoryStep, NEW s \in Session, Commit(s)
  PROVE  RememberedRows' /\ TakenBack
<1> DEFINE w == tx[s]
<1>1. Restoring(w) /\ w \in WriteSet
  BY DEF Commit, HistoryInvariant, AloneInvariant, DeskInvariant
<1>2. /\ status' = Overlay(status, w.status) /\ assigned' = Overlay(assigned, w.assigned)
      /\ housekeeping' = Overlay(housekeeping, w.housekeeping)
      /\ log' = log \o w.events /\ undone' = undone \cup w.undo
      /\ tx[s] # None /\ tx' = [tx EXCEPT ![s] = None]
  BY DEF Commit
<1>3. \A o \in Session : tx'[o] = None
  BY <1>2 DEF OneAtATime, HistoryInvariant, AloneInvariant, DeskInvariant
<1> HIDE DEF w
<1>4. before' = [event |-> IF Len(log') = Len(log) + 1 THEN Len(log') ELSE 0,
                 state |-> Remembered]
  BY <1>2, <1>3 DEF HistoryStep
<1>5. w.events \in Seq(AuditEvent) /\ log \in Seq(AuditEvent)
  BY <1>1, DeskShapes DEF WriteSet, HistoryInvariant
<1>6. /\ Len(log') = Len(log) + Len(w.events)
      /\ Len(w.events) = 1 => log'[Len(log')] = w.events[1]
  BY <1>2, <1>5
<1>7. LastActionKnown'
  <2> SUFFICES ASSUME before'.event # 0
               PROVE  /\ before'.event = Len(log')
                      /\ TakesBack(log'[Len(log')], status', assigned', housekeeping',
                                   before'.state)
    BY DEF LastActionKnown, TakesBack
  <2>1. Len(log') = Len(log) + 1 /\ before'.event = Len(log') /\ before'.state = Remembered
    <3>1. CASE Len(log') = Len(log) + 1
      BY <1>4, <3>1
    <3>2. CASE ~(Len(log') = Len(log) + 1)
      <4>1. before' = [event |-> 0, state |-> Remembered]
        BY <1>4, <3>2, Zenon
      <4> QED BY <4>1
    <3> QED BY <3>1, <3>2
  <2>2. Len(w.events) = 1
    <3> DEFINE i == Len(w.events)
               j == Len(log)
    <3>1. i \in Nat /\ j \in Nat
      BY <1>5
    <3>2. j + i = j + 1
      BY <1>6, <2>1
    <3> HIDE DEF i, j
    <3>3. i = 1
      BY <3>1, <3>2
    <3> QED BY <3>3 DEF i
  <2>3. TakesBack(w.events[1], status', assigned', housekeeping', Remembered)
    BY <1>1, <1>2, <2>2 DEF Restoring, RestoringWrites
  <2> QED BY <1>6, <2>1, <2>2, <2>3
<1>8. RoomsApart(assigned)'
  BY <1>1, <1>2 DEF Restoring, RestoringWrites, RoomsApart
<1>9. TakenBack
  BY <1>1, <1>2 DEF Restoring, RestoringWrites, Remembered, TakenBack
<1> QED BY <1>3, <1>7, <1>8, <1>9 DEF RememberedRows

LEMMA StepKeepsHistory ==
  HistoryInvariant /\ OneAtATime /\ OneStayEach /\ [Next /\ HistoryStep]_<<vars, before>>
    => HistoryInvariant' /\ [TakenBack]_<<vars, before>>
<1> SUFFICES ASSUME HistoryInvariant, OneAtATime, OneStayEach,
                    [Next /\ HistoryStep]_<<vars, before>>
             PROVE  HistoryInvariant' /\ [TakenBack]_<<vars, before>>
  OBVIOUS
<1>1. AloneInvariant'
  <2>1. [Next]_vars
    OBVIOUS
  <2> QED BY <2>1, NextKeepsAlone DEF HistoryInvariant
<1>2. CASE UNCHANGED <<vars, before>>
  <2>1. UNCHANGED <<status, assigned, housekeeping, log, tx, before>>
    BY <1>2 DEF vars
  <2>2. RoomsApart(assigned)' /\ LastActionKnown'
    BY <2>1 DEF HistoryInvariant, RoomsApart, LastActionKnown, TakesBack
  <2>3. ASSUME NEW s \in Session, tx'[s] # None PROVE Restoring(tx[s])'
    <3>1. Restoring(tx[s])
      BY <2>1, <2>3 DEF HistoryInvariant
    <3> QED BY <2>1, <3>1
            DEF Restoring, RestoringWrites, Remembered, RoomsApart, TakesBack
  <2> QED BY <1>1, <1>2, <2>2, <2>3 DEF HistoryInvariant
<1>3. CASE Next /\ HistoryStep
  <2>1. PICK s \in Session : Commit(s) \/ Remembers(s)
    BY <1>3, ElsewhereRemembers, OperateRemembers, UndoRemembers DEF Next
  <2>2. RememberedRows' /\ TakenBack
    BY <1>3, <2>1, CommitKeepsRemembered, RememberingKeeps
  <2> QED BY <1>1, <2>2 DEF HistoryInvariant, RememberedRows
<1> QED BY <1>2, <1>3

LEMMA InitHistory == HistoryInit => HistoryInvariant
<1> SUFFICES ASSUME HistoryInit PROVE HistoryInvariant
  OBVIOUS
<1>1. AloneInvariant
  BY InitAlone DEF HistoryInit
<1>2. LastActionKnown /\ RoomsApart(assigned) /\ \A s \in Session : tx[s] = None
  BY DEF HistoryInit, Init, LastActionKnown, RoomsApart
<1> QED BY <1>1, <1>2 DEF HistoryInvariant

(* With one request at a time, and one stay for all lines of a             *)
(* reservation, an action undone at once leaves statuses, rooms and        *)
(* housekeeping as they were before it (the reversers of reversers.py).    *)
THEOREM UndoTakesBack == OneAtATime /\ OneStayEach => (HistorySpec => UndoAtOnceRestores)
<1> SUFFICES ASSUME OneAtATime, OneStayEach PROVE HistorySpec => UndoAtOnceRestores
  OBVIOUS
<1>1. HistoryInvariant /\ [Next /\ HistoryStep]_<<vars, before>>
        => HistoryInvariant' /\ [TakenBack]_<<vars, before>>
  BY StepKeepsHistory
<1>2. [TakenBack]_<<vars, before>>
        <=> [\A e \in undone' \ undone :
               before.event = e => Remembered' = before.state]_<<vars, before>>
  BY DEF TakenBack
<1> QED BY <1>1, <1>2, InitHistory, PTL DEF HistorySpec, UndoAtOnceRestores

================================================================================
