------------------------------ MODULE Ledger_proofs ----------------------------
(***************************************************************************)
(* Theorems about Reservations, for any sets of sessions, reservations,    *)
(* rooms, room types, days, blocks and payloads: type correctness, and     *)
(* that the ledger counts exactly the held nights and oversells nothing    *)
(* when no two requests on one reservation overlap (LedgerInvariant is     *)
(* then inductive).                                                        *)
(***************************************************************************)
EXTENDS ReservationsInvariant, Inventory_proofs

--------------------------------------------------------------------------------
(* Operators of the model.                                                 *)

LEMMA RowSupplyType ==
  InventoryTypeOK => \A row \in Row : RowSupply(row) \in SupplyRecord
BY SupplyType DEF RowSupply, Row

LEMMA UnitsOfType ==
  ASSUME NEW L \in SUBSET Line
  PROVE  UnitsOf(L) \subseteq Unit
BY DEF UnitsOf, Unit

LEMMA NewLinesType ==
  ASSUME NEW r \in Reservation, NEW g \in Gen, NEW p \in Payload
  PROVE  NewLines(r, g, p) \subseteq Line
<1>1. p \in Seq(Stay)
  BY PayloadAssumption
<1>2. ASSUME NEW i \in DOMAIN p
      PROVE  i \in Nat /\ p[i] \in [type: RoomType, arrival: Int, departure: Int]
  <2>1. DOMAIN p = 1..Len(p) /\ Len(p) \in Nat
    BY <1>1
  <2>2. p[i] \in Stay
    BY <1>1, <1>2, <2>1
  <2> QED BY <1>2, <2>1, <2>2 DEF Stay
<1> QED BY <1>2 DEF NewLines, Line

LEMMA RowOfType ==
  ASSUME NEW u \in Unit
  PROVE  RowOf(u) \in Row /\ RowOf(u) = <<u.line.type, u.night>>
BY DEF Unit, Line, RowOf, Row

--------------------------------------------------------------------------------
(* Type correctness of the requests, action by action.                     *)

LEMMA OpenType ==
  ASSUME TypeOK, NEW s \in Session, NEW q \in Request, Open(s, q)
  PROVE  TypeOK'
<1>1. InventoryTypeOK'
  BY InventoryUnchangedType DEF TypeOK, Open
<1>2. tx' \in [Session -> Request]
  BY DEF TypeOK, Open
<1>3. [row \in Row |-> {RowSupply(row)}] \in [Row -> SUBSET SupplyRecord]
  BY RowSupplyType DEF TypeOK
<1>4. window' \in [Session -> [Row -> SUBSET SupplyRecord]]
  BY <1>3 DEF TypeOK, Open
<1> QED BY <1>1, <1>2, <1>4 DEF TypeOK, Open

LEMMA IdleType == Idle \in Request
BY DEF Idle, Request, NothingSeen, SupplyRecord

LEMMA LinesOfType ==
  ASSUME TypeOK, NEW r
  PROVE  LinesOf(r) \subseteq Line /\ UnitsOf(LinesOf(r)) \subseteq Unit
BY UnitsOfType DEF TypeOK, LinesOf

LEMMA CreateReservationType ==
  ASSUME TypeOK, NEW s \in Session, NEW r \in Reservation, NEW g \in Gen, NEW p \in Payload,
         NEW st \in Status, CreateReservation(s, r, g, p, st)
  PROVE  TypeOK'
<1> DEFINE new == NewLines(r, g, p)
<1> DEFINE q == [Idle EXCEPT !.open = TRUE, !.targets = {r}, !.writes = st, !.insert = new,
                   !.reserve = IF st \in ACTIVE_STATUSES THEN UnitsOf(new) ELSE {}]
<1>1. new \subseteq Line /\ UnitsOf(new) \subseteq Unit
  BY NewLinesType, UnitsOfType
<1>2. q \in Request
  BY <1>1, IdleType DEF Request
<1>3. Open(s, q)
  BY DEF CreateReservation
<1> QED BY <1>2, <1>3, OpenType

LEMMA MarkType ==
  ASSUME TypeOK, NEW s \in Session, NEW r \in Reservation, NEW from, NEW to \in Status,
         Mark(s, r, from, to)
  PROVE  TypeOK'
<1> DEFINE q == [Idle EXCEPT !.open = TRUE, !.targets = {r}, !.writes = to]
<1>1. q \in Request
  BY IdleType DEF Request
<1>2. Open(s, q)
  BY DEF Mark
<1> QED BY <1>1, <1>2, OpenType

LEMMA ConfirmType ==
  ASSUME TypeOK, NEW s \in Session, NEW r \in Reservation, Confirm(s, r)
  PROVE  TypeOK'
<1> DEFINE q == [Idle EXCEPT !.open = TRUE, !.targets = {r}, !.writes = "confirmed",
                   !.reserve = UnitsOf(LinesOf(r))]
<1>1. q \in Request
  BY IdleType, LinesOfType DEF Request, Status
<1>2. Open(s, q)
  BY DEF Confirm
<1> QED BY <1>1, <1>2, OpenType

LEMMA CancelType ==
  ASSUME TypeOK, NEW s \in Session, NEW r \in Reservation, Cancel(s, r)
  PROVE  TypeOK'
<1> DEFINE q == [Idle EXCEPT !.open = TRUE, !.targets = {r}, !.writes = "cancelled",
                   !.release = IF HoldsInventory(r) THEN UnitsOf(LinesOf(r)) ELSE {}]
<1>1. q \in Request
  BY IdleType, LinesOfType DEF Request, Status
<1>2. Open(s, q)
  BY DEF Cancel
<1> QED BY <1>1, <1>2, OpenType

LEMMA NoShowType ==
  ASSUME TypeOK, NEW s \in Session, NEW r \in Reservation, NoShow(s, r)
  PROVE  TypeOK'
<1> DEFINE q == [Idle EXCEPT !.open = TRUE, !.targets = {r}, !.writes = "no_show",
                   !.release = UnitsOf(LinesOf(r))]
<1>1. q \in Request
  BY IdleType, LinesOfType DEF Request, Status
<1>2. Open(s, q)
  BY DEF NoShow
<1> QED BY <1>1, <1>2, OpenType

LEMMA ModifyRoomsType ==
  ASSUME TypeOK, NEW s \in Session, NEW r \in Reservation, NEW g \in Gen, NEW p \in Payload,
         ModifyRooms(s, r, g, p)
  PROVE  TypeOK'
<1> DEFINE new == NewLines(r, g, p)
<1> DEFINE held(U) == IF HoldsInventory(r) THEN U ELSE {}
<1> DEFINE q == [Idle EXCEPT !.open = TRUE, !.targets = {r},
                   !.delete = LinesOf(r), !.insert = new,
                   !.release = held(UnitsOf(LinesOf(r))),
                   !.reserve = held(UnitsOf(new))]
<1>1. new \subseteq Line /\ UnitsOf(new) \subseteq Unit
  BY NewLinesType, UnitsOfType
<1>2. held(UnitsOf(LinesOf(r))) \subseteq Unit /\ held(UnitsOf(new)) \subseteq Unit
  BY <1>1, LinesOfType
<1>3. q \in Request
  <2> HIDE DEF held, new
  <2> QED BY <1>1, <1>2, IdleType, LinesOfType DEF Request
<1>4. Open(s, q)
  BY DEF ModifyRooms
<1> QED BY <1>3, <1>4, OpenType

LEMMA SubmitType ==
  ASSUME TypeOK, NEW s \in Session, Submit(s)
  PROVE  TypeOK'
<1>1. ASSUME NEW r \in Reservation, NEW g \in Gen, NEW p \in Payload,
             NEW st \in {"inquiry", "confirmed"}, CreateReservation(s, r, g, p, st)
      PROVE  TypeOK'
  BY <1>1, CreateReservationType DEF Status
<1>2. ASSUME NEW r \in Reservation, NEW g \in Gen, NEW p \in Payload, WalkIn(s, r, g, p)
      PROVE  TypeOK'
  BY <1>2, CreateReservationType DEF WalkIn, Status
<1>3. ASSUME NEW r \in Reservation,
             CheckIn(s, r) \/ CheckOut(s, r) \/ UndoCheckIn(s, r) \/ UndoCheckOut(s, r)
      PROVE  TypeOK'
  BY <1>3, MarkType DEF CheckIn, CheckOut, UndoCheckIn, UndoCheckOut, Status
<1> QED BY <1>1, <1>2, <1>3, ModifyRoomsType, ConfirmType, CancelType, NoShowType DEF Submit

LEMMA SweepType ==
  ASSUME TypeOK, NEW s \in Session, RunSweep(s)
  PROVE  TypeOK'
<1>1. PICK asOf \in Day : Sweep(s, asOf)
  BY Zenon DEF RunSweep
<1> DEFINE q == [Idle EXCEPT !.open = TRUE, !.targets = Stale(asOf), !.writes = "no_show",
                   !.todo = Stale(asOf)]
<1>2. q \in Request
  BY IdleType DEF Request, Status, Stale
<1>3. Open(s, q)
  BY <1>1 DEF Sweep
<1> QED BY <1>2, <1>3, OpenType

(* A step of an open request that changes only its own record, row locks   *)
(* and what it would write to the rows it has locked.                      *)
LEMMA StepType ==
  ASSUME TypeOK, NEW s \in Session, NEW q \in Request,
         tx' = [tx EXCEPT ![s] = q],
         lock' \in [Row -> Session \cup {NoSession}],
         draft' \in [Row -> Nat],
         UNCHANGED <<inventory, status, lines, sold, window>>
  PROVE  TypeOK'
<1>1. InventoryTypeOK'
  BY InventoryUnchangedType DEF TypeOK
<1> QED BY <1>1 DEF TypeOK

LEMMA SweepNextType ==
  ASSUME TypeOK, NEW s \in Session, NEW r \in Reservation, SweepNext(s, r)
  PROVE  TypeOK'
<1> DEFINE q == [tx[s] EXCEPT !.todo = @ \ {r}, !.release = @ \cup UnitsOf(LinesOf(r))]
<1>1. tx[s] \in Request
  BY DEF TypeOK
<1>2. q \in Request
  BY <1>1, LinesOfType DEF Request
<1>3. tx' = [tx EXCEPT ![s] = q]
  BY <1>1 DEF SweepNext, TypeOK
<1> QED BY <1>2, <1>3, StepType DEF SweepNext, TypeOK

LEMMA ReleaseUnitType ==
  ASSUME TypeOK, NEW s \in Session, ReleaseUnit(s)
  PROVE  TypeOK'
<1>1. PICK u \in tx[s].release : ReleaseUnit(s)!(u)
  BY DEF ReleaseUnit
<1> DEFINE q == [tx[s] EXCEPT !.done = @ \cup {u}]
<1>2. tx[s] \in Request /\ u \in Unit
  BY DEF TypeOK, Request
<1>3. q \in Request
  BY <1>2 DEF Request
<1>4. tx' = [tx EXCEPT ![s] = q]
  BY <1>1, <1>2 DEF TypeOK
<1>5. RowOf(u) \in Row
  BY <1>2, RowOfType
<1>6. lock' \in [Row -> Session \cup {NoSession}]
  BY <1>1 DEF TypeOK
<1>7. Released(draft[RowOf(u)]) \in Nat
  BY <1>5 DEF TypeOK, Released, Max2
<1>8. draft' \in [Row -> Nat]
  BY <1>1, <1>7 DEF TypeOK
<1> QED BY <1>1, <1>3, <1>4, <1>6, <1>8, StepType

LEMMA LoadRoomTypeType ==
  ASSUME TypeOK, NEW s \in Session, LoadRoomType(s)
  PROVE  TypeOK'
<1>1. PICK u \in tx[s].reserve : LoadRoomType(s)!(u)
  BY DEF LoadRoomType
<1> DEFINE q == [tx[s] EXCEPT !.rt = u.line, !.seen.allowance = allowance[u.line.type]]
<1>2. tx[s] \in Request /\ u \in Unit
  BY DEF TypeOK, Request
<1>3. u.line \in Line /\ allowance[u.line.type] \in Nat
  BY <1>2 DEF TypeOK, InventoryTypeOK, Unit, Line
<1>4. q \in Request
  BY <1>2, <1>3 DEF Request, SupplyRecord
<1>5. tx' = [tx EXCEPT ![s] = q]
  BY <1>1, <1>2 DEF TypeOK
<1> QED BY <1>1, <1>4, <1>5, StepType DEF TypeOK

LEMMA LockAndCountRoomsType ==
  ASSUME TypeOK, NEW s \in Session, LockAndCountRooms(s)
  PROVE  TypeOK'
<1>1. PICK u \in tx[s].reserve : LockAndCountRooms(s)!(u)
  BY DEF LockAndCountRooms
<1> DEFINE n == ActiveRoomCount(RowOf(u)[1])
<1> DEFINE q == [tx[s] EXCEPT !.counts = 1, !.seen.active = n]
<1>2. tx[s] \in Request /\ u \in Unit
  BY DEF TypeOK, Request
<1>3. n \in Nat
  <2>1. RowOf(u)[1] \in RoomType /\ RowOf(u)[2] \in Day
    BY <1>2, RowOfType DEF Row
  <2>2. Supply(RowOf(u)[1], RowOf(u)[2]) \in SupplyRecord
    BY <2>1, SupplyType DEF TypeOK
  <2> QED BY <2>2 DEF Supply, SupplyRecord
<1>4. q \in Request
  <2> HIDE DEF n
  <2> QED BY <1>2, <1>3 DEF Request, SupplyRecord
<1>5. tx' = [tx EXCEPT ![s] = q]
  BY <1>1, <1>2 DEF TypeOK
<1>6. lock' \in [Row -> Session \cup {NoSession}]
  BY <1>1 DEF TypeOK
<1> QED BY <1>1, <1>4, <1>5, <1>6, StepType DEF TypeOK

LEMMA CountRoomBlocksType ==
  ASSUME TypeOK, NEW s \in Session, CountRoomBlocks(s)
  PROVE  TypeOK'
<1>1. PICK u \in tx[s].reserve : CountRoomBlocks(s)!(u)
  BY DEF CountRoomBlocks
<1> DEFINE n == RoomBlocks(u.line.type, u.night)
<1> DEFINE q == [tx[s] EXCEPT !.counts = 2, !.seen.roomBlocks = n]
<1>2. tx[s] \in Request /\ u \in Unit
  BY DEF TypeOK, Request
<1>3. n \in Nat
  <2>1. u.line.type \in RoomType /\ u.night \in Day
    BY <1>2 DEF Unit, Line
  <2>2. Supply(u.line.type, u.night) \in SupplyRecord
    BY <2>1, SupplyType DEF TypeOK
  <2> QED BY <2>2 DEF Supply, SupplyRecord
<1>4. q \in Request
  <2> HIDE DEF n
  <2> QED BY <1>2, <1>3 DEF Request, SupplyRecord
<1>5. tx' = [tx EXCEPT ![s] = q]
  BY <1>1, <1>2 DEF TypeOK
<1> QED BY <1>1, <1>4, <1>5, StepType DEF TypeOK

LEMMA ReserveUnitType ==
  ASSUME TypeOK, NEW s \in Session, ReserveUnit(s)
  PROVE  TypeOK'
<1>1. PICK u \in tx[s].reserve : ReserveUnit(s)!(u)
  BY DEF ReserveUnit
<1> DEFINE seen == IF LastNight(u) THEN NothingSeen
                   ELSE [NothingSeen EXCEPT !.allowance = tx[s].seen.allowance]
<1> DEFINE rt == IF LastNight(u) THEN None ELSE tx[s].rt
<1> DEFINE q == [tx[s] EXCEPT !.done = @ \cup {u}, !.counts = 0, !.rt = rt, !.seen = seen]
<1>2. tx[s] \in Request /\ u \in Unit
  BY DEF TypeOK, Request
<1>3. seen \in SupplyRecord /\ rt \in Line \cup {None}
  BY <1>2 DEF Request, SupplyRecord, NothingSeen
<1>4. q \in Request
  <2> HIDE DEF seen, rt
  <2> QED BY <1>2, <1>3 DEF Request
<1>5. tx' = [tx EXCEPT ![s] = q]
  BY <1>1, <1>2 DEF TypeOK
<1>6. Reserved(draft[RowOf(u)]) \in Nat
  BY <1>2, RowOfType DEF TypeOK, Reserved
<1>7. draft' \in [Row -> Nat]
  BY <1>1, <1>6 DEF TypeOK
<1> QED BY <1>1, <1>4, <1>5, <1>7, StepType DEF TypeOK

LEMMA CloseType ==
  ASSUME TypeOK, NEW s \in Session, Close(s),
         status' \in [Reservation -> Status], lines' \subseteq Line,
         sold' \in [Row -> Nat], draft' \in [Row -> Nat]
  PROVE  TypeOK'
<1>1. InventoryTypeOK'
  BY InventoryUnchangedType DEF TypeOK, Close
<1>2. tx' \in [Session -> Request]
  BY IdleType DEF TypeOK, Close
<1>3. lock' \in [Row -> Session \cup {NoSession}]
  BY DEF TypeOK, Close, Unlocked
<1>4. window' \in [Session -> [Row -> SUBSET SupplyRecord]]
  BY DEF TypeOK, Close, NoWindow
<1> QED BY <1>1, <1>2, <1>3, <1>4 DEF TypeOK

LEMMA CommitType ==
  ASSUME TypeOK, NEW s \in Session, Commit(s)
  PROVE  TypeOK'
<1>1. tx[s] \in Request
  BY DEF TypeOK
<1>2. \A r \in Reservation : Written(s, r) \in Status
  BY <1>1 DEF TypeOK, Written, Request
<1>3. status' \in [Reservation -> Status]
  BY <1>2 DEF Commit
<1>4. lines' \subseteq Line
  BY <1>1 DEF TypeOK, Commit, Request
<1>5. sold' \in [Row -> Nat] /\ draft' \in [Row -> Nat]
  BY DEF TypeOK, Commit
<1> QED BY <1>3, <1>4, <1>5, CloseType DEF Commit

LEMMA RollbackType ==
  ASSUME TypeOK, NEW s \in Session, Rollback(s)
  PROVE  TypeOK'
BY CloseType DEF TypeOK, Rollback

LEMMA EditInventoryType ==
  ASSUME TypeOK, EditInventory
  PROVE  TypeOK'
<1>1. InventoryTypeOK'
  BY InventoryNextType DEF TypeOK, EditInventory
<1>2. (InventoryTypeOK => \A row \in Row : RowSupply(row) \in SupplyRecord)'
  BY RowSupplyType, PTL
<1>3. window' \in [Session -> [Row -> SUBSET SupplyRecord]]
  BY <1>1, <1>2 DEF TypeOK, EditInventory
<1> QED BY <1>1, <1>3 DEF TypeOK, EditInventory

LEMMA InitType == Init => TypeOK
<1> SUFFICES ASSUME Init PROVE TypeOK
  OBVIOUS
<1>1. InventoryTypeOK
  BY InventoryInitType DEF Init
<1>2. tx \in [Session -> Request]
  BY IdleType DEF Init
<1> QED BY <1>1, <1>2 DEF Init, TypeOK, Status, NoWindow

LEMMA NextType == TypeOK /\ [Next]_vars => TypeOK'
<1> SUFFICES ASSUME TypeOK, [Next]_vars PROVE TypeOK'
  OBVIOUS
<1>1. CASE UNCHANGED vars
  <2>1. InventoryTypeOK'
    BY <1>1, InventoryUnchangedType DEF TypeOK, vars
  <2> QED BY <1>1, <2>1 DEF TypeOK, vars, reservationVars
<1>2. ASSUME NEW s \in Session, Proceed(s)
      PROVE  TypeOK'
  <2>1. CASE Refuse(s)
    BY <2>1, RollbackType DEF Refuse
  <2> QED BY <1>2, <2>1, SweepNextType, ReleaseUnitType, LoadRoomTypeType,
             LockAndCountRoomsType, CountRoomBlocksType, ReserveUnitType, CommitType
          DEF Proceed
<1>3. ASSUME NEW s \in Session, Fail(s) \/ DeadlockVictim(s)
      PROVE  TypeOK'
  BY <1>3, RollbackType DEF Fail, DeadlockVictim
<1> QED BY <1>1, <1>2, <1>3, SubmitType, SweepType, EditInventoryType DEF Next

(* Whatever requests run, in whatever order their steps interleave, the    *)
(* ledger rows stay natural numbers (release cannot take a counter below   *)
(* zero), only known sessions own row locks, and every record keeps its    *)
(* shape.                                                                  *)
THEOREM TypeCorrect == Spec => []TypeOK
BY InitType, NextType, PTL DEF Spec

--------------------------------------------------------------------------------
(* Units, and how many of them there are.                                  *)

LEMMA UnitsOfMember ==
  ASSUME NEW L \in SUBSET Line
  PROVE  \A u : u \in UnitsOf(L) <=>
           u \in Unit /\ u.line \in L /\ u.night \in Nights(u.line.arrival, u.line.departure)
BY DEF UnitsOf, Unit

LEMMA UnitsAtFinite ==
  ASSUME NEW L \in SUBSET Line, IsFiniteSet(L), NEW row \in Row
  PROVE  IsFiniteSet(UnitsAt(row, UnitsOf(L)))
<1> DEFINE f == [l \in L |-> [line |-> l, night |-> row[2]]]
<1> DEFINE T == {f[l] : l \in L}
<1>1. f \in Surjection(L, T)
  BY DEF Surjection
<1>2. IsFiniteSet(T)
  BY <1>1, FS_Surjection
<1>3. UnitsAt(row, UnitsOf(L)) \subseteq T
  <2> SUFFICES ASSUME NEW u \in UnitsAt(row, UnitsOf(L)) PROVE u \in T
    OBVIOUS
  <2>1. u \in [line: L, night: Day] /\ row = <<u.line.type, u.night>>
    BY DEF UnitsAt, UnitsOf, RowOf
  <2>2. u = f[u.line]
    BY <2>1
  <2> QED BY <2>1, <2>2
<1> QED BY <1>2, <1>3, FS_Subset

LEMMA CountedMember ==
  TypeOK =>
    \A u : u \in CountedUnits <=>
      /\ u \in Unit /\ u.line \in lines
      /\ status[u.line.res] \in CountedStatuses
      /\ u.night \in Nights(u.line.arrival, u.line.departure)
<1> SUFFICES ASSUME TypeOK
             PROVE  \A u : u \in CountedUnits <=>
                      /\ u \in Unit /\ u.line \in lines
                      /\ status[u.line.res] \in CountedStatuses
                      /\ u.night \in Nights(u.line.arrival, u.line.departure)
  OBVIOUS
<1> DEFINE L == {l \in lines : status[l.res] \in CountedStatuses}
<1>1. L \in SUBSET Line
  BY DEF TypeOK
<1>2. \A u : u \in UnitsOf(L) <=>
        u \in Unit /\ u.line \in L /\ u.night \in Nights(u.line.arrival, u.line.departure)
  BY <1>1, UnitsOfMember
<1>3. CountedUnits = UnitsOf(L)
  BY DEF CountedUnits
<1> QED BY <1>2, <1>3

LEMMA AfterMember ==
  TypeOK =>
    \A x \in Session : \A u : u \in UnitsOf(LinesAfter(x)) <=>
      /\ u \in Unit /\ u.line \in (lines \ tx[x].delete) \cup tx[x].insert
      /\ Written(x, u.line.res) \in CountedStatuses
      /\ u.night \in Nights(u.line.arrival, u.line.departure)
<1> SUFFICES ASSUME TypeOK, NEW x \in Session
             PROVE  \A u : u \in UnitsOf(LinesAfter(x)) <=>
                      /\ u \in Unit /\ u.line \in (lines \ tx[x].delete) \cup tx[x].insert
                      /\ Written(x, u.line.res) \in CountedStatuses
                      /\ u.night \in Nights(u.line.arrival, u.line.departure)
  OBVIOUS
<1>1. LinesAfter(x) \in SUBSET Line
  BY DEF TypeOK, LinesAfter, Request
<1>2. \A u : u \in UnitsOf(LinesAfter(x)) <=>
        /\ u \in Unit /\ u.line \in LinesAfter(x)
        /\ u.night \in Nights(u.line.arrival, u.line.departure)
  BY <1>1, UnitsOfMember
<1> QED BY <1>2 DEF LinesAfter

(* The same after a step.                                                  *)
LEMMA MembersNext ==
  TypeOK' =>
    /\ \A u : u \in CountedUnits' <=>
         /\ u \in Unit /\ u.line \in lines'
         /\ status'[u.line.res] \in CountedStatuses
         /\ u.night \in Nights(u.line.arrival, u.line.departure)
    /\ \A x \in Session : \A u : u \in UnitsOf(LinesAfter(x))' <=>
         /\ u \in Unit /\ u.line \in (lines' \ tx'[x].delete) \cup tx'[x].insert
         /\ Written(x, u.line.res)' \in CountedStatuses
         /\ u.night \in Nights(u.line.arrival, u.line.departure)
<1>1. (TypeOK => \A u : u \in CountedUnits <=>
         /\ u \in Unit /\ u.line \in lines
         /\ status[u.line.res] \in CountedStatuses
         /\ u.night \in Nights(u.line.arrival, u.line.departure))'
  BY CountedMember, PTL
<1>2. (TypeOK => \A x \in Session : \A u : u \in UnitsOf(LinesAfter(x)) <=>
         /\ u \in Unit /\ u.line \in (lines \ tx[x].delete) \cup tx[x].insert
         /\ Written(x, u.line.res) \in CountedStatuses
         /\ u.night \in Nights(u.line.arrival, u.line.departure))'
  BY AfterMember, PTL
<1> QED BY <1>1, <1>2

(* The rows' counts are counts of finite sets.                             *)
LEMMA CountedAtFinite ==
  ASSUME TypeOK, FinitelyMany, NEW row \in Row
  PROVE  IsFiniteSet(UnitsAt(row, CountedUnits))
<1> DEFINE L == {l \in lines : status[l.res] \in CountedStatuses}
<1>1. L \in SUBSET Line /\ IsFiniteSet(L)
  BY FS_Subset DEF TypeOK, FinitelyMany
<1> QED BY <1>1, UnitsAtFinite DEF CountedUnits

LEMMA CountedAfterAtFinite ==
  ASSUME TypeOK, FinitelyMany, NEW s \in Session, NEW row \in Row
  PROVE  IsFiniteSet(UnitsAt(row, CountedAfter(s)))
<1>1. IsFiniteSet(UnitsAt(row, CountedUnits) \cup UnitsAt(row, tx[s].reserve))
  BY CountedAtFinite, FS_Union DEF FinitelyMany
<1>2. UnitsAt(row, CountedAfter(s)) \subseteq
        UnitsAt(row, CountedUnits) \cup UnitsAt(row, tx[s].reserve)
  BY DEF UnitsAt, CountedAfter
<1> QED BY <1>1, <1>2, FS_Subset

--------------------------------------------------------------------------------
(* The order in which a request visits its units.                          *)

LEMMA ReleaseReserveApart ==
  ASSUME NEW s \in Session, PlanMatchesLedger(s)
  PROVE  tx[s].release \cap tx[s].reserve = {}
BY DEF PlanMatchesLedger

LEMMA PendingType ==
  ASSUME TypeOK, NEW s \in Session
  PROVE  Pending(s) \subseteq Unit
BY DEF TypeOK, Request, Pending

LEMMA LineBeforeAsymmetric ==
  ASSUME NEW l \in Line, NEW m \in Line, LineBefore(l, m)
  PROVE  ~LineBefore(m, l) /\ l # m
<1>1. l.gen \in Nat /\ m.gen \in Nat /\ l.k \in Nat /\ m.k \in Nat
  BY GenAssumption DEF Line
<1> QED BY <1>1 DEF LineBefore

(* At most one unit is first.                                              *)
LEMMA FirstOnly ==
  ASSUME TypeOK, NEW s \in Session, tx[s].release \cap tx[s].reserve = {},
         NEW u, NEW v, First(s, u), First(s, v)
  PROVE  u = v
<1> SUFFICES ASSUME u # v PROVE FALSE
  OBVIOUS
<1>1. u \in Unit /\ v \in Unit
  BY PendingType DEF First
<1>2. u.line \in Line /\ v.line \in Line /\ u.night \in Int /\ v.night \in Int
  BY <1>1, SetsAssumption DEF Unit
<1>3. Before(s, u, v) /\ Before(s, v, u)
  BY DEF First
<1>4. u \in tx[s].release <=> v \in tx[s].release
  BY <1>3 DEF Before
<1>5. /\ LineBefore(u.line, v.line) \/ (u.line = v.line /\ u.night < v.night)
      /\ LineBefore(v.line, u.line) \/ (v.line = u.line /\ v.night < u.night)
  BY <1>3, <1>4 DEF Before
<1>6. ~(u.night < v.night /\ v.night < u.night)
  BY <1>2
<1> QED BY <1>2, <1>5, <1>6, LineBeforeAsymmetric

LEMMA FirstUnique ==
  ASSUME TypeOK, NEW s \in Session, PlanMatchesLedger(s),
         NEW u, NEW v, First(s, u), First(s, v)
  PROVE  u = v
BY ReleaseReserveApart, FirstOnly

--------------------------------------------------------------------------------
(* Steps of other requests leave a request's plan as it was.               *)

(* Which of its own units a request finds counted, and which it will       *)
(* leave counted, depends on its own reservations only.                    *)
LEMMA FrameMembers ==
  ASSUME TypeOK, TypeOK', NEW o \in Session, PlanIsLocal(o), tx'[o] = tx[o],
         \A r \in tx[o].targets : status'[r] = status[r],
         \A l \in Line : l.res \in tx[o].targets => (l \in lines' <=> l \in lines)
  PROVE  /\ OfTargets(o, CountedUnits)' = OfTargets(o, CountedUnits)
         /\ OfTargets(o, UnitsOf(LinesAfter(o)))' = OfTargets(o, UnitsOf(LinesAfter(o)))
<1>1. \A u : u \in CountedUnits' <=>
        /\ u \in Unit /\ u.line \in lines'
        /\ status'[u.line.res] \in CountedStatuses
        /\ u.night \in Nights(u.line.arrival, u.line.departure)
  BY MembersNext
<1>2. \A u : u \in UnitsOf(LinesAfter(o))' <=>
        /\ u \in Unit /\ u.line \in (lines' \ tx'[o].delete) \cup tx'[o].insert
        /\ Written(o, u.line.res)' \in CountedStatuses
        /\ u.night \in Nights(u.line.arrival, u.line.departure)
  BY MembersNext
<1>3. \A u \in Unit : u.line \in Line
  BY DEF Unit
<1>4. \A r \in tx[o].targets : Written(o, r)' = Written(o, r)
  BY DEF Written
<1>5. ASSUME NEW u, u \in Unit => u.line.res \in tx[o].targets
      PROVE  u \in CountedUnits' <=> u \in CountedUnits
  BY <1>1, <1>3, <1>5, CountedMember
<1>6. ASSUME NEW u, u \in Unit => u.line.res \in tx[o].targets
      PROVE  u \in UnitsOf(LinesAfter(o))' <=> u \in UnitsOf(LinesAfter(o))
  <2>1. u \in UnitsOf(LinesAfter(o)) <=>
          /\ u \in Unit /\ u.line \in (lines \ tx[o].delete) \cup tx[o].insert
          /\ Written(o, u.line.res) \in CountedStatuses
          /\ u.night \in Nights(u.line.arrival, u.line.departure)
    BY AfterMember
  <2>2. u \in UnitsOf(LinesAfter(o))' <=>
          /\ u \in Unit /\ u.line \in (lines' \ tx[o].delete) \cup tx[o].insert
          /\ Written(o, u.line.res)' \in CountedStatuses
          /\ u.night \in Nights(u.line.arrival, u.line.departure)
    BY <1>2
  <2>3. u \in Unit => (u.line \in lines' <=> u.line \in lines)
    BY <1>3, <1>6
  <2> QED BY <1>4, <1>6, <2>1, <2>2, <2>3
<1>7. /\ \A u \in CountedUnits \cup CountedUnits' : u \in Unit
      /\ \A u \in UnitsOf(LinesAfter(o)) \cup UnitsOf(LinesAfter(o))' : u \in Unit
  BY <1>1, <1>2, CountedMember, AfterMember
<1>8. OfTargets(o, CountedUnits)' = OfTargets(o, CountedUnits)
  <2>1. OfTargets(o, CountedUnits)' = {u \in CountedUnits' : u.line.res \in tx[o].targets}
    BY DEF OfTargets
  <2> QED BY <1>5, <1>7, <2>1 DEF OfTargets
<1>9. OfTargets(o, UnitsOf(LinesAfter(o)))' = OfTargets(o, UnitsOf(LinesAfter(o)))
  <2>1. OfTargets(o, UnitsOf(LinesAfter(o)))' =
          {u \in UnitsOf(LinesAfter(o))' : u.line.res \in tx[o].targets}
    BY DEF OfTargets
  <2> QED BY <1>6, <1>7, <2>1 DEF OfTargets
<1> QED BY <1>8, <1>9

(* A request that has not moved is still at the same unit.                 *)
LEMMA FirstStable ==
  ASSUME NEW s \in Session,
         tx'[s].release = tx[s].release, tx'[s].reserve = tx[s].reserve,
         tx'[s].done = tx[s].done
  PROVE  \A u : First(s, u)' <=> First(s, u)
BY DEF First, Pending, Before

LEMMA FramePlan ==
  ASSUME TypeOK, TypeOK', NEW o \in Session, Plan(o), tx'[o] = tx[o],
         \A r \in tx[o].targets : status'[r] = status[r],
         \A l \in Line : l.res \in tx[o].targets => (l \in lines' <=> l \in lines),
         \A row \in Row : lock[row] = o => lock'[row] = o
  PROVE  Plan(o)'
<1> USE DEF Plan
<1>1. /\ OfTargets(o, CountedUnits)' = OfTargets(o, CountedUnits)
      /\ OfTargets(o, UnitsOf(LinesAfter(o)))' = OfTargets(o, UnitsOf(LinesAfter(o)))
  BY FrameMembers
<1>2. tx[o] \in Request
  BY DEF TypeOK
<1>3. PlanIsLocal(o)'
  <2>1. \A l \in tx[o].insert : Written(o, l.res)' = Written(o, l.res)
    BY DEF PlanIsLocal, Written
  <2> QED BY <2>1 DEF PlanIsLocal
<1>4. PlanMatchesLedger(o)'
  <2>1. \A u \in tx[o].release \cup tx[o].reserve : u.line.res \in tx[o].targets
    BY DEF PlanIsLocal
  <2>2. \A u \in tx[o].release \cup tx[o].reserve : u \in CountedUnits' <=> u \in CountedUnits
    BY <1>1, <2>1 DEF OfTargets
  <2> QED BY <2>2 DEF PlanMatchesLedger
<1>5. PlanIsLegal(o)'
  BY DEF PlanIsLegal
<1>6. SweepIsFair(o)'
  BY DEF SweepIsFair, PlanIsLocal
<1>7. PlanBalances(o)'
  BY <1>1 DEF PlanBalances
<1>8. CountingIsLocked(o)'
  <2>1. SUFFICES ASSUME tx[o].counts # 0
                 PROVE  \E u \in tx[o].reserve : First(o, u)' /\ lock'[RowOf(u)] = o
    BY DEF CountingIsLocked
  <2>2. PICK u \in tx[o].reserve : First(o, u) /\ lock[RowOf(u)] = o
    BY <2>1 DEF CountingIsLocked
  <2>3. RowOf(u) \in Row
    BY <1>2, RowOfType DEF Request
  <2> QED BY <2>2, <2>3, FirstStable
<1> QED BY <1>3, <1>4, <1>5, <1>6, <1>7, <1>8

--------------------------------------------------------------------------------
(* Steps of an open request through the ledger.                            *)

(* What the owner of a row, or whoever may lock it next, finds there.      *)
LEMMA DraftFound ==
  ASSUME LedgerInvariant, NEW s \in Session, NEW row \in Row, FreeFor(s, row)
  PROVE  draft[row] = Cardinality(UnitsAt(row, CountedAfter(s)))
<1> USE DEF LedgerInvariant
<1>1. CASE lock[row] = s
  BY <1>1, SessionsAssumption DEF DraftsMatchPlans
<1>2. CASE lock[row] = NoSession
  <2>1. \A u \in tx[s].done : RowOf(u) # row
    BY <1>2, SessionsAssumption DEF LocksInOrder
  <2>2. UnitsAt(row, CountedAfter(s)) = UnitsAt(row, CountedUnits)
    BY <2>1 DEF UnitsAt, CountedAfter
  <2> QED BY <1>2, <2>2 DEF DraftsMatchPlans, LedgerMatchesBookings, HeldCount
<1> QED BY <1>1, <1>2 DEF FreeFor

(* A step that changes neither the plan nor what is committed.             *)
LEMMA StepKeepsPlan ==
  ASSUME TypeOK, TypeOK', NEW s \in Session, Plan(s), UNCHANGED <<status, lines>>,
         tx'[s].targets = tx[s].targets, tx'[s].writes = tx[s].writes,
         tx'[s].todo = tx[s].todo, tx'[s].delete = tx[s].delete,
         tx'[s].insert = tx[s].insert, tx'[s].release = tx[s].release,
         tx'[s].reserve = tx[s].reserve,
         tx'[s].done \subseteq tx[s].release \cup tx[s].reserve,
         CountingIsLocked(s)'
  PROVE  Plan(s)'
<1> USE DEF Plan
<1>1. CountedUnits' = CountedUnits
  BY DEF CountedUnits
<1>2. \A r : Written(s, r)' = Written(s, r)
  BY DEF Written
<1>3. LinesAfter(s)' = LinesAfter(s)
  BY <1>2 DEF LinesAfter
<1>4. OfTargets(s, CountedUnits)' = OfTargets(s, CountedUnits)
  BY <1>1 DEF OfTargets
<1>5. OfTargets(s, UnitsOf(LinesAfter(s)))' = OfTargets(s, UnitsOf(LinesAfter(s)))
  BY <1>3 DEF OfTargets, UnitsOf
<1>6. PlanIsLocal(s)'
  BY <1>2 DEF PlanIsLocal
<1>7. PlanMatchesLedger(s)'
  BY <1>1 DEF PlanMatchesLedger
<1>8. PlanIsLegal(s)' /\ SweepIsFair(s)'
  BY DEF PlanIsLegal, SweepIsFair
<1>9. PlanBalances(s)'
  BY <1>4, <1>5 DEF PlanBalances
<1> QED BY <1>6, <1>7, <1>8, <1>9

(* The same for the whole invariant: what is left to show is that the      *)
(* drafts still match.                                                     *)
LEMMA StepKeepsInvariant ==
  ASSUME LedgerInvariant, TypeOK', NEW s \in Session,
         UNCHANGED <<status, lines, sold>>,
         \A o \in Session \ {s} : tx'[o] = tx[o],
         tx'[s].open, tx'[s].targets = tx[s].targets, tx'[s].insert = tx[s].insert,
         tx'[s].reserve = tx[s].reserve,
         \A row \in Row : lock'[row] = lock[row] \/ (lock[row] = NoSession /\ lock'[row] = s),
         \A u \in tx'[s].done : lock'[RowOf(u)] = s,
         Plan(s)',
         \A row \in Row : IF lock'[row] = s
           THEN draft'[row] = Cardinality(UnitsAt(row, CountedAfter(s)'))
           ELSE draft'[row] = draft[row]
  PROVE  LedgerInvariant'
<1> USE DEF LedgerInvariant
<1>1. CountedUnits' = CountedUnits
  BY DEF CountedUnits
<1>2. FinitelyMany'
  <2>1. \A o \in Session : tx'[o].insert = tx[o].insert /\ tx'[o].reserve = tx[o].reserve
    OBVIOUS
  <2> QED BY <2>1 DEF FinitelyMany, UnitsAt
<1>3. Apart'
  <2>1. \A o \in Session : tx'[o].targets = tx[o].targets
    OBVIOUS
  <2> QED BY <2>1 DEF Apart, Idle
<1>4. NoOrphans'
  BY DEF NoOrphans
<1>5. LocksInOrder'
  <2>1. \A row \in Row : lock'[row] # NoSession => tx'[lock'[row]].open
    <3> SUFFICES ASSUME NEW row \in Row, lock'[row] # NoSession
                 PROVE  tx'[lock'[row]].open
      OBVIOUS
    <3>1. lock[row] \in Session \cup {NoSession}
      BY DEF TypeOK
    <3> QED BY <3>1 DEF LocksInOrder
  <2>2. ASSUME NEW o \in Session, o # s, NEW u \in tx'[o].done
        PROVE  lock'[RowOf(u)] = o
    <3>1. u \in tx[o].done /\ u \in Unit
      BY <2>2 DEF TypeOK, Request
    <3>2. RowOf(u) \in Row /\ lock[RowOf(u)] = o
      BY <3>1, RowOfType DEF LocksInOrder
    <3> QED BY <2>2, <3>2, SessionsAssumption
  <2> QED BY <2>1, <2>2 DEF LocksInOrder
<1>6. ASSUME NEW o \in Session
      PROVE  Plan(o)'
  <2>1. CASE o = s
    BY <2>1
  <2>2. CASE o # s
    <3>1. \A row \in Row : lock[row] = o => lock'[row] = o
      BY <2>2, SessionsAssumption
    <3> QED BY <2>2, <3>1, FramePlan
  <2> QED BY <2>1, <2>2
<1>7. LedgerMatchesBookings'
  BY <1>1 DEF LedgerMatchesBookings, HeldCount, UnitsAt
<1>8. DraftsMatchPlans'
  <2> SUFFICES ASSUME NEW row \in Row
               PROVE  draft'[row] = IF lock'[row] = NoSession THEN sold'[row]
                        ELSE Cardinality(UnitsAt(row, CountedAfter(lock[row])))'
    BY DEF DraftsMatchPlans
  <2>1. CASE lock'[row] = s
    BY <2>1, SessionsAssumption DEF UnitsAt
  <2>2. CASE lock'[row] = NoSession
    BY <2>2, SessionsAssumption DEF DraftsMatchPlans
  <2>3. CASE lock'[row] \notin {s, NoSession}
    <3>1. lock'[row] = lock[row] /\ lock[row] \in Session \ {s}
      BY <2>3 DEF TypeOK
    <3>2. CountedAfter(lock[row])' = CountedAfter(lock[row])
      BY <1>1, <3>1 DEF CountedAfter
    <3>3. UnitsAt(row, CountedAfter(lock[row]))' = UnitsAt(row, CountedAfter(lock[row]))
      BY <3>2 DEF UnitsAt
    <3> QED BY <2>3, <3>1, <3>3, SessionsAssumption DEF DraftsMatchPlans
  <2> QED BY <2>1, <2>2, <2>3
<1> QED BY <1>2, <1>3, <1>4, <1>5, <1>6, <1>7, <1>8

(* Taking a unit off a row that counts it, and adding one it does not.     *)
LEMMA UnitsAtRemove ==
  ASSUME NEW U, NEW u \in U, NEW row, IsFiniteSet(UnitsAt(row, U)), RowOf(u) = row
  PROVE  /\ Cardinality(UnitsAt(row, U \ {u})) = Cardinality(UnitsAt(row, U)) - 1
         /\ Cardinality(UnitsAt(row, U)) \in Nat \ {0}
<1>1. UnitsAt(row, U \ {u}) = UnitsAt(row, U) \ {u} /\ u \in UnitsAt(row, U)
  BY DEF UnitsAt
<1>2. Cardinality(UnitsAt(row, U)) \in Nat
  BY FS_CardinalityType
<1>3. Cardinality(UnitsAt(row, U)) # 0
  BY <1>1, FS_EmptySet
<1> QED BY <1>1, <1>2, <1>3, FS_RemoveElement

LEMMA UnitsAtAdd ==
  ASSUME NEW U, NEW u, u \notin U, NEW row, IsFiniteSet(UnitsAt(row, U)), RowOf(u) = row
  PROVE  Cardinality(UnitsAt(row, U \cup {u})) = Cardinality(UnitsAt(row, U)) + 1
<1>1. UnitsAt(row, U \cup {u}) = UnitsAt(row, U) \cup {u} /\ u \notin UnitsAt(row, U)
  BY DEF UnitsAt
<1> QED BY <1>1, FS_AddElement

(* A unit elsewhere does not count here.                                   *)
LEMMA UnitsAtElsewhere ==
  ASSUME NEW U, NEW u, NEW row, RowOf(u) # row
  PROVE  UnitsAt(row, U \ {u}) = UnitsAt(row, U) /\ UnitsAt(row, U \cup {u}) = UnitsAt(row, U)
BY DEF UnitsAt

(* A request still holds the unit it is about to release, so the counter   *)
(* of its row is not zero and the release takes one off.                   *)
LEMMA ReleaseTakesOne ==
  ASSUME LedgerInvariant, NEW s \in Session, NEW u \in tx[s].release, ReleaseUnit(s)!(u)
  PROVE  /\ u \in CountedAfter(s) /\ u \notin tx[s].reserve
         /\ RowOf(u) \in Row
         /\ draft[RowOf(u)] = Cardinality(UnitsAt(RowOf(u), CountedAfter(s)))
         /\ Cardinality(UnitsAt(RowOf(u), CountedAfter(s) \ {u})) = draft[RowOf(u)] - 1
         /\ draft[RowOf(u)] \in Nat \ {0}
         /\ draft'[RowOf(u)] = draft[RowOf(u)] - 1
<1> USE DEF LedgerInvariant
<1> DEFINE row == RowOf(u)
<1>1. row \in Row
  BY RowOfType DEF TypeOK, Request
<1>2. u \notin tx[s].done /\ Plan(s)
  BY DEF AtLock, First, Pending, Plan
<1>3. u \in CountedUnits /\ u \notin tx[s].reserve
  BY <1>2 DEF Plan, PlanMatchesLedger
<1>4. u \in CountedAfter(s)
  BY <1>2, <1>3 DEF CountedAfter
<1>5. draft[row] = Cardinality(UnitsAt(row, CountedAfter(s)))
  BY <1>1, DraftFound
<1>6. IsFiniteSet(UnitsAt(row, CountedAfter(s)))
  BY <1>1, CountedAfterAtFinite
<1>7. /\ Cardinality(UnitsAt(row, CountedAfter(s) \ {u})) =
             Cardinality(UnitsAt(row, CountedAfter(s))) - 1
      /\ Cardinality(UnitsAt(row, CountedAfter(s))) \in Nat \ {0}
  BY <1>4, <1>6, UnitsAtRemove
<1>8. draft'[row] = Released(draft[row])
  BY <1>1 DEF TypeOK
<1>9. draft'[row] = draft[row] - 1
  BY <1>5, <1>7, <1>8 DEF Released, Max2
<1> QED BY <1>1, <1>3, <1>4, <1>5, <1>7, <1>9

LEMMA ReleaseUnitKeepsInvariant ==
  ASSUME LedgerInvariant, TypeOK', NEW s \in Session, ReleaseUnit(s)
  PROVE  LedgerInvariant'
<1> USE DEF LedgerInvariant
<1>1. PICK u \in tx[s].release : ReleaseUnit(s)!(u)
  BY DEF ReleaseUnit
<1> DEFINE row0 == RowOf(u)
<1>2. tx[s] \in Request /\ u \in Unit /\ row0 \in Row
  BY RowOfType DEF TypeOK, Request
<1>3. First(s, u) /\ u \in Pending(s) /\ u \notin tx[s].done
  BY <1>1 DEF AtLock, First, Pending
<1>4. PlanMatchesLedger(s) /\ CountingIsLocked(s) /\ Plan(s)
  BY DEF Plan
<1>5. u \in CountedUnits /\ u \notin tx[s].reserve
  BY <1>4 DEF PlanMatchesLedger
<1>6. tx' = [tx EXCEPT ![s] = [tx[s] EXCEPT !.done = tx[s].done \cup {u}]]
  BY <1>1 DEF TypeOK
<1>7. /\ tx'[s] = [tx[s] EXCEPT !.done = tx[s].done \cup {u}]
      /\ \A o \in Session \ {s} : tx'[o] = tx[o]
  BY <1>6 DEF TypeOK
<1>8. /\ tx'[s].targets = tx[s].targets /\ tx'[s].writes = tx[s].writes
      /\ tx'[s].todo = tx[s].todo /\ tx'[s].delete = tx[s].delete
      /\ tx'[s].insert = tx[s].insert /\ tx'[s].release = tx[s].release
      /\ tx'[s].reserve = tx[s].reserve /\ tx'[s].open = tx[s].open
      /\ tx'[s].counts = tx[s].counts
      /\ tx'[s].done = tx[s].done \cup {u}
  BY <1>2, <1>7 DEF Request
<1>9. CountingIsLocked(s)'
  <2>1. tx[s].counts = 0
    BY <1>3, <1>4, <1>5, FirstUnique DEF CountingIsLocked
  <2> QED BY <1>8, <2>1 DEF CountingIsLocked
<1>10. Plan(s)'
  BY <1>1, <1>4, <1>8, <1>9, StepKeepsPlan DEF PlanMatchesLedger
<1>11. \A row \in Row : lock'[row] = IF row = row0 THEN s ELSE lock[row]
  BY <1>1, <1>2 DEF TypeOK
<1>12. tx[s].open
  BY <1>1 DEF Apart, Idle
<1>13. CountedAfter(s)' = CountedAfter(s) \ {u}
  <2>1. CountedUnits' = CountedUnits
    BY <1>1 DEF CountedUnits
  <2> QED BY <1>3, <1>5, <1>8, <2>1 DEF CountedAfter
<1>14. u \in CountedAfter(s)
  BY <1>3, <1>5 DEF CountedAfter
<1>15. \A v \in tx'[s].done : lock'[RowOf(v)] = s
  <2> SUFFICES ASSUME NEW v \in tx[s].done PROVE lock'[RowOf(v)] = s
    BY <1>2, <1>8, <1>11
  <2>1. RowOf(v) \in Row
    BY <1>2, RowOfType DEF Request
  <2> QED BY <1>11, <2>1 DEF LocksInOrder
<1>16. \A row \in Row : IF lock'[row] = s
         THEN draft'[row] = Cardinality(UnitsAt(row, CountedAfter(s)'))
         ELSE draft'[row] = draft[row]
  <2> SUFFICES ASSUME NEW row \in Row
               PROVE  IF lock'[row] = s
                      THEN draft'[row] = Cardinality(UnitsAt(row, CountedAfter(s)'))
                      ELSE draft'[row] = draft[row]
    OBVIOUS
  <2>1. CASE row = row0
    <3>1. draft'[row] = Cardinality(UnitsAt(row, CountedAfter(s) \ {u}))
      BY <1>1, <2>1, ReleaseTakesOne
    <3> QED BY <1>11, <1>13, <2>1, <3>1
  <2>2. CASE row # row0
    <3>1. draft'[row] = draft[row] /\ lock'[row] = lock[row]
      BY <1>1, <1>11, <2>2 DEF TypeOK
    <3>2. UnitsAt(row, CountedAfter(s) \ {u}) = UnitsAt(row, CountedAfter(s))
      BY <2>2, UnitsAtElsewhere
    <3> QED BY <1>13, <3>1, <3>2, DraftFound DEF FreeFor
  <2> QED BY <2>1, <2>2
<1>17. \A row \in Row : lock'[row] = lock[row] \/ (lock[row] = NoSession /\ lock'[row] = s)
  BY <1>1, <1>11 DEF FreeFor
<1> QED BY <1>1, <1>7, <1>8, <1>10, <1>12, <1>15, <1>16, <1>17, StepKeepsInvariant

(* A step that only reads, and may lock the row it is about to read.       *)
LEMMA ReadKeepsInvariant ==
  ASSUME LedgerInvariant, TypeOK', NEW s \in Session, NEW q, q = tx'[s],
         \A o \in Session \ {s} : tx'[o] = tx[o], tx[s].open,
         q.open = tx[s].open, q.targets = tx[s].targets, q.writes = tx[s].writes,
         q.todo = tx[s].todo, q.delete = tx[s].delete, q.insert = tx[s].insert,
         q.release = tx[s].release, q.reserve = tx[s].reserve, q.done = tx[s].done,
         UNCHANGED <<status, lines, sold, draft>>,
         \A row \in Row : lock'[row] = lock[row] \/ (lock[row] = NoSession /\ lock'[row] = s),
         CountingIsLocked(s)'
  PROVE  LedgerInvariant'
<1> USE DEF LedgerInvariant
<1>1. tx'[s] = q
  OBVIOUS
<1>2. Plan(s)'
  BY <1>1, StepKeepsPlan DEF Plan, PlanMatchesLedger
<1>3. CountedAfter(s)' = CountedAfter(s)
  BY <1>1 DEF CountedAfter, CountedUnits
<1>4. \A row \in Row : IF lock'[row] = s
        THEN draft'[row] = Cardinality(UnitsAt(row, CountedAfter(s)'))
        ELSE draft'[row] = draft[row]
  BY <1>3, DraftFound DEF FreeFor
<1>5. \A u \in tx'[s].done : lock'[RowOf(u)] = s
  <2> SUFFICES ASSUME NEW u \in tx[s].done PROVE lock'[RowOf(u)] = s
    BY <1>1
  <2>1. RowOf(u) \in Row
    BY RowOfType DEF TypeOK, Request
  <2> QED BY <2>1, SessionsAssumption DEF LocksInOrder
<1> QED BY <1>1, <1>2, <1>4, <1>5, StepKeepsInvariant

LEMMA LoadRoomTypeKeepsInvariant ==
  ASSUME LedgerInvariant, TypeOK', NEW s \in Session, LoadRoomType(s)
  PROVE  LedgerInvariant'
<1> USE DEF LedgerInvariant
<1>1. PICK u \in tx[s].reserve : LoadRoomType(s)!(u)
  BY DEF LoadRoomType
<1> DEFINE q == tx'[s]
<1>2. tx[s] \in Request /\ tx[s].open
  BY <1>1 DEF TypeOK, Apart, Idle
<1>3. \A o \in Session \ {s} : tx'[o] = tx[o]
  BY <1>1 DEF TypeOK
<1>4. /\ q.open = tx[s].open /\ q.targets = tx[s].targets /\ q.writes = tx[s].writes
      /\ q.todo = tx[s].todo /\ q.delete = tx[s].delete /\ q.insert = tx[s].insert
      /\ q.release = tx[s].release /\ q.reserve = tx[s].reserve /\ q.done = tx[s].done
      /\ q.counts = tx[s].counts
  <2>1. q = [tx[s] EXCEPT !.rt = u.line, !.seen.allowance = allowance[u.line.type]]
    BY <1>1 DEF TypeOK
  <2> HIDE DEF q
  <2> QED BY <1>2, <2>1 DEF Request
<1>5. CountingIsLocked(s)'
  BY <1>1, <1>4, FirstStable DEF Plan, CountingIsLocked
<1>6. UNCHANGED <<status, lines, sold, draft, lock>>
  BY <1>1
<1> HIDE DEF LedgerInvariant
<1> QED BY <1>2, <1>3, <1>4, <1>5, <1>6, ReadKeepsInvariant

LEMMA LockAndCountRoomsKeepsInvariant ==
  ASSUME LedgerInvariant, TypeOK', NEW s \in Session, LockAndCountRooms(s)
  PROVE  LedgerInvariant'
<1> USE DEF LedgerInvariant
<1>1. PICK u \in tx[s].reserve : LockAndCountRooms(s)!(u)
  BY DEF LockAndCountRooms
<1> DEFINE q == tx'[s]
<1>2. tx[s] \in Request /\ tx[s].open /\ RowOf(u) \in Row
  BY <1>1, RowOfType DEF TypeOK, Apart, Idle, Request
<1>3. \A o \in Session \ {s} : tx'[o] = tx[o]
  BY <1>1 DEF TypeOK
<1>4. /\ q.open = tx[s].open /\ q.targets = tx[s].targets /\ q.writes = tx[s].writes
      /\ q.todo = tx[s].todo /\ q.delete = tx[s].delete /\ q.insert = tx[s].insert
      /\ q.release = tx[s].release /\ q.reserve = tx[s].reserve /\ q.done = tx[s].done
  <2>1. q = [tx[s] EXCEPT !.counts = 1, !.seen.active = ActiveRoomCount(RowOf(u)[1])]
    BY <1>1 DEF TypeOK
  <2> HIDE DEF q
  <2> QED BY <1>2, <2>1 DEF Request
<1>5. \A row \in Row : lock'[row] = IF row = RowOf(u) THEN s ELSE lock[row]
  BY <1>1, <1>2 DEF TypeOK
<1>6. CountingIsLocked(s)'
  <2>1. First(s, u)'
    BY <1>1, <1>4, FirstStable DEF AtLock
  <2> QED BY <1>2, <1>4, <1>5, <2>1 DEF CountingIsLocked
<1>7. \A row \in Row : lock'[row] = lock[row] \/ (lock[row] = NoSession /\ lock'[row] = s)
  BY <1>1, <1>5 DEF FreeFor
<1>8. UNCHANGED <<status, lines, sold, draft>>
  BY <1>1
<1> HIDE DEF LedgerInvariant
<1> QED BY <1>2, <1>3, <1>4, <1>6, <1>7, <1>8, ReadKeepsInvariant

LEMMA CountRoomBlocksKeepsInvariant ==
  ASSUME LedgerInvariant, TypeOK', NEW s \in Session, CountRoomBlocks(s)
  PROVE  LedgerInvariant'
<1> USE DEF LedgerInvariant
<1>1. PICK u \in tx[s].reserve : CountRoomBlocks(s)!(u)
  BY DEF CountRoomBlocks
<1> DEFINE q == tx'[s]
<1>2. tx[s] \in Request /\ tx[s].open
  BY <1>1 DEF TypeOK, Apart, Idle
<1>3. \A o \in Session \ {s} : tx'[o] = tx[o]
  BY <1>1 DEF TypeOK
<1>4. /\ q.open = tx[s].open /\ q.targets = tx[s].targets /\ q.writes = tx[s].writes
      /\ q.todo = tx[s].todo /\ q.delete = tx[s].delete /\ q.insert = tx[s].insert
      /\ q.release = tx[s].release /\ q.reserve = tx[s].reserve /\ q.done = tx[s].done
  <2>1. q = [tx[s] EXCEPT !.counts = 2, !.seen.roomBlocks = RoomBlocks(u.line.type, u.night)]
    BY <1>1 DEF TypeOK
  <2> HIDE DEF q
  <2> QED BY <1>2, <2>1 DEF Request
<1>5. CountingIsLocked(s)'
  <2>1. PICK v \in tx[s].reserve : First(s, v) /\ lock[RowOf(v)] = s
    BY <1>1 DEF Plan, CountingIsLocked
  <2>2. First(s, v)'
    BY <1>4, <2>1, FirstStable
  <2>3. v \in q.reserve /\ lock'[RowOf(v)] = s
    BY <1>1, <1>4, <2>1
  <2> QED BY <2>2, <2>3 DEF CountingIsLocked
<1>6. UNCHANGED <<status, lines, sold, draft, lock>>
  BY <1>1
<1> HIDE DEF LedgerInvariant
<1> QED BY <1>2, <1>3, <1>4, <1>5, <1>6, ReadKeepsInvariant

LEMMA ReserveUnitKeepsInvariant ==
  ASSUME LedgerInvariant, TypeOK', NEW s \in Session, ReserveUnit(s)
  PROVE  LedgerInvariant'
<1> USE DEF LedgerInvariant
<1>1. PICK u \in tx[s].reserve : ReserveUnit(s)!(u)
  BY DEF ReserveUnit
<1> DEFINE row0 == RowOf(u)
<1>2. tx[s] \in Request /\ u \in Unit /\ row0 \in Row
  BY RowOfType DEF TypeOK, Request
<1>3. First(s, u) /\ u \notin tx[s].done
  BY <1>1 DEF First, Pending
<1>4. PlanMatchesLedger(s) /\ CountingIsLocked(s) /\ Plan(s)
  BY DEF Plan
<1>5. u \notin CountedUnits
  BY <1>4 DEF PlanMatchesLedger
<1>6. lock[row0] = s
  <2>1. PICK v \in tx[s].reserve : First(s, v) /\ lock[RowOf(v)] = s
    BY <1>1, <1>4 DEF CountingIsLocked
  <2> QED BY <1>3, <1>4, <2>1, FirstUnique
<1>7. \A o \in Session \ {s} : tx'[o] = tx[o]
  BY <1>1 DEF TypeOK
<1>8. /\ tx'[s].targets = tx[s].targets /\ tx'[s].writes = tx[s].writes
      /\ tx'[s].todo = tx[s].todo /\ tx'[s].delete = tx[s].delete
      /\ tx'[s].insert = tx[s].insert /\ tx'[s].release = tx[s].release
      /\ tx'[s].reserve = tx[s].reserve /\ tx'[s].open = tx[s].open
      /\ tx'[s].counts = 0
      /\ tx'[s].done = tx[s].done \cup {u}
  BY <1>1, <1>2 DEF TypeOK, Request
<1>9. CountingIsLocked(s)'
  BY <1>8 DEF CountingIsLocked
<1>10. Plan(s)'
  BY <1>1, <1>4, <1>8, <1>9, StepKeepsPlan DEF PlanMatchesLedger
<1>11. tx[s].open
  BY <1>1 DEF Apart, Idle
<1>12. CountedAfter(s)' = CountedAfter(s) \cup {u} /\ u \notin CountedAfter(s)
  <2>1. CountedUnits' = CountedUnits
    BY <1>1 DEF CountedUnits
  <2>2. u \notin tx[s].release
    BY <1>4, <1>5 DEF PlanMatchesLedger
  <2> QED BY <1>3, <1>5, <1>8, <2>1, <2>2 DEF CountedAfter
<1>13. \A v \in tx'[s].done : lock'[RowOf(v)] = s
  BY <1>1, <1>6, <1>8 DEF LocksInOrder
<1>14. \A row \in Row : IF lock'[row] = s
         THEN draft'[row] = Cardinality(UnitsAt(row, CountedAfter(s)'))
         ELSE draft'[row] = draft[row]
  <2> SUFFICES ASSUME NEW row \in Row
               PROVE  IF lock'[row] = s
                      THEN draft'[row] = Cardinality(UnitsAt(row, CountedAfter(s)'))
                      ELSE draft'[row] = draft[row]
    OBVIOUS
  <2>1. CASE row = row0
    <3>1. draft[row] = Cardinality(UnitsAt(row, CountedAfter(s)))
      BY <1>6, <2>1, DraftFound DEF FreeFor
    <3>2. IsFiniteSet(UnitsAt(row, CountedAfter(s)))
      BY CountedAfterAtFinite
    <3>3. Cardinality(UnitsAt(row, CountedAfter(s) \cup {u})) =
            Cardinality(UnitsAt(row, CountedAfter(s))) + 1
      BY <1>12, <2>1, <3>2, UnitsAtAdd
    <3>4. draft'[row] = draft[row] + 1
      BY <1>1, <2>1 DEF TypeOK, Reserved
    <3> QED BY <1>1, <1>6, <1>12, <2>1, <3>1, <3>3, <3>4
  <2>2. CASE row # row0
    <3>1. draft'[row] = draft[row] /\ lock'[row] = lock[row]
      BY <1>1, <2>2 DEF TypeOK
    <3>2. UnitsAt(row, CountedAfter(s) \cup {u}) = UnitsAt(row, CountedAfter(s))
      BY <2>2, UnitsAtElsewhere
    <3> QED BY <1>12, <3>1, <3>2, DraftFound DEF FreeFor
  <2> QED BY <2>1, <2>2
<1> QED BY <1>1, <1>7, <1>8, <1>10, <1>11, <1>13, <1>14, StepKeepsInvariant

(* The sweep's next reservation: still confirmed, so all of its units are  *)
(* counted, and none of them has been released yet.                        *)
LEMMA SweepNextKeepsInvariant ==
  ASSUME LedgerInvariant, TypeOK', NEW s \in Session, NEW r \in Reservation, SweepNext(s, r)
  PROVE  LedgerInvariant'
<1> USE DEF LedgerInvariant
<1> DEFINE new == UnitsOf(LinesOf(r))
<1>1. /\ PlanIsLocal(s) /\ PlanMatchesLedger(s) /\ PlanIsLegal(s) /\ SweepIsFair(s)
      /\ PlanBalances(s) /\ CountingIsLocked(s)
  BY DEF Plan
<1>2. r \in tx[s].todo /\ Pending(s) = {} /\ UNCHANGED <<status, lines, sold, draft, lock>>
  BY DEF SweepNext
<1>3. tx[s] \in Request /\ tx[s].open
  BY <1>2 DEF TypeOK, Apart, Idle
<1>4. \A o \in Session \ {s} : tx'[o] = tx[o]
  BY DEF SweepNext, TypeOK
<1>5. /\ tx'[s].targets = tx[s].targets /\ tx'[s].writes = tx[s].writes
      /\ tx'[s].todo = tx[s].todo \ {r} /\ tx'[s].delete = tx[s].delete
      /\ tx'[s].insert = tx[s].insert /\ tx'[s].release = tx[s].release \cup new
      /\ tx'[s].reserve = tx[s].reserve /\ tx'[s].open = tx[s].open
      /\ tx'[s].counts = tx[s].counts
      /\ tx'[s].done = tx[s].done
  BY <1>3 DEF SweepNext, TypeOK, Request
<1>6. \A u : u \in new <=> u \in CountedUnits /\ u.line.res = r
  <2>1. status[r] = "confirmed" /\ r \in tx[s].targets
    BY <1>1, <1>2 DEF SweepIsFair, PlanIsLocal
  <2>2. \A u : u \in new <=>
          u \in Unit /\ u.line \in LinesOf(r) /\ u.night \in Nights(u.line.arrival, u.line.departure)
    BY LinesOfType, UnitsOfMember
  <2> QED BY <2>1, <2>2, CountedMember DEF LinesOf, CountedStatuses, ACTIVE_STATUSES
<1>7. CountedUnits' = CountedUnits
  BY <1>2 DEF CountedUnits
<1>8. \A x : Written(s, x)' = Written(s, x)
  BY <1>2, <1>5 DEF Written
<1>9. Plan(s)'
  <2>1. PlanIsLocal(s)'
    BY <1>1, <1>2, <1>5, <1>6, <1>8 DEF PlanIsLocal
  <2>2. PlanMatchesLedger(s)'
    BY <1>1, <1>5, <1>6, <1>7 DEF PlanMatchesLedger
  <2>3. PlanIsLegal(s)'
    BY <1>1, <1>2, <1>5 DEF PlanIsLegal
  <2>4. SweepIsFair(s)'
    BY <1>1, <1>2, <1>5, <1>6 DEF SweepIsFair
  <2>5. PlanBalances(s)'
    <3>1. OfTargets(s, CountedUnits)' = OfTargets(s, CountedUnits)
      BY <1>5, <1>7 DEF OfTargets
    <3>2. UnitsOf(LinesAfter(s))' = UnitsOf(LinesAfter(s))
      BY <1>2, <1>5, <1>8 DEF LinesAfter, UnitsOf
    <3>3. OfTargets(s, UnitsOf(LinesAfter(s)))' = OfTargets(s, UnitsOf(LinesAfter(s)))
      BY <1>5, <3>2 DEF OfTargets
    <3>4. {u \in OfTargets(s, CountedUnits) \ (tx[s].release \cup new) :
              u.line.res \notin tx[s].todo \ {r}} =
          {u \in OfTargets(s, CountedUnits) \ tx[s].release : u.line.res \notin tx[s].todo}
      BY <1>2, <1>6 DEF OfTargets
    <3> QED BY <1>1, <1>5, <3>1, <3>3, <3>4 DEF PlanBalances
  <2>6. CountingIsLocked(s)'
    BY <1>1, <1>2, <1>5 DEF CountingIsLocked, First
  <2> QED BY <2>1, <2>2, <2>3, <2>4, <2>5, <2>6 DEF Plan
<1>10. CountedAfter(s)' = CountedAfter(s)
  <2>1. new \cap tx[s].done = {}
    BY <1>1, <1>2, <1>6 DEF PlanMatchesLedger, SweepIsFair
  <2> QED BY <1>5, <1>7, <2>1 DEF CountedAfter
<1>11. \A row \in Row : IF lock'[row] = s
         THEN draft'[row] = Cardinality(UnitsAt(row, CountedAfter(s)'))
         ELSE draft'[row] = draft[row]
  BY <1>2, <1>10, DraftFound DEF FreeFor
<1>12. \A u \in tx'[s].done : lock'[RowOf(u)] = s
  BY <1>2, <1>5 DEF LocksInOrder
<1> QED BY <1>2, <1>3, <1>4, <1>5, <1>9, <1>11, <1>12, StepKeepsInvariant

--------------------------------------------------------------------------------
(* Opening a request.                                                      *)

LEMMA OpenFields ==
  ASSUME TypeOK, NEW s \in Session, NEW q, Open(s, q)
  PROVE  /\ ~tx[s].open /\ tx'[s] = q /\ \A o \in Session \ {s} : tx'[o] = tx[o]
         /\ UNCHANGED <<inventory, status, lines, sold, draft, lock>>
BY DEF Open, TypeOK

(* A request that opens with a right plan, for reservations that no other  *)
(* request is writing, keeps the invariant.                                *)
LEMMA OpenKeepsInvariant ==
  ASSUME LedgerInvariant, TypeOK', NEW s \in Session, NEW q, Open(s, q),
         q.open, q.done = {}, IsFiniteSet(q.insert),
         \A row \in Row : IsFiniteSet(UnitsAt(row, q.reserve)),
         \A o \in Session : tx[o].targets \cap q.targets = {},
         Plan(s)'
  PROVE  LedgerInvariant'
<1> USE DEF LedgerInvariant
<1>1. /\ ~tx[s].open /\ tx'[s] = q /\ \A o \in Session \ {s} : tx'[o] = tx[o]
      /\ UNCHANGED <<status, lines, sold, draft, lock>>
  BY OpenFields
<1>2. \A row \in Row : lock[row] # s
  BY <1>1, SessionsAssumption DEF LocksInOrder
<1>3. CountedUnits' = CountedUnits
  BY <1>1 DEF CountedUnits
<1>4. FinitelyMany'
  BY <1>1 DEF FinitelyMany, UnitsAt
<1>5. Apart'
  <2>1. \A o \in Session : ~tx'[o].open => tx'[o] = Idle
    BY <1>1 DEF Apart
  <2>2. \A a, b \in Session : a # b => tx'[a].targets \cap tx'[b].targets = {}
    BY <1>1 DEF Apart
  <2>3. Idle' = Idle
    BY DEF Idle
  <2> QED BY <2>1, <2>2, <2>3 DEF Apart
<1>6. NoOrphans'
  BY <1>1 DEF NoOrphans
<1>7. LocksInOrder'
  <2>1. \A row \in Row : lock'[row] # NoSession => tx'[lock'[row]].open
    <3> SUFFICES ASSUME NEW row \in Row, lock[row] # NoSession
                 PROVE  tx'[lock[row]].open
      BY <1>1
    <3>1. lock[row] \in Session \ {s}
      BY <1>2 DEF TypeOK
    <3> QED BY <1>1, <3>1 DEF LocksInOrder
  <2>2. \A o \in Session : \A u \in tx'[o].done : lock'[RowOf(u)] = o
    BY <1>1 DEF LocksInOrder
  <2> QED BY <2>1, <2>2 DEF LocksInOrder
<1>8. ASSUME NEW o \in Session
      PROVE  Plan(o)'
  <2>1. CASE o = s
    BY <2>1
  <2>2. CASE o # s
    BY <1>1, <2>2, FramePlan
  <2> QED BY <2>1, <2>2
<1>9. LedgerMatchesBookings'
  BY <1>1, <1>3 DEF LedgerMatchesBookings, HeldCount, UnitsAt
<1>10. DraftsMatchPlans'
  <2> SUFFICES ASSUME NEW row \in Row
               PROVE  draft'[row] = IF lock'[row] = NoSession THEN sold'[row]
                        ELSE Cardinality(UnitsAt(row, CountedAfter(lock[row])))'
    BY DEF DraftsMatchPlans
  <2>1. CASE lock[row] = NoSession
    BY <1>1, <2>1 DEF DraftsMatchPlans
  <2>2. CASE lock[row] # NoSession
    <3>1. lock[row] \in Session \ {s} /\ lock'[row] = lock[row]
      BY <1>1, <1>2, <2>2 DEF TypeOK
    <3>2. CountedAfter(lock[row])' = CountedAfter(lock[row])
      BY <1>1, <1>3, <3>1 DEF CountedAfter
    <3>3. UnitsAt(row, CountedAfter(lock[row]))' = UnitsAt(row, CountedAfter(lock[row]))
      BY <3>2 DEF UnitsAt
    <3> QED BY <1>1, <2>2, <3>1, <3>3 DEF DraftsMatchPlans
  <2> QED BY <2>1, <2>2
<1> QED BY <1>4, <1>5, <1>6, <1>7, <1>8, <1>9, <1>10

(* A request about one reservation: conditions on the lines and units it   *)
(* plans to write that make its plan right.                                *)
LEMMA OneReservation ==
  ASSUME LedgerInvariant, TypeOK', NEW s \in Session, NEW r \in Reservation, NEW q \in Request,
         Open(s, q), q.open, q.targets = {r}, q.todo = {}, q.done = {}, q.counts = 0,
         \A o \in Session : r \notin tx[o].targets,
         q.delete \subseteq LinesOf(r), \A l \in q.insert : l.res = r, IsFiniteSet(q.insert),
         NEW to, to = IF q.writes = "keep" THEN status[r] ELSE q.writes, to # "none",
         q.writes # "keep" => <<status[r], q.writes>> \in Lifecycle,
         q.release # {} => status[r] \in CountedStatuses,
         q.release \subseteq UnitsOf(LinesOf(r)),
         \A u \in q.reserve : u.line.res = r /\ (status[r] \in CountedStatuses => u.line \notin lines),
         \A row \in Row : IsFiniteSet(UnitsAt(row, q.reserve)),
         \A u : (u \in UnitsOf((LinesOf(r) \ q.delete) \cup q.insert) /\ to \in CountedStatuses) <=>
                  \/ u \in UnitsOf(LinesOf(r)) \ q.release /\ status[r] \in CountedStatuses
                  \/ u \in q.reserve
  PROVE  LedgerInvariant'
<1> USE DEF LedgerInvariant
<1>1. /\ ~tx[s].open /\ tx'[s] = q /\ \A o \in Session \ {s} : tx'[o] = tx[o]
      /\ UNCHANGED <<status, lines, sold, draft, lock>>
  BY OpenFields
<1>2. \A x : Written(s, x)' = IF x = r THEN to ELSE status[x]
  BY <1>1 DEF Written
<1>3. CountedUnits' = CountedUnits
  BY <1>1 DEF CountedUnits
<1>4. \A u : u \in UnitsOf(LinesOf(r)) <=>
        u \in Unit /\ u.line \in LinesOf(r) /\ u.night \in Nights(u.line.arrival, u.line.departure)
  BY LinesOfType, UnitsOfMember
<1>5. \A u : u \in CountedUnits /\ u.line.res = r <=>
               u \in UnitsOf(LinesOf(r)) /\ status[r] \in CountedStatuses
  BY <1>4, CountedMember DEF LinesOf
<1>6. PlanIsLocal(s)'
  <2>1. \A l \in q.delete \cup q.insert : l.res = r
    BY DEF LinesOf
  <2>2. \A u \in q.release \cup q.reserve : u.line.res = r
    BY <1>4 DEF LinesOf
  <2>3. \A l \in tx'[s].insert : Written(s, l.res)' # "none"
    BY <1>1, <1>2
  <2> QED BY <1>1, <2>1, <2>2, <2>3 DEF PlanIsLocal
<1>7. PlanMatchesLedger(s)'
  <2>1. q.release \subseteq CountedUnits
    BY <1>5
  <2>2. q.reserve \cap CountedUnits = {}
    BY <1>5, CountedMember
  <2> QED BY <1>1, <1>3, <2>1, <2>2 DEF PlanMatchesLedger
<1>8. PlanIsLegal(s)'
  BY <1>1 DEF PlanIsLegal, Lifecycle
<1>9. SweepIsFair(s)'
  BY <1>1 DEF SweepIsFair
<1>10. PlanBalances(s)'
  <2>1. \A u : u \in UnitsOf(LinesAfter(s))' <=>
          /\ u \in Unit /\ u.line \in (lines' \ tx'[s].delete) \cup tx'[s].insert
          /\ Written(s, u.line.res)' \in CountedStatuses
          /\ u.night \in Nights(u.line.arrival, u.line.departure)
    BY MembersNext
  <2>2. \A u : u \in UnitsOf(LinesAfter(s))' <=>
          /\ u \in Unit /\ u.line \in (lines \ q.delete) \cup q.insert
          /\ Written(s, u.line.res)' \in CountedStatuses
          /\ u.night \in Nights(u.line.arrival, u.line.departure)
    BY <1>1, <2>1
  <2>3. (LinesOf(r) \ q.delete) \cup q.insert \in SUBSET Line
    BY LinesOfType DEF Request
  <2>4. \A u : u \in UnitsOf((LinesOf(r) \ q.delete) \cup q.insert) <=>
          /\ u \in Unit /\ u.line \in (LinesOf(r) \ q.delete) \cup q.insert
          /\ u.night \in Nights(u.line.arrival, u.line.departure)
    BY <2>3, UnitsOfMember
  <2>5. \A u : u \in UnitsOf(LinesAfter(s))' /\ u.line.res = r <=>
          u \in UnitsOf((LinesOf(r) \ q.delete) \cup q.insert) /\ to \in CountedStatuses
    BY <1>2, <2>2, <2>4 DEF LinesOf
  <2>6. OfTargets(s, UnitsOf(LinesAfter(s)))' =
          {u \in UnitsOf(LinesAfter(s))' : u.line.res = r}
    BY <1>1 DEF OfTargets
  <2>7. {u \in OfTargets(s, CountedUnits) \ tx[s].release : u.line.res \notin tx[s].todo}' =
          {u \in CountedUnits \ q.release : u.line.res = r}
    BY <1>1, <1>3 DEF OfTargets
  <2>8. {u \in UnitsOf(LinesAfter(s))' : u.line.res = r} =
          {u \in CountedUnits \ q.release : u.line.res = r} \cup q.reserve
    BY <1>5, <2>5
  <2>9. tx'[s].reserve = q.reserve
    BY <1>1
  <2> QED BY <2>6, <2>7, <2>8, <2>9 DEF PlanBalances
<1>11. CountingIsLocked(s)'
  BY <1>1 DEF CountingIsLocked
<1>12. Plan(s)'
  BY <1>6, <1>7, <1>8, <1>9, <1>10, <1>11 DEF Plan
<1> QED BY <1>12, OpenKeepsInvariant

LEMMA NewLinesFinite ==
  ASSUME NEW r \in Reservation, NEW g \in Gen, NEW p \in Payload
  PROVE  /\ NewLines(r, g, p) \subseteq Line /\ IsFiniteSet(NewLines(r, g, p))
         /\ \A l \in NewLines(r, g, p) : l.res = r /\ l.gen = g
<1> DEFINE f == [i \in DOMAIN p |->
                   [res |-> r, gen |-> g, k |-> i, type |-> p[i].type,
                    arrival |-> p[i].arrival, departure |-> p[i].departure]]
<1>1. IsFiniteSet(DOMAIN p)
  <2>1. DOMAIN p = 1..Len(p) /\ Len(p) \in Nat
    BY PayloadAssumption
  <2> QED BY <2>1, FS_Interval
<1>2. f \in Surjection(DOMAIN p, NewLines(r, g, p))
  BY DEF Surjection, NewLines
<1> QED BY <1>1, <1>2, NewLinesType, FS_Surjection DEF NewLines

LEMMA NoUnits == \A row : UnitsAt(row, {}) = {} /\ IsFiniteSet(UnitsAt(row, {}))
BY FS_EmptySet DEF UnitsAt

LEMMA LinesOfFinite ==
  ASSUME TypeOK, FinitelyMany, NEW r
  PROVE  IsFiniteSet(LinesOf(r))
BY FS_Subset DEF FinitelyMany, LinesOf

LEMMA IdleFields ==
  /\ Idle.targets = {} /\ Idle.writes = "keep" /\ Idle.todo = {} /\ Idle.delete = {}
  /\ Idle.insert = {} /\ Idle.release = {} /\ Idle.reserve = {} /\ Idle.done = {}
  /\ Idle.counts = 0 /\ ~Idle.open
BY DEF Idle

(* create_reservation and walk_in: the reservation is new, so nothing of   *)
(* it is counted yet.                                                      *)
LEMMA CreateReservationKeepsInvariant ==
  ASSUME LedgerInvariant, TypeOK', NEW s \in Session, NEW r \in Reservation, NEW g \in Gen,
         NEW p \in Payload, NEW st \in {"inquiry", "confirmed", "in_house"},
         CreateReservation(s, r, g, p, st)
  PROVE  LedgerInvariant'
<1> DEFINE new == NewLines(r, g, p)
<1> DEFINE q == [Idle EXCEPT !.open = TRUE, !.targets = {r}, !.writes = st, !.insert = new,
                   !.reserve = IF st \in ACTIVE_STATUSES THEN UnitsOf(new) ELSE {}]
<1>1. /\ new \subseteq Line /\ IsFiniteSet(new) /\ UnitsOf(new) \subseteq Unit
      /\ \A l \in new : l.res = r
  BY NewLinesFinite, UnitsOfType
<1>2. q \in Request
  BY <1>1, IdleType DEF Request, Status
<1>3. /\ q.open /\ q.targets = {r} /\ q.todo = {} /\ q.done = {} /\ q.counts = 0
      /\ q.delete = {} /\ q.insert = new /\ q.release = {} /\ q.writes = st
      /\ q.reserve = IF st \in ACTIVE_STATUSES THEN UnitsOf(new) ELSE {}
  BY DEF Idle
<1>4. Open(s, q) /\ status[r] = "none" /\ \A o \in Session : r \notin tx[o].targets
  BY DEF CreateReservation, NewId
<1>5. LinesOf(r) = {}
  BY <1>4 DEF LedgerInvariant, NoOrphans, LinesOf
<1>6. \A u \in UnitsOf(new) : u.line.res = r
  BY <1>1, UnitsOfMember
<1>7. \A row \in Row : IsFiniteSet(UnitsAt(row, q.reserve))
  BY <1>1, <1>3, UnitsAtFinite, NoUnits
<1>8. <<status[r], q.writes>> \in Lifecycle /\ st # "keep" /\ st # "none"
  BY <1>3, <1>4 DEF Lifecycle
<1>9. status[r] \notin CountedStatuses /\ (st \in CountedStatuses <=> st \in ACTIVE_STATUSES)
  BY <1>4 DEF CountedStatuses, ACTIVE_STATUSES
<1>10. \A u : u \in UnitsOf((LinesOf(r) \ q.delete) \cup q.insert) /\ st \in CountedStatuses
         <=> \/ u \in UnitsOf(LinesOf(r)) \ q.release /\ status[r] \in CountedStatuses
             \/ u \in q.reserve
  <2>1. (LinesOf(r) \ q.delete) \cup q.insert = new
    BY <1>3, <1>5
  <2> HIDE DEF q, new
  <2> QED BY <1>3, <1>9, <2>1
<1>11. /\ q.delete \subseteq LinesOf(r) /\ q.release \subseteq UnitsOf(LinesOf(r))
       /\ \A l \in q.insert : l.res = r
       /\ \A u \in q.reserve : u.line.res = r
       /\ st = IF q.writes = "keep" THEN status[r] ELSE q.writes
  BY <1>1, <1>3, <1>6, <1>8
<1> HIDE DEF q, new, LedgerInvariant
<1> QED BY <1>1, <1>2, <1>3, <1>4, <1>7, <1>8, <1>9, <1>10, <1>11, OneReservation

(* check_in, check_out and their undos: counted before and after.          *)
LEMMA MarkKeepsInvariant ==
  ASSUME LedgerInvariant, TypeOK', ~MayOverlap, NEW s \in Session, NEW r \in Reservation,
         NEW from \in CountedStatuses, NEW to \in CountedStatuses,
         <<from, to>> \in Lifecycle, Mark(s, r, from, to)
  PROVE  LedgerInvariant'
<1> DEFINE q == [Idle EXCEPT !.open = TRUE, !.targets = {r}, !.writes = to]
<1>1. q \in Request /\ to # "keep" /\ to # "none"
  BY IdleType DEF Request, Status, CountedStatuses, ACTIVE_STATUSES
<1>2. /\ q.open /\ q.targets = {r} /\ q.todo = {} /\ q.done = {} /\ q.counts = 0
      /\ q.delete = {} /\ q.insert = {} /\ q.release = {} /\ q.writes = to
      /\ q.reserve = {}
  BY DEF Idle
<1>3. Open(s, q) /\ status[r] = from /\ \A o \in Session : r \notin tx[o].targets
  BY DEF Mark, Exclusive
<1>4. \A u : u \in UnitsOf((LinesOf(r) \ q.delete) \cup q.insert) /\ to \in CountedStatuses
        <=> \/ u \in UnitsOf(LinesOf(r)) \ q.release /\ status[r] \in CountedStatuses
            \/ u \in q.reserve
  <2>1. (LinesOf(r) \ q.delete) \cup q.insert = LinesOf(r)
    BY <1>2
  <2> HIDE DEF q
  <2> QED BY <1>2, <1>3, <2>1
<1>5. IsFiniteSet(q.insert) /\ \A row \in Row : IsFiniteSet(UnitsAt(row, q.reserve))
  BY <1>2, NoUnits, FS_EmptySet
<1>6. /\ <<status[r], q.writes>> \in Lifecycle
      /\ to = IF q.writes = "keep" THEN status[r] ELSE q.writes
  BY <1>1, <1>2, <1>3
<1>7. /\ q.delete \subseteq LinesOf(r) /\ q.release \subseteq UnitsOf(LinesOf(r))
      /\ \A l \in q.insert : l.res = r
      /\ \A u \in q.reserve : u.line.res = r /\ (status[r] \in CountedStatuses => u.line \notin lines)
  BY <1>2
<1> HIDE DEF q, LedgerInvariant
<1> QED BY <1>1, <1>2, <1>3, <1>4, <1>5, <1>6, <1>7, OneReservation

LEMMA ConfirmKeepsInvariant ==
  ASSUME LedgerInvariant, TypeOK', ~MayOverlap, NEW s \in Session, NEW r \in Reservation,
         Confirm(s, r)
  PROVE  LedgerInvariant'
<1> DEFINE q == [Idle EXCEPT !.open = TRUE, !.targets = {r}, !.writes = "confirmed",
                   !.reserve = UnitsOf(LinesOf(r))]
<1>1. q \in Request
  BY IdleType, LinesOfType DEF Request, Status, LedgerInvariant
<1>2. /\ q.open /\ q.targets = {r} /\ q.todo = {} /\ q.done = {} /\ q.counts = 0
      /\ q.delete = {} /\ q.insert = {} /\ q.release = {} /\ q.writes = "confirmed"
      /\ q.reserve = UnitsOf(LinesOf(r))
  BY DEF Idle
<1>3. Open(s, q) /\ status[r] = "inquiry" /\ \A o \in Session : r \notin tx[o].targets
  BY DEF Confirm, Exclusive
<1>4. status[r] \notin CountedStatuses /\ "confirmed" \in CountedStatuses
  BY <1>3 DEF CountedStatuses, ACTIVE_STATUSES
<1>5. \A u : u \in UnitsOf((LinesOf(r) \ q.delete) \cup q.insert) /\ "confirmed" \in CountedStatuses
        <=> \/ u \in UnitsOf(LinesOf(r)) \ q.release /\ status[r] \in CountedStatuses
            \/ u \in q.reserve
  <2>1. (LinesOf(r) \ q.delete) \cup q.insert = LinesOf(r)
    BY <1>2
  <2> HIDE DEF q
  <2> QED BY <1>2, <1>4, <2>1
<1>6. IsFiniteSet(q.insert) /\ \A row \in Row : IsFiniteSet(UnitsAt(row, q.reserve))
  <2>1. LinesOf(r) \in SUBSET Line /\ IsFiniteSet(LinesOf(r))
    BY LinesOfType, LinesOfFinite DEF LedgerInvariant
  <2> QED BY <1>2, <2>1, UnitsAtFinite, FS_EmptySet
<1>7. /\ <<status[r], q.writes>> \in Lifecycle
      /\ "confirmed" = IF q.writes = "keep" THEN status[r] ELSE q.writes
  BY <1>2, <1>3 DEF Lifecycle
<1>8. /\ q.delete \subseteq LinesOf(r) /\ q.release \subseteq UnitsOf(LinesOf(r))
      /\ \A l \in q.insert : l.res = r
  BY <1>2
<1>9. \A u \in q.reserve : u.line.res = r
  <2>1. LinesOf(r) \in SUBSET Line
    BY LinesOfType DEF LedgerInvariant
  <2> QED BY <1>2, <2>1, UnitsOfMember DEF LinesOf
<1> HIDE DEF q, LedgerInvariant
<1> QED BY <1>1, <1>2, <1>3, <1>4, <1>5, <1>6, <1>7, <1>8, <1>9, OneReservation

(* cancel and no_show: what was counted is released.                       *)
LEMMA ReleaseAllKeepsInvariant ==
  ASSUME LedgerInvariant, TypeOK', NEW s \in Session, NEW r \in Reservation,
         NEW to \in {"cancelled", "no_show"}, NEW q \in Request, Open(s, q),
         q.open, q.targets = {r}, q.todo = {}, q.done = {}, q.counts = 0, q.delete = {},
         q.insert = {}, q.reserve = {}, q.writes = to,
         q.release = IF HoldsInventory(r) THEN UnitsOf(LinesOf(r)) ELSE {},
         status[r] # "checked_out", <<status[r], to>> \in Lifecycle,
         \A o \in Session : r \notin tx[o].targets
  PROVE  LedgerInvariant'
<1>1. /\ HoldsInventory(r) <=> status[r] \in CountedStatuses
      /\ to \notin CountedStatuses /\ to # "none" /\ to # "keep"
  BY DEF HoldsInventory, CountedStatuses, ACTIVE_STATUSES
<1>2. IsFiniteSet(q.insert) /\ \A row \in Row : IsFiniteSet(UnitsAt(row, q.reserve))
  BY NoUnits, FS_EmptySet
<1>3. \A u : u \in UnitsOf((LinesOf(r) \ q.delete) \cup q.insert) /\ to \in CountedStatuses
        <=> \/ u \in UnitsOf(LinesOf(r)) \ q.release /\ status[r] \in CountedStatuses
            \/ u \in q.reserve
  BY <1>1
<1>4. to = IF q.writes = "keep" THEN status[r] ELSE q.writes
  BY <1>1
<1>5. /\ q.release # {} => status[r] \in CountedStatuses
      /\ q.release \subseteq UnitsOf(LinesOf(r))
      /\ q.delete \subseteq LinesOf(r)
      /\ \A l \in q.insert : l.res = r
      /\ \A u \in q.reserve : u.line.res = r /\ (status[r] \in CountedStatuses => u.line \notin lines)
  BY <1>1
<1>6. q.writes # "keep" => <<status[r], q.writes>> \in Lifecycle
  OBVIOUS
<1> QED BY <1>1, <1>2, <1>3, <1>4, <1>5, <1>6, OneReservation

LEMMA CancelKeepsInvariant ==
  ASSUME LedgerInvariant, TypeOK', ~MayOverlap, NEW s \in Session, NEW r \in Reservation,
         Cancel(s, r)
  PROVE  LedgerInvariant'
<1> DEFINE q == [Idle EXCEPT !.open = TRUE, !.targets = {r}, !.writes = "cancelled",
                   !.release = IF HoldsInventory(r) THEN UnitsOf(LinesOf(r)) ELSE {}]
<1>1. q \in Request
  BY IdleType, LinesOfType DEF Request, Status, LedgerInvariant
<1>2. /\ q.open /\ q.targets = {r} /\ q.todo = {} /\ q.done = {} /\ q.counts = 0
      /\ q.delete = {} /\ q.insert = {} /\ q.reserve = {} /\ q.writes = "cancelled"
      /\ q.release = IF HoldsInventory(r) THEN UnitsOf(LinesOf(r)) ELSE {}
  BY DEF Idle
<1>3. Open(s, q) /\ CanCancel(r) /\ \A o \in Session : r \notin tx[o].targets
  BY DEF Cancel, Exclusive
<1>4. status[r] # "checked_out" /\ <<status[r], "cancelled">> \in Lifecycle
  <2>1. status[r] \in Status
    BY DEF LedgerInvariant, TypeOK
  <2> QED BY <1>3, <2>1 DEF CanCancel, Status, Lifecycle
<1> HIDE DEF q, LedgerInvariant
<1> QED BY <1>1, <1>2, <1>3, <1>4, ReleaseAllKeepsInvariant

LEMMA NoShowKeepsInvariant ==
  ASSUME LedgerInvariant, TypeOK', ~MayOverlap, NEW s \in Session, NEW r \in Reservation,
         NoShow(s, r)
  PROVE  LedgerInvariant'
<1> DEFINE q == [Idle EXCEPT !.open = TRUE, !.targets = {r}, !.writes = "no_show",
                   !.release = UnitsOf(LinesOf(r))]
<1>1. q \in Request
  BY IdleType, LinesOfType DEF Request, Status, LedgerInvariant
<1>2. Open(s, q) /\ status[r] = "confirmed" /\ \A o \in Session : r \notin tx[o].targets
  BY DEF NoShow, Exclusive
<1>3. /\ q.open /\ q.targets = {r} /\ q.todo = {} /\ q.done = {} /\ q.counts = 0
      /\ q.delete = {} /\ q.insert = {} /\ q.reserve = {} /\ q.writes = "no_show"
      /\ q.release = IF HoldsInventory(r) THEN UnitsOf(LinesOf(r)) ELSE {}
  BY <1>2 DEF Idle, HoldsInventory, ACTIVE_STATUSES
<1>4. status[r] # "checked_out" /\ <<status[r], "no_show">> \in Lifecycle
  BY <1>2 DEF Lifecycle
<1> HIDE DEF q, LedgerInvariant
<1> QED BY <1>1, <1>2, <1>3, <1>4, ReleaseAllKeepsInvariant

(* modify_rooms: the old lines go and the new ones, which nobody has seen  *)
(* yet, take their place.                                                  *)
LEMMA ModifyRoomsKeepsInvariant ==
  ASSUME LedgerInvariant, TypeOK', ~MayOverlap, NEW s \in Session, NEW r \in Reservation,
         NEW g \in Gen, NEW p \in Payload, ModifyRooms(s, r, g, p)
  PROVE  LedgerInvariant'
<1> DEFINE new == NewLines(r, g, p)
<1> DEFINE held(U) == IF HoldsInventory(r) THEN U ELSE {}
<1> DEFINE q == [Idle EXCEPT !.open = TRUE, !.targets = {r},
                   !.delete = LinesOf(r), !.insert = new,
                   !.release = held(UnitsOf(LinesOf(r))),
                   !.reserve = held(UnitsOf(new))]
<1>1. /\ new \subseteq Line /\ IsFiniteSet(new) /\ UnitsOf(new) \subseteq Unit
      /\ \A l \in new : l.res = r /\ l.gen = g
  BY NewLinesFinite, UnitsOfType
<1>2. /\ LinesOf(r) \subseteq Line /\ UnitsOf(LinesOf(r)) \subseteq Unit
      /\ held(UnitsOf(LinesOf(r))) \subseteq Unit /\ held(UnitsOf(new)) \subseteq Unit
  BY <1>1, LinesOfType DEF LedgerInvariant
<1>3. q \in Request
  <2> HIDE DEF held, new
  <2> QED BY <1>1, <1>2, IdleType DEF Request
<1>4. /\ q.open /\ q.targets = {r} /\ q.todo = {} /\ q.done = {} /\ q.counts = 0
      /\ q.delete = LinesOf(r) /\ q.insert = new /\ q.writes = "keep"
      /\ q.release = held(UnitsOf(LinesOf(r)))
      /\ q.reserve = held(UnitsOf(new))
  <2> HIDE DEF held, new
  <2> QED BY DEF Idle
<1>5. /\ Open(s, q) /\ status[r] \in {"inquiry", "confirmed"} /\ FreshGen(r, g)
      /\ \A o \in Session : r \notin tx[o].targets
  BY DEF ModifyRooms, Exclusive
<1>6. HoldsInventory(r) <=> status[r] \in CountedStatuses
  BY <1>5 DEF HoldsInventory, CountedStatuses, ACTIVE_STATUSES
<1>7. \A l \in new : l \notin lines
  BY <1>1, <1>5 DEF FreshGen, LinesOf
<1>8. \A u \in UnitsOf(new) : u.line \in new
  BY <1>1, UnitsOfMember
<1>9. \A u \in q.reserve : u.line.res = r /\ (status[r] \in CountedStatuses => u.line \notin lines)
  <2> HIDE DEF new, q
  <2> QED BY <1>1, <1>4, <1>7, <1>8
<1>10. \A row \in Row : IsFiniteSet(UnitsAt(row, q.reserve))
  <2>1. \A row \in Row : IsFiniteSet(UnitsAt(row, UnitsOf(new)))
    BY <1>1, UnitsAtFinite
  <2> HIDE DEF new, q
  <2> QED BY <1>4, <2>1, NoUnits
<1>11. \A u : u \in UnitsOf((LinesOf(r) \ q.delete) \cup q.insert) /\ status[r] \in CountedStatuses
         <=> \/ u \in UnitsOf(LinesOf(r)) \ q.release /\ status[r] \in CountedStatuses
             \/ u \in q.reserve
  <2> HIDE DEF new, q
  <2>1. (LinesOf(r) \ q.delete) \cup q.insert = new
    BY <1>4
  <2> QED BY <1>4, <1>6, <2>1
<1>12. /\ q.release # {} => status[r] \in CountedStatuses
       /\ q.release \subseteq UnitsOf(LinesOf(r))
       /\ q.delete \subseteq LinesOf(r)
       /\ \A l \in q.insert : l.res = r
       /\ IsFiniteSet(q.insert)
       /\ status[r] = IF q.writes = "keep" THEN status[r] ELSE q.writes
       /\ status[r] # "none" /\ ~(q.writes # "keep")
  <2> HIDE DEF new, q
  <2> QED BY <1>1, <1>4, <1>5, <1>6
<1> HIDE DEF q, new, held, LedgerInvariant
<1> QED BY <1>3, <1>4, <1>5, <1>9, <1>10, <1>11, <1>12, OneReservation

(* no_show_sweep: nothing is released until a reservation's turn comes.    *)
LEMMA SweepKeepsInvariant ==
  ASSUME LedgerInvariant, TypeOK', ~MayOverlap, NEW s \in Session, NEW asOf \in Day,
         Sweep(s, asOf)
  PROVE  LedgerInvariant'
<1> DEFINE R == Stale(asOf)
<1> DEFINE q == [Idle EXCEPT !.open = TRUE, !.targets = R, !.writes = "no_show", !.todo = R]
<1>1. Open(s, q) /\ \A o \in Session : tx[o].targets \cap R = {}
  BY DEF Sweep, Exclusive
<1>2. /\ q.open /\ q.targets = R /\ q.todo = R /\ q.done = {} /\ q.counts = 0
      /\ q.delete = {} /\ q.insert = {} /\ q.release = {} /\ q.reserve = {}
      /\ q.writes = "no_show"
  <2> HIDE DEF R
  <2> QED BY DEF Idle
<1>3. \A r \in R : status[r] = "confirmed"
  BY DEF Stale
<1> HIDE DEF q, R
<1>4. tx'[s] = q /\ UNCHANGED <<status, lines>>
  BY <1>1, OpenFields DEF LedgerInvariant
<1>5. PlanIsLocal(s)' /\ PlanMatchesLedger(s)' /\ SweepIsFair(s)' /\ CountingIsLocked(s)'
  BY <1>2, <1>3, <1>4 DEF PlanIsLocal, PlanMatchesLedger, SweepIsFair, CountingIsLocked
<1>6. PlanIsLegal(s)'
  BY <1>2, <1>3, <1>4 DEF PlanIsLegal, Lifecycle
<1>7. PlanBalances(s)'
  <2>1. \A r \in R : Written(s, r)' = "no_show"
    BY <1>2, <1>4 DEF Written
  <2>2. \A u \in UnitsOf(LinesAfter(s))' : u.line.res \notin R
    BY <2>1, MembersNext DEF CountedStatuses, ACTIVE_STATUSES
  <2>3. OfTargets(s, UnitsOf(LinesAfter(s)))' = {u \in UnitsOf(LinesAfter(s))' : u.line.res \in R}
    BY <1>2, <1>4 DEF OfTargets
  <2>4. {u \in OfTargets(s, CountedUnits) \ tx[s].release : u.line.res \notin tx[s].todo}' = {}
    BY <1>2, <1>4 DEF OfTargets
  <2> QED BY <1>2, <1>4, <2>2, <2>3, <2>4 DEF PlanBalances
<1>8. Plan(s)'
  BY <1>5, <1>6, <1>7 DEF Plan
<1>9. IsFiniteSet(q.insert) /\ \A row \in Row : IsFiniteSet(UnitsAt(row, q.reserve))
  BY <1>2, NoUnits, FS_EmptySet
<1> QED BY <1>1, <1>2, <1>8, <1>9, OpenKeepsInvariant

LEMMA SubmitKeepsInvariant ==
  ASSUME LedgerInvariant, TypeOK', ~MayOverlap, NEW s \in Session, Submit(s)
  PROVE  LedgerInvariant'
<1>1. ASSUME NEW r \in Reservation, NEW g \in Gen, NEW p \in Payload,
             NEW st \in {"inquiry", "confirmed"}, CreateReservation(s, r, g, p, st)
      PROVE  LedgerInvariant'
  BY <1>1, CreateReservationKeepsInvariant
<1>2. ASSUME NEW r \in Reservation, NEW g \in Gen, NEW p \in Payload, WalkIn(s, r, g, p)
      PROVE  LedgerInvariant'
  BY <1>2, CreateReservationKeepsInvariant DEF WalkIn
<1>3. ASSUME NEW r \in Reservation,
             CheckIn(s, r) \/ CheckOut(s, r) \/ UndoCheckIn(s, r) \/ UndoCheckOut(s, r)
      PROVE  LedgerInvariant'
  <2>1. /\ {"confirmed", "in_house", "checked_out"} \subseteq CountedStatuses
        /\ {<<"confirmed", "in_house">>, <<"in_house", "checked_out">>,
            <<"in_house", "confirmed">>, <<"checked_out", "in_house">>} \subseteq Lifecycle
    BY DEF CountedStatuses, ACTIVE_STATUSES, Lifecycle
  <2> QED BY <1>3, <2>1, MarkKeepsInvariant DEF CheckIn, CheckOut, UndoCheckIn, UndoCheckOut
<1> QED BY <1>1, <1>2, <1>3, ModifyRoomsKeepsInvariant, ConfirmKeepsInvariant,
           CancelKeepsInvariant, NoShowKeepsInvariant DEF Submit

--------------------------------------------------------------------------------
(* Ending a request.                                                       *)

LEMMA CloseFields ==
  ASSUME TypeOK, NEW s \in Session, Close(s)
  PROVE  /\ tx'[s] = Idle /\ \A o \in Session \ {s} : tx'[o] = tx[o]
         /\ \A row \in Row : lock'[row] = IF lock[row] = s THEN NoSession ELSE lock[row]
BY DEF Close, Unlocked, Owns, TypeOK

LEMMA IdlePlan ==
  ASSUME NEW s \in Session, tx'[s] = Idle
  PROVE  Plan(s)'
<1>1. PlanIsLocal(s)' /\ PlanMatchesLedger(s)' /\ PlanIsLegal(s)' /\ SweepIsFair(s)'
  BY IdleFields DEF PlanIsLocal, PlanMatchesLedger, PlanIsLegal, SweepIsFair
<1>2. PlanBalances(s)'
  BY IdleFields DEF PlanBalances, OfTargets
<1>3. CountingIsLocked(s)'
  BY IdleFields DEF CountingIsLocked
<1> QED BY <1>1, <1>2, <1>3 DEF Plan

(* Units done are on rows the session has locked.                          *)
LEMMA DoneIsLocked ==
  ASSUME LedgerInvariant, NEW s \in Session, NEW row \in Row, lock[row] # s
  PROVE  UnitsAt(row, CountedAfter(s)) = UnitsAt(row, CountedUnits)
<1>1. \A u \in tx[s].done : RowOf(u) # row
  BY DEF LedgerInvariant, LocksInOrder
<1> QED BY <1>1 DEF UnitsAt, CountedAfter

(* The end of a request keeps the invariant if what it commits concerns    *)
(* its own reservations and its own rows, and the committed rows match.    *)
LEMMA CloseKeepsInvariant ==
  ASSUME LedgerInvariant, TypeOK', NEW s \in Session, Close(s),
         \A r \in Reservation : r \notin tx[s].targets => status'[r] = status[r],
         \A l \in Line : l.res \notin tx[s].targets => (l \in lines' <=> l \in lines),
         IsFiniteSet(lines'), NoOrphans', LedgerMatchesBookings',
         \A row \in Row : lock[row] # s => UnitsAt(row, CountedUnits)' = UnitsAt(row, CountedUnits),
         \A row \in Row : lock'[row] = NoSession => draft'[row] = sold'[row],
         \A row \in Row : lock[row] \notin {s, NoSession} => draft'[row] = draft[row]
  PROVE  LedgerInvariant'
<1> USE DEF LedgerInvariant
<1>1. /\ tx'[s] = Idle /\ \A o \in Session \ {s} : tx'[o] = tx[o]
      /\ \A row \in Row : lock'[row] = IF lock[row] = s THEN NoSession ELSE lock[row]
  BY CloseFields
<1>2. FinitelyMany'
  <2>1. ASSUME NEW o \in Session
        PROVE  IsFiniteSet(tx'[o].insert) /\ \A row \in Row : IsFiniteSet(UnitsAt(row, tx'[o].reserve))
    <3>1. CASE o = s
      BY <1>1, <3>1, IdleFields, NoUnits, FS_EmptySet
    <3>2. CASE o # s
      BY <1>1, <3>2 DEF FinitelyMany
    <3> QED BY <3>1, <3>2
  <2> QED BY <2>1 DEF FinitelyMany, UnitsAt
<1>3. Apart'
  <2>1. \A o \in Session : ~tx'[o].open => tx'[o] = Idle
    BY <1>1 DEF Apart
  <2>2. \A a, b \in Session : a # b => tx'[a].targets \cap tx'[b].targets = {}
    BY <1>1, IdleFields DEF Apart
  <2>3. Idle' = Idle
    BY DEF Idle
  <2> QED BY <2>1, <2>2, <2>3 DEF Apart
<1>4. LocksInOrder'
  <2>1. \A row \in Row : lock'[row] # NoSession => tx'[lock'[row]].open
    <3> SUFFICES ASSUME NEW row \in Row, lock'[row] # NoSession
                 PROVE  tx'[lock'[row]].open
      OBVIOUS
    <3>1. lock'[row] = lock[row] /\ lock[row] \in Session \ {s}
      BY <1>1 DEF TypeOK
    <3> QED BY <1>1, <3>1 DEF LocksInOrder
  <2>2. ASSUME NEW o \in Session, NEW u \in tx'[o].done
        PROVE  lock'[RowOf(u)] = o
    <3>1. o # s /\ u \in tx[o].done /\ u \in Unit
      BY <1>1, <2>2, IdleFields DEF TypeOK, Request
    <3>2. RowOf(u) \in Row /\ lock[RowOf(u)] = o
      BY <3>1, RowOfType DEF LocksInOrder
    <3> QED BY <1>1, <3>1, <3>2
  <2> QED BY <2>1, <2>2 DEF LocksInOrder
<1>5. ASSUME NEW o \in Session
      PROVE  Plan(o)'
  <2>1. CASE o = s
    BY <1>1, <2>1, IdlePlan
  <2>2. CASE o # s
    <3>1. tx[o].targets \subseteq Reservation /\ tx[o].targets \cap tx[s].targets = {}
      BY <2>2 DEF TypeOK, Request, Apart
    <3>2. /\ \A r \in tx[o].targets : status'[r] = status[r]
          /\ \A l \in Line : l.res \in tx[o].targets => (l \in lines' <=> l \in lines)
      BY <3>1
    <3>3. tx'[o] = tx[o] /\ \A row \in Row : lock[row] = o => lock'[row] = o
      BY <1>1, <2>2
    <3> QED BY <3>2, <3>3, FramePlan
  <2> QED BY <2>1, <2>2
<1>6. DraftsMatchPlans'
  <2> SUFFICES ASSUME NEW row \in Row
               PROVE  draft'[row] = IF lock'[row] = NoSession THEN sold'[row]
                        ELSE Cardinality(UnitsAt(row, CountedAfter(lock[row])))'
    BY DEF DraftsMatchPlans
  <2>1. CASE lock'[row] = NoSession
    BY <2>1
  <2>2. CASE lock'[row] # NoSession
    <3> DEFINE o == lock[row]
    <3>1. o \in Session \ {s} /\ lock'[row] = o
      BY <1>1, <2>2 DEF TypeOK
    <3>2. draft'[row] = draft[row]
      BY <3>1, SessionsAssumption
    <3>3. UnitsAt(row, CountedUnits)' = UnitsAt(row, CountedUnits) /\ tx'[o] = tx[o]
      BY <1>1, <3>1
    <3>4. UnitsAt(row, CountedAfter(lock[row]))' = UnitsAt(row, CountedAfter(o))
      BY <3>1, <3>3 DEF UnitsAt, CountedAfter
    <3> QED BY <2>2, <3>1, <3>2, <3>4 DEF DraftsMatchPlans
  <2> QED BY <2>1, <2>2
<1> QED BY <1>2, <1>3, <1>4, <1>5, <1>6

LEMMA RollbackKeepsInvariant ==
  ASSUME LedgerInvariant, TypeOK', NEW s \in Session, Rollback(s)
  PROVE  LedgerInvariant'
<1> USE DEF LedgerInvariant
<1>1. UNCHANGED <<status, lines, sold>> /\ Close(s)
  BY DEF Rollback
<1>2. \A row \in Row : draft'[row] = IF lock[row] = s THEN sold[row] ELSE draft[row]
  BY DEF Rollback, Owns
<1>3. CountedUnits' = CountedUnits
  BY <1>1 DEF CountedUnits
<1>4. NoOrphans' /\ LedgerMatchesBookings'
  BY <1>1, <1>3 DEF NoOrphans, LedgerMatchesBookings, HeldCount, UnitsAt
<1>5. \A row \in Row : UnitsAt(row, CountedUnits)' = UnitsAt(row, CountedUnits)
  BY <1>3 DEF UnitsAt
<1>6. \A row \in Row : lock'[row] = NoSession => draft'[row] = sold'[row]
  <2>1. \A row \in Row : lock[row] = NoSession => draft[row] = sold[row]
    BY DEF DraftsMatchPlans
  <2> QED BY <1>1, <1>2, <2>1, CloseFields
<1>7. \A row \in Row : lock[row] \notin {s, NoSession} => draft'[row] = draft[row]
  BY <1>2
<1>8. IsFiniteSet(lines')
  BY <1>1 DEF FinitelyMany
<1> QED BY <1>1, <1>4, <1>5, <1>6, <1>7, <1>8, CloseKeepsInvariant

(* What a commit leaves counted is what the request has done.              *)
LEMMA CommittedUnits ==
  ASSUME LedgerInvariant, TypeOK', NEW s \in Session, Commit(s)
  PROVE  CountedUnits' = CountedAfter(s)
<1> USE DEF LedgerInvariant
<1>1. /\ tx[s].todo = {} /\ Pending(s) = {}
      /\ status' = [r \in Reservation |-> Written(s, r)]
      /\ lines' = (lines \ tx[s].delete) \cup tx[s].insert
  BY DEF Commit
<1>2. PlanIsLocal(s) /\ PlanMatchesLedger(s) /\ PlanBalances(s)
  BY DEF Plan
<1>3. \A u : u \in CountedUnits' <=> u \in UnitsOf(LinesAfter(s))
  <2>1. \A u \in Unit : u.line.res \in Reservation
    BY DEF Unit, Line
  <2> QED BY <1>1, <2>1, MembersNext, AfterMember
<1>4. ASSUME NEW u, u.line.res \in tx[s].targets
      PROVE  u \in UnitsOf(LinesAfter(s)) <=> u \in CountedAfter(s)
  <2>1. u \in UnitsOf(LinesAfter(s)) <=> u \in CountedUnits \ tx[s].release \/ u \in tx[s].reserve
    BY <1>1, <1>2, <1>4 DEF PlanBalances, OfTargets
  <2>2. tx[s].release \cap tx[s].done = tx[s].release /\ tx[s].reserve \cap tx[s].done = tx[s].reserve
    BY <1>1 DEF Pending
  <2> QED BY <2>1, <2>2 DEF CountedAfter
<1>5. ASSUME NEW u, u.line.res \notin tx[s].targets
      PROVE  u \in UnitsOf(LinesAfter(s)) <=> u \in CountedAfter(s)
  <2>1. u \in CountedAfter(s) <=> u \in CountedUnits
    BY <1>2, <1>5 DEF CountedAfter, PlanIsLocal
  <2>2. u.line \in (lines \ tx[s].delete) \cup tx[s].insert <=> u.line \in lines
    BY <1>2, <1>5 DEF PlanIsLocal
  <2>3. Written(s, u.line.res) = status[u.line.res]
    BY <1>5 DEF Written
  <2> QED BY <2>1, <2>2, <2>3, AfterMember, CountedMember
<1> QED BY <1>3, <1>4, <1>5

LEMMA CommitKeepsInvariant ==
  ASSUME LedgerInvariant, TypeOK', NEW s \in Session, Commit(s)
  PROVE  LedgerInvariant'
<1> USE DEF LedgerInvariant
<1>1. /\ status' = [r \in Reservation |-> Written(s, r)]
      /\ lines' = (lines \ tx[s].delete) \cup tx[s].insert
      /\ sold' = [row \in Row |-> IF Owns(s, row) THEN draft[row] ELSE sold[row]]
      /\ draft' = draft /\ Close(s)
  BY DEF Commit
<1>2. PlanIsLocal(s) /\ PlanIsLegal(s)
  BY DEF Plan
<1>3. CountedUnits' = CountedAfter(s)
  BY CommittedUnits
<1>4. /\ \A r \in Reservation : r \notin tx[s].targets => status'[r] = status[r]
      /\ \A l \in Line : l.res \notin tx[s].targets => (l \in lines' <=> l \in lines)
  BY <1>1, <1>2 DEF Written, PlanIsLocal
<1>5. IsFiniteSet(lines')
  <2>1. IsFiniteSet(lines \ tx[s].delete) /\ IsFiniteSet(tx[s].insert)
    BY FS_Difference, FS_Subset DEF FinitelyMany
  <2> QED BY <1>1, <2>1, FS_Union
<1>6. NoOrphans'
  <2> SUFFICES ASSUME NEW l \in lines' PROVE status'[l.res] # "none"
    BY DEF NoOrphans
  <2>1. l.res \in Reservation /\ status'[l.res] = Written(s, l.res)
    BY <1>1 DEF TypeOK, Line
  <2>2. CASE l \in tx[s].insert
    BY <1>2, <2>1, <2>2 DEF PlanIsLocal
  <2>3. CASE l \in lines
    BY <1>2, <2>1, <2>3 DEF NoOrphans, Written, PlanIsLegal, Lifecycle
  <2> QED BY <1>1, <2>2, <2>3
<1>7. \A row \in Row : UnitsAt(row, CountedUnits)' = UnitsAt(row, CountedAfter(s))
  BY <1>3 DEF UnitsAt
<1>8. \A row \in Row : lock[row] # s => UnitsAt(row, CountedUnits)' = UnitsAt(row, CountedUnits)
  BY <1>7, DoneIsLocked
<1>9. LedgerMatchesBookings'
  <2> SUFFICES ASSUME NEW row \in Row
               PROVE  sold'[row] = Cardinality(UnitsAt(row, CountedUnits)')
    BY DEF LedgerMatchesBookings, HeldCount
  <2>1. CASE lock[row] = s
    <3>1. draft[row] = Cardinality(UnitsAt(row, CountedAfter(s)))
      BY <2>1, DraftFound DEF FreeFor
    <3> QED BY <1>1, <1>7, <2>1, <3>1 DEF Owns
  <2>2. CASE lock[row] # s
    BY <1>1, <1>8, <2>2 DEF Owns, LedgerMatchesBookings, HeldCount
  <2> QED BY <2>1, <2>2
<1>10. \A row \in Row : lock'[row] = NoSession => draft'[row] = sold'[row]
  <2>1. \A row \in Row : lock[row] = NoSession => draft[row] = sold[row]
    BY DEF DraftsMatchPlans
  <2> QED BY <1>1, <2>1, CloseFields DEF Owns
<1>11. \A row \in Row : lock[row] \notin {s, NoSession} => draft'[row] = draft[row]
  BY <1>1
<1> QED BY <1>1, <1>4, <1>5, <1>6, <1>8, <1>9, <1>10, <1>11, CloseKeepsInvariant

--------------------------------------------------------------------------------
(* All together.                                                           *)

LEMMA UnchangedKeepsInvariant ==
  ASSUME LedgerInvariant, TypeOK', UNCHANGED <<status, lines, sold, draft, lock, tx>>
  PROVE  LedgerInvariant'
<1> USE DEF LedgerInvariant
<1>1. CountedUnits' = CountedUnits
  BY DEF CountedUnits
<1>2. FinitelyMany' /\ Apart' /\ NoOrphans' /\ LocksInOrder'
  BY DEF FinitelyMany, Apart, NoOrphans, LocksInOrder, UnitsAt, Idle
<1>3. \A s \in Session : Plan(s)'
  BY FramePlan
<1>4. LedgerMatchesBookings'
  BY <1>1 DEF LedgerMatchesBookings, HeldCount, UnitsAt
<1>5. DraftsMatchPlans'
  <2>1. \A s : CountedAfter(s)' = CountedAfter(s)
    BY <1>1 DEF CountedAfter
  <2> QED BY <2>1 DEF DraftsMatchPlans, UnitsAt
<1> QED BY <1>2, <1>3, <1>4, <1>5

LEMMA ProceedKeepsInvariant ==
  ASSUME LedgerInvariant, TypeOK', NEW s \in Session, Proceed(s)
  PROVE  LedgerInvariant'
BY SweepNextKeepsInvariant, ReleaseUnitKeepsInvariant, LoadRoomTypeKeepsInvariant,
   LockAndCountRoomsKeepsInvariant, CountRoomBlocksKeepsInvariant, ReserveUnitKeepsInvariant,
   RollbackKeepsInvariant, CommitKeepsInvariant DEF Proceed, Refuse

LEMMA NextKeepsInvariant ==
  ~MayOverlap => (LedgerInvariant /\ [Next]_vars => LedgerInvariant')
<1> SUFFICES ASSUME ~MayOverlap, LedgerInvariant, [Next]_vars PROVE LedgerInvariant'
  OBVIOUS
<1>1. TypeOK'
  BY NextType DEF LedgerInvariant
<1>2. CASE UNCHANGED vars
  BY <1>1, <1>2, UnchangedKeepsInvariant DEF vars, reservationVars
<1>3. CASE EditInventory
  BY <1>1, <1>3, UnchangedKeepsInvariant DEF EditInventory
<1>4. ASSUME NEW s \in Session, Submit(s) PROVE LedgerInvariant'
  BY <1>1, <1>4, SubmitKeepsInvariant
<1>5. ASSUME NEW s \in Session, RunSweep(s) PROVE LedgerInvariant'
  BY <1>1, <1>5, SweepKeepsInvariant DEF RunSweep
<1>6. ASSUME NEW s \in Session, Proceed(s) PROVE LedgerInvariant'
  BY <1>1, <1>6, ProceedKeepsInvariant
<1>7. ASSUME NEW s \in Session, Fail(s) \/ DeadlockVictim(s) PROVE LedgerInvariant'
  BY <1>1, <1>7, RollbackKeepsInvariant DEF Fail, DeadlockVictim
<1> QED BY <1>2, <1>3, <1>4, <1>5, <1>6, <1>7 DEF Next

LEMMA InitInvariant == Init => LedgerInvariant
<1> SUFFICES ASSUME Init PROVE LedgerInvariant
  OBVIOUS
<1>1. TypeOK
  BY InitType
<1>2. /\ lines = {} /\ \A s \in Session : tx[s] = Idle
      /\ \A row \in Row : sold[row] = 0 /\ draft[row] = 0 /\ lock[row] = NoSession
  BY DEF Init
<1>3. CountedUnits = {}
  BY <1>1, <1>2, CountedMember
<1>4. FinitelyMany /\ Apart /\ NoOrphans /\ LocksInOrder
  BY <1>2, IdleFields, NoUnits, FS_EmptySet DEF FinitelyMany, Apart, NoOrphans, LocksInOrder
<1>5. \A s \in Session : Plan(s)
  BY <1>2, IdleFields DEF Plan, PlanIsLocal, PlanMatchesLedger, PlanIsLegal, SweepIsFair,
     PlanBalances, OfTargets, CountingIsLocked
<1>6. LedgerMatchesBookings
  BY <1>2, <1>3, FS_EmptySet DEF LedgerMatchesBookings, HeldCount, UnitsAt
<1>7. DraftsMatchPlans
  BY <1>2 DEF DraftsMatchPlans
<1> QED BY <1>1, <1>4, <1>5, <1>6, <1>7 DEF LedgerInvariant

(* Which steps write what.                                                 *)
LEMMA SubmitWrites ==
  ASSUME TypeOK, NEW s \in Session, Submit(s) \/ RunSweep(s)
  PROVE  /\ ~tx[s].open /\ tx'[s].open /\ tx'[s].rt = None /\ tx'[s].counts = 0
         /\ \A o \in Session \ {s} : tx'[o] = tx[o]
         /\ window' = [window EXCEPT ![s] = [row \in Row |-> {RowSupply(row)}]]
         /\ UNCHANGED <<inventory, status, lines, sold, draft, lock>>
<1> DEFINE Blank == /\ ~tx[s].open /\ tx'[s].open /\ tx'[s].rt = None /\ tx'[s].counts = 0
                    /\ window' = [window EXCEPT ![s] = [row \in Row |-> {RowSupply(row)}]]
                    /\ \A o \in Session \ {s} : tx'[o] = tx[o]
                    /\ UNCHANGED <<inventory, status, lines, sold, draft, lock>>
<1>1. ASSUME NEW r, NEW g, NEW p, NEW st, CreateReservation(s, r, g, p, st)
      PROVE  Blank
  BY <1>1 DEF CreateReservation, Open, Idle, TypeOK
<1>2. ASSUME NEW r, NEW g, NEW p, ModifyRooms(s, r, g, p)
      PROVE  Blank
  BY <1>2 DEF ModifyRooms, Open, Idle, TypeOK
<1>3. ASSUME NEW r, NEW from, NEW to, Mark(s, r, from, to)
      PROVE  Blank
  BY <1>3 DEF Mark, Open, Idle, TypeOK
<1>4. ASSUME NEW r, Confirm(s, r)
      PROVE  Blank
  BY <1>4 DEF Confirm, Open, Idle, TypeOK
<1>5. ASSUME NEW r, Cancel(s, r)
      PROVE  Blank
  BY <1>5 DEF Cancel, Open, Idle, TypeOK
<1>6. ASSUME NEW r, NoShow(s, r)
      PROVE  Blank
  BY <1>6 DEF NoShow, Open, Idle, TypeOK
<1>7. ASSUME NEW asOf, Sweep(s, asOf)
      PROVE  Blank
  BY <1>7 DEF Sweep, Open, Idle, TypeOK
<1> HIDE DEF Blank
<1>8. Blank
  BY <1>1, <1>2, <1>3, <1>4, <1>5, <1>6, <1>7 DEF Submit, RunSweep, WalkIn, CheckIn, CheckOut,
     UndoCheckIn, UndoCheckOut
<1> QED BY <1>8 DEF Blank

LEMMA ProceedWrites ==
  ASSUME NEW s \in Session, Proceed(s) \/ Fail(s) \/ DeadlockVictim(s)
  PROVE  UNCHANGED inventory /\ (UNCHANGED status \/ Commit(s))
<1>1. ASSUME NEW r, SweepNext(s, r)
      PROVE  UNCHANGED inventory /\ UNCHANGED status
  BY <1>1 DEF SweepNext
<1>2. ReleaseUnit(s) => UNCHANGED inventory /\ UNCHANGED status
  BY DEF ReleaseUnit
<1>3. LoadRoomType(s) => UNCHANGED inventory /\ UNCHANGED status
  BY DEF LoadRoomType
<1>4. LockAndCountRooms(s) => UNCHANGED inventory /\ UNCHANGED status
  BY DEF LockAndCountRooms
<1>5. CountRoomBlocks(s) => UNCHANGED inventory /\ UNCHANGED status
  BY DEF CountRoomBlocks
<1>6. ReserveUnit(s) => UNCHANGED inventory /\ UNCHANGED status
  BY DEF ReserveUnit
<1>7. Refuse(s) \/ Fail(s) \/ DeadlockVictim(s) => UNCHANGED inventory /\ UNCHANGED status
  BY DEF Refuse, Fail, DeadlockVictim, Rollback, Close
<1>8. Commit(s) => UNCHANGED inventory
  BY DEF Commit, Close
<1> QED BY <1>1, <1>2, <1>3, <1>4, <1>5, <1>6, <1>7, <1>8 DEF Proceed

LEMMA InvariantHolds == ~MayOverlap => (Spec => []LedgerInvariant)
<1> SUFFICES ASSUME ~MayOverlap PROVE Spec => []LedgerInvariant
  OBVIOUS
<1>1. LedgerInvariant /\ [Next]_vars => LedgerInvariant'
  BY NextKeepsInvariant
<1> QED BY <1>1, InitInvariant, PTL DEF Spec

(* As long as no two requests on one reservation are open at once, the     *)
(* committed counter of every row of the inventory ledger is the number of *)
(* nights that the committed stays hold there: a booking that fails half   *)
(* way, a modification that releases and reserves, a sweep and a rollback  *)
(* never leave a night counted twice, or lost.                             *)
THEOREM LedgerExact == ~MayOverlap => (Spec => []LedgerMatchesBookings)
<1>1. LedgerInvariant => LedgerMatchesBookings
  BY DEF LedgerInvariant
<1> QED BY <1>1, InvariantHolds, PTL

(* Under the same condition the status of a reservation moves along the    *)
(* lifecycle only, although the guards of a service function look at a     *)
(* copy of the reservation read when the request opened.                   *)
THEOREM LifecycleKept == ~MayOverlap => (Spec => LifecycleFollowed)
<1> SUFFICES ASSUME ~MayOverlap PROVE Spec => LifecycleFollowed
  OBVIOUS
<1> DEFINE Legal == \A r \in Reservation :
                      status'[r] # status[r] => <<status[r], status'[r]>> \in Lifecycle
<1>1. ASSUME LedgerInvariant, [Next]_vars, ~UNCHANGED status
      PROVE  Legal
  <2>1. PICK s \in Session : Commit(s)
    <3>1. TypeOK
      BY <1>1 DEF LedgerInvariant
    <3>2. ~UNCHANGED vars /\ ~EditInventory
      BY <1>1 DEF vars, reservationVars, EditInventory
    <3> QED BY <1>1, <3>1, <3>2, SubmitWrites, ProceedWrites DEF Next
  <2>2. PlanIsLegal(s)
    BY <1>1 DEF LedgerInvariant, Plan
  <2>3. \A r \in Reservation : status'[r] = Written(s, r)
    BY <2>1 DEF Commit
  <2> QED BY <2>2, <2>3 DEF PlanIsLegal, Written
<1>2. LedgerInvariant /\ [Next]_vars => [Legal]_status
  BY <1>1
<1>3. Spec => []LedgerInvariant
  BY InvariantHolds
<1> QED BY <1>2, <1>3, PTL DEF Spec, LifecycleFollowed

(* release never asks its clamp at zero: a request that takes a unit off   *)
(* a row still has that unit counted there, whatever the other requests    *)
(* have committed on the row since it was submitted.                       *)
THEOREM ReleasesAreExact == ~MayOverlap => (Spec => ReleaseNeverClamps)
<1> SUFFICES ASSUME ~MayOverlap PROVE Spec => ReleaseNeverClamps
  OBVIOUS
<1> DEFINE TakesOne == \A s \in Session : ReleaseUnit(s) =>
                         \E row \in Row : draft'[row] < draft[row]
<1>1. ASSUME LedgerInvariant PROVE TakesOne
  <2> SUFFICES ASSUME NEW s \in Session, ReleaseUnit(s)
               PROVE  \E row \in Row : draft'[row] < draft[row]
    OBVIOUS
  <2>1. PICK u \in tx[s].release : ReleaseUnit(s)!(u)
    BY DEF ReleaseUnit
  <2>2. /\ RowOf(u) \in Row /\ draft[RowOf(u)] \in Nat
        /\ draft'[RowOf(u)] = draft[RowOf(u)] - 1
    BY <1>1, <2>1, ReleaseTakesOne
  <2>3. draft'[RowOf(u)] < draft[RowOf(u)]
    BY <2>2
  <2> QED BY <2>2, <2>3
<1>2. LedgerInvariant => [TakesOne]_vars
  BY <1>1
<1>3. Spec => []LedgerInvariant
  BY InvariantHolds
<1> QED BY <1>2, <1>3, PTL DEF Spec, ReleaseNeverClamps

--------------------------------------------------------------------------------
(* No row holds more than its capacity while the inventory stays as it is. *)

LEMMA FixedSupply ==
  ASSUME UNCHANGED inventory
  PROVE  /\ \A row \in Row : RowSupply(row)' = RowSupply(row)
         /\ \A t : ActiveRoomCount(t)' = ActiveRoomCount(t) /\ allowance'[t] = allowance[t]
         /\ \A t, d : RoomBlocks(t, d)' = RoomBlocks(t, d)
BY DEF inventory, RowSupply, Supply, ActiveRoomCount, ActiveRooms, RoomBlocks, BlockedRooms,
   TypeBlocks, HeldBlockUnits, Covers

LEMMA CapacityOfRow ==
  ASSUME InventoryTypeOK, NEW row \in Row
  PROVE  Capacity(RowSupply(row)) \in Nat
BY RowSupplyType, CapacityType

LEMMA FixedStaysFixed ==
  ASSUME TypeOK, FixedInventory, [Next]_vars
  PROVE  UNCHANGED inventory
<1>1. ~EditInventory
  BY DEF FixedInventory, EditInventory, InventoryNext
<1>2. CASE UNCHANGED vars
  BY <1>2 DEF vars
<1>3. CASE \E s \in Session : Submit(s) \/ RunSweep(s)
  BY <1>3, SubmitWrites
<1>4. CASE \E s \in Session : Proceed(s) \/ Fail(s) \/ DeadlockVictim(s)
  BY <1>4, ProceedWrites
<1> QED BY <1>1, <1>2, <1>3, <1>4 DEF Next

(* A request that has not moved sees what it saw.                          *)
LEMMA SeenStable ==
  ASSUME UNCHANGED inventory, NEW s \in Session, SeenIsCurrent(s),
         tx'[s].release = tx[s].release, tx'[s].reserve = tx[s].reserve,
         tx'[s].done = tx[s].done, tx'[s].rt = tx[s].rt, tx'[s].counts = tx[s].counts,
         tx'[s].seen = tx[s].seen
  PROVE  SeenIsCurrent(s)'
BY FixedSupply, FirstStable DEF SeenIsCurrent

(* One that is between two units has seen at most the allowance.           *)
LEMMA SeenBetweenUnits ==
  ASSUME UNCHANGED inventory, NEW s \in Session, SeenIsCurrent(s), tx'[s].counts = 0,
         tx'[s].rt # None => tx'[s].rt = tx[s].rt /\ tx'[s].seen.allowance = tx[s].seen.allowance
  PROVE  SeenIsCurrent(s)'
BY FixedSupply DEF SeenIsCurrent

LEMMA SubmitFits ==
  ASSUME TypeOK, NEW s \in Session, Submit(s) \/ RunSweep(s),
         RowsFit, \A o \in Session : SeenIsCurrent(o)
  PROVE  RowsFit' /\ \A o \in Session : SeenIsCurrent(o)'
<1>1. /\ tx'[s].rt = None /\ tx'[s].counts = 0 /\ \A o \in Session \ {s} : tx'[o] = tx[o]
      /\ UNCHANGED <<inventory, sold, draft>>
  BY SubmitWrites
<1>2. RowsFit'
  BY <1>1, FixedSupply DEF RowsFit
<1>3. ASSUME NEW o \in Session PROVE SeenIsCurrent(o)'
  <2>1. CASE o = s
    BY <1>1, <2>1, SeenBetweenUnits
  <2>2. CASE o # s
    BY <1>1, <2>2, SeenStable
  <2> QED BY <2>1, <2>2
<1> QED BY <1>2, <1>3

LEMMA CloseFits ==
  ASSUME LedgerInvariant, TypeOK', NEW s \in Session, Commit(s) \/ Rollback(s),
         RowsFit, \A o \in Session : SeenIsCurrent(o)
  PROVE  RowsFit' /\ \A o \in Session : SeenIsCurrent(o)'
<1>1. Close(s) /\ TypeOK
  BY DEF Commit, Rollback, LedgerInvariant
<1>2. tx'[s] = Idle /\ UNCHANGED inventory /\ \A o \in Session \ {s} : tx'[o] = tx[o]
  BY <1>1, CloseFields DEF Close
<1>3. \A row \in Row : sold'[row] \in {sold[row], draft[row]} /\ draft'[row] \in {sold[row], draft[row]}
  BY DEF Commit, Rollback
<1>4. RowsFit'
  BY <1>2, <1>3, FixedSupply DEF RowsFit
<1>5. ASSUME NEW o \in Session PROVE SeenIsCurrent(o)'
  <2>1. CASE o = s
    <3>1. tx'[s].rt = None /\ tx'[s].counts = 0
      BY <1>2 DEF Idle
    <3> QED BY <1>2, <2>1, <3>1, SeenBetweenUnits
  <2>2. CASE o # s
    BY <1>2, <2>2, SeenStable
  <2> QED BY <2>1, <2>2
<1> QED BY <1>4, <1>5

(* What a step of s leaves to show: that s still sees what is so, and that *)
(* the rows still fit.                                                     *)
LEMMA StepFits ==
  ASSUME UNCHANGED inventory, NEW s \in Session, \A o \in Session \ {s} : tx'[o] = tx[o],
         \A o \in Session : SeenIsCurrent(o), SeenIsCurrent(s)'
  PROVE  \A o \in Session : SeenIsCurrent(o)'
<1> SUFFICES ASSUME NEW o \in Session PROVE SeenIsCurrent(o)'
  OBVIOUS
<1>1. CASE o = s
  BY <1>1
<1>2. CASE o # s
  BY <1>2, SeenStable
<1> QED BY <1>1, <1>2

LEMMA NotCounting ==
  ASSUME LedgerInvariant, NEW s \in Session
  PROVE  /\ Pending(s) = {} => tx[s].counts = 0
         /\ \A u \in tx[s].release : First(s, u) => tx[s].counts = 0
<1>1. TypeOK /\ PlanMatchesLedger(s) /\ CountingIsLocked(s)
  BY DEF LedgerInvariant, Plan
<1>2. Pending(s) = {} => tx[s].counts = 0
  BY <1>1 DEF CountingIsLocked, First
<1>3. ASSUME NEW u \in tx[s].release, First(s, u), tx[s].counts # 0
      PROVE  FALSE
  <2>1. PICK v \in tx[s].reserve : First(s, v)
    BY <1>1, <1>3 DEF CountingIsLocked
  <2> QED BY <1>1, <1>3, <2>1, FirstUnique, ReleaseReserveApart
<1> QED BY <1>2, <1>3

LEMMA SweepNextFits ==
  ASSUME LedgerInvariant, NEW s \in Session, NEW r, SweepNext(s, r),
         RowsFit, \A o \in Session : SeenIsCurrent(o)
  PROVE  RowsFit' /\ \A o \in Session : SeenIsCurrent(o)'
<1>1. tx[s] \in Request
  BY DEF LedgerInvariant, TypeOK
<1>2. /\ tx'[s].rt = tx[s].rt /\ tx'[s].counts = tx[s].counts /\ tx'[s].seen = tx[s].seen
      /\ \A o \in Session \ {s} : tx'[o] = tx[o]
  BY <1>1 DEF SweepNext, LedgerInvariant, TypeOK, Request
<1>3. UNCHANGED <<inventory, sold, draft>> /\ Pending(s) = {}
  BY DEF SweepNext
<1>4. RowsFit'
  BY <1>3, FixedSupply DEF RowsFit
<1>5. SeenIsCurrent(s)'
  BY <1>2, <1>3, NotCounting, SeenBetweenUnits
<1> QED BY <1>2, <1>3, <1>4, <1>5, StepFits

LEMMA ReleaseUnitFits ==
  ASSUME LedgerInvariant, NEW s \in Session, ReleaseUnit(s),
         RowsFit, \A o \in Session : SeenIsCurrent(o)
  PROVE  RowsFit' /\ \A o \in Session : SeenIsCurrent(o)'
<1> USE DEF LedgerInvariant
<1>1. PICK u \in tx[s].release : ReleaseUnit(s)!(u)
  BY DEF ReleaseUnit
<1>2. tx[s] \in Request /\ u \in Unit /\ RowOf(u) \in Row
  BY RowOfType DEF TypeOK, Request
<1>3. /\ tx'[s].rt = tx[s].rt /\ tx'[s].counts = tx[s].counts /\ tx'[s].seen = tx[s].seen
      /\ \A o \in Session \ {s} : tx'[o] = tx[o]
  BY <1>1, <1>2 DEF TypeOK, Request
<1>4. UNCHANGED <<inventory, sold>> /\ tx[s].counts = 0
  BY <1>1, NotCounting DEF AtLock
<1>5. \A row \in Row : draft'[row] = IF row = RowOf(u) THEN Released(draft[row]) ELSE draft[row]
  BY <1>1, <1>2 DEF TypeOK
<1>6. RowsFit'
  <2> SUFFICES ASSUME NEW row \in Row
               PROVE  /\ sold'[row] <= Capacity(RowSupply(row))
                      /\ draft'[row] <= Capacity(RowSupply(row))
    BY <1>4, FixedSupply DEF RowsFit
  <2>1. draft[row] \in Nat /\ Capacity(RowSupply(row)) \in Nat
    BY CapacityOfRow DEF TypeOK
  <2>2. Released(draft[row]) <= Capacity(RowSupply(row))
    BY <2>1 DEF RowsFit, Released, Max2
  <2> QED BY <1>4, <1>5, <2>2 DEF RowsFit
<1>7. SeenIsCurrent(s)'
  BY <1>3, <1>4, SeenBetweenUnits
<1> QED BY <1>3, <1>4, <1>6, <1>7, StepFits

LEMMA LoadRoomTypeFits ==
  ASSUME LedgerInvariant, NEW s \in Session, LoadRoomType(s),
         RowsFit, \A o \in Session : SeenIsCurrent(o)
  PROVE  RowsFit' /\ \A o \in Session : SeenIsCurrent(o)'
<1> USE DEF LedgerInvariant
<1>1. PICK u \in tx[s].reserve : LoadRoomType(s)!(u)
  BY DEF LoadRoomType
<1>2. tx[s] \in Request
  BY DEF TypeOK
<1>3. /\ tx'[s].rt = u.line /\ tx'[s].counts = tx[s].counts
      /\ tx'[s].seen.allowance = allowance[u.line.type]
      /\ \A o \in Session \ {s} : tx'[o] = tx[o]
  BY <1>1, <1>2 DEF TypeOK, Request, SupplyRecord
<1>4. UNCHANGED <<inventory, sold, draft>>
  BY <1>1
<1>5. RowsFit'
  BY <1>4, FixedSupply DEF RowsFit
<1>6. tx[s].counts = 0
  BY <1>1 DEF SeenIsCurrent
<1>7. SeenIsCurrent(s)'
  BY <1>3, <1>4, <1>6, FixedSupply DEF SeenIsCurrent
<1> QED BY <1>3, <1>4, <1>5, <1>7, StepFits

LEMMA LockAndCountRoomsFits ==
  ASSUME LedgerInvariant, NEW s \in Session, LockAndCountRooms(s),
         RowsFit, \A o \in Session : SeenIsCurrent(o)
  PROVE  RowsFit' /\ \A o \in Session : SeenIsCurrent(o)'
<1> USE DEF LedgerInvariant
<1>1. PICK u \in tx[s].reserve : LockAndCountRooms(s)!(u)
  BY DEF LockAndCountRooms
<1>2. tx[s] \in Request /\ PlanMatchesLedger(s)
  BY DEF TypeOK, Plan
<1>3. /\ tx'[s].rt = tx[s].rt /\ tx'[s].counts = 1
      /\ tx'[s].seen.allowance = tx[s].seen.allowance
      /\ tx'[s].seen.active = ActiveRoomCount(u.line.type)
      /\ tx'[s].release = tx[s].release /\ tx'[s].reserve = tx[s].reserve
      /\ tx'[s].done = tx[s].done
      /\ \A o \in Session \ {s} : tx'[o] = tx[o]
  BY <1>1, <1>2 DEF TypeOK, Request, SupplyRecord, RowOf
<1>4. UNCHANGED <<inventory, sold, draft>>
  BY <1>1
<1>5. RowsFit'
  BY <1>4, FixedSupply DEF RowsFit
<1>6. \A v : First(s, v)' => v = u
  BY <1>1, <1>2, <1>3, FirstStable, FirstUnique DEF AtLock
<1>7. tx[s].rt = u.line
  BY <1>1 DEF AtLock
<1>8. SeenIsCurrent(s)'
  BY <1>3, <1>4, <1>6, <1>7, FixedSupply DEF SeenIsCurrent
<1> QED BY <1>3, <1>4, <1>5, <1>8, StepFits

LEMMA CountRoomBlocksFits ==
  ASSUME LedgerInvariant, NEW s \in Session, CountRoomBlocks(s),
         RowsFit, \A o \in Session : SeenIsCurrent(o)
  PROVE  RowsFit' /\ \A o \in Session : SeenIsCurrent(o)'
<1> USE DEF LedgerInvariant
<1>1. PICK u \in tx[s].reserve : CountRoomBlocks(s)!(u)
  BY DEF CountRoomBlocks
<1>2. tx[s] \in Request /\ PlanMatchesLedger(s)
  BY DEF TypeOK, Plan
<1>3. /\ tx'[s].rt = tx[s].rt /\ tx'[s].counts = 2
      /\ tx'[s].seen.allowance = tx[s].seen.allowance
      /\ tx'[s].seen.active = tx[s].seen.active
      /\ tx'[s].seen.roomBlocks = RoomBlocks(u.line.type, u.night)
      /\ tx'[s].release = tx[s].release /\ tx'[s].reserve = tx[s].reserve
      /\ tx'[s].done = tx[s].done
      /\ \A o \in Session \ {s} : tx'[o] = tx[o]
  BY <1>1, <1>2 DEF TypeOK, Request, SupplyRecord
<1>4. UNCHANGED <<inventory, sold, draft>>
  BY <1>1
<1>5. RowsFit'
  BY <1>4, FixedSupply DEF RowsFit
<1>6. \A v : First(s, v)' => v = u
  BY <1>1, <1>2, <1>3, FirstStable, FirstUnique
<1>7. tx[s].rt = u.line /\ tx[s].seen.active = ActiveRoomCount(u.line.type)
  BY <1>1 DEF SeenIsCurrent
<1>8. SeenIsCurrent(s)'
  BY <1>3, <1>4, <1>6, <1>7, FixedSupply DEF SeenIsCurrent
<1> QED BY <1>3, <1>4, <1>5, <1>8, StepFits

(* The four values the check used are the ones the row has now.            *)
LEMMA ReserveUnitFits ==
  ASSUME LedgerInvariant, NEW s \in Session, ReserveUnit(s),
         RowsFit, \A o \in Session : SeenIsCurrent(o)
  PROVE  RowsFit' /\ \A o \in Session : SeenIsCurrent(o)'
<1> USE DEF LedgerInvariant
<1>1. PICK u \in tx[s].reserve : ReserveUnit(s)!(u)
  BY DEF ReserveUnit
<1>2. tx[s] \in Request /\ u \in Unit /\ RowOf(u) \in Row /\ RowOf(u) = <<u.line.type, u.night>>
  BY RowOfType DEF TypeOK, Request
<1>3. /\ tx'[s].counts = 0
      /\ tx'[s].rt # None => tx'[s].rt = tx[s].rt /\ tx'[s].seen.allowance = tx[s].seen.allowance
      /\ \A o \in Session \ {s} : tx'[o] = tx[o]
  BY <1>1, <1>2 DEF TypeOK, Request, NothingSeen
<1>4. UNCHANGED <<inventory, sold>>
  BY <1>1
<1>5. SeenFor(s, u) = RowSupply(RowOf(u))
  <2>1. /\ tx[s].rt = u.line /\ tx[s].seen.active = ActiveRoomCount(u.line.type)
        /\ tx[s].seen.roomBlocks = RoomBlocks(u.line.type, u.night)
    BY <1>1 DEF SeenIsCurrent
  <2>2. tx[s].rt # None
    BY <1>2, <2>1, NoneAssumption DEF Unit
  <2>3. tx[s].seen.allowance = allowance[u.line.type]
    BY <2>1, <2>2 DEF SeenIsCurrent
  <2>4. tx[s].seen \in SupplyRecord
    BY <1>2 DEF Request
  <2> QED BY <1>2, <2>1, <2>3, <2>4 DEF SeenFor, RowSupply, Supply, SupplyRecord
<1>6. RowsFit'
  <2> SUFFICES ASSUME NEW row \in Row
               PROVE  /\ sold'[row] <= Capacity(RowSupply(row))
                      /\ draft'[row] <= Capacity(RowSupply(row))
    BY <1>4, FixedSupply DEF RowsFit
  <2>1. draft'[row] = IF row = RowOf(u) THEN draft[row] + 1 ELSE draft[row]
    BY <1>1, <1>2 DEF TypeOK, Reserved
  <2>2. draft[RowOf(u)] + 1 <= Capacity(RowSupply(RowOf(u)))
    BY <1>1, <1>5 DEF Fits
  <2> QED BY <1>4, <2>1, <2>2 DEF RowsFit
<1>7. SeenIsCurrent(s)'
  BY <1>3, <1>4, SeenBetweenUnits
<1> QED BY <1>3, <1>4, <1>6, <1>7, StepFits

LEMMA NextFits ==
  LedgerInvariant /\ LedgerInvariant' /\ SalesInvariant /\ [Next]_vars => SalesInvariant'
<1> SUFFICES ASSUME LedgerInvariant, LedgerInvariant', SalesInvariant, [Next]_vars, FixedInventory
             PROVE  RowsFit' /\ \A o \in Session : SeenIsCurrent(o)'
  BY DEF SalesInvariant
<1>1. RowsFit /\ \A o \in Session : SeenIsCurrent(o)
  BY DEF SalesInvariant
<1>2. TypeOK /\ TypeOK' /\ UNCHANGED inventory
  BY FixedStaysFixed DEF LedgerInvariant
<1>3. CASE UNCHANGED vars
  <2>1. RowsFit'
    BY <1>1, <1>2, <1>3, FixedSupply DEF RowsFit, vars, reservationVars
  <2>2. \A o \in Session : SeenIsCurrent(o)'
    BY <1>1, <1>2, <1>3, SeenStable DEF vars, reservationVars
  <2> QED BY <2>1, <2>2
<1>4. ~EditInventory
  BY DEF FixedInventory, EditInventory, InventoryNext
<1>5. ASSUME NEW s \in Session, Submit(s) \/ RunSweep(s)
      PROVE  RowsFit' /\ \A o \in Session : SeenIsCurrent(o)'
  BY <1>1, <1>2, <1>5, SubmitFits
<1>6. ASSUME NEW s \in Session, Commit(s) \/ Refuse(s) \/ Fail(s) \/ DeadlockVictim(s)
      PROVE  RowsFit' /\ \A o \in Session : SeenIsCurrent(o)'
  BY <1>1, <1>2, <1>6, CloseFits DEF Refuse, Fail, DeadlockVictim
<1>7. ASSUME NEW s \in Session, Proceed(s)
      PROVE  RowsFit' /\ \A o \in Session : SeenIsCurrent(o)'
  BY <1>1, <1>6, <1>7, SweepNextFits, ReleaseUnitFits, LoadRoomTypeFits, LockAndCountRoomsFits,
     CountRoomBlocksFits, ReserveUnitFits DEF Proceed
<1> QED BY <1>3, <1>4, <1>5, <1>6, <1>7 DEF Next

LEMMA InitFits == Init => SalesInvariant
<1> SUFFICES ASSUME Init PROVE RowsFit /\ \A s \in Session : SeenIsCurrent(s)
  BY DEF SalesInvariant
<1>1. TypeOK
  BY InitType
<1>2. \A row \in Row : sold[row] = 0 /\ draft[row] = 0 /\ Capacity(RowSupply(row)) \in Nat
  BY <1>1, CapacityOfRow DEF Init, TypeOK
<1>3. \A s \in Session : SeenIsCurrent(s)
  BY DEF Init, Idle, SeenIsCurrent
<1> QED BY <1>2, <1>3 DEF RowsFit

(* With the inventory left alone, the nights held on a row never exceed    *)
(* its capacity, however many requests book at once, each of them reading  *)
(* the rooms, the blocks and the allowance in statements of their own:     *)
(* what makes it so is the row lock taken before the first of the counts   *)
(* and kept to the end of the transaction.                                 *)
THEOREM NothingOversold == ~MayOverlap => (Spec => []NoOversell)
<1> SUFFICES ASSUME ~MayOverlap PROVE Spec => []NoOversell
  OBVIOUS
<1>1. LedgerInvariant /\ SalesInvariant => NoOversell
  <2> SUFFICES ASSUME LedgerInvariant, SalesInvariant, FixedInventory, NEW row \in Row
               PROVE  HeldCount(row) <= Capacity(RowSupply(row))
    BY DEF NoOversell
  <2> QED BY DEF LedgerInvariant, LedgerMatchesBookings, SalesInvariant, RowsFit
<1>2. Spec => []LedgerInvariant
  BY InvariantHolds
<1> QED BY <1>1, <1>2, InitFits, NextFits, PTL DEF Spec

================================================================================
