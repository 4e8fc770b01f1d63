----------------------------- MODULE Requests_proofs ---------------------------
(***************************************************************************)
(* What the interleaving of requests can and cannot do: a cycle of waiting *)
(* requests needs one that handles several lines; the ledger implements    *)
(* the atomic sale of rooms (RoomSales), whatever administrators edit      *)
(* while requests are open; and a pairing that locks its rooms one by one  *)
(* (RoomPairing) does what Inventory does in one step, if it runs alone.   *)
(***************************************************************************)
EXTENDS Ledger_proofs, MCRequestsFinish, WellFoundedInduction

--------------------------------------------------------------------------------
(* Knots of waiting requests.                                              *)

(* A finite set of sessions has one whose number is the largest.           *)
LEMMA LargestExists ==
  ASSUME NEW C, IsFiniteSet(C), C # {}, NEW f, \A s \in C : f[s] \in Int
  PROVE  \E s \in C : \A o \in C : f[o] <= f[s]
<1> DEFINE Up(s) == {x \in C : f[s] <= f[x]}
           U == {Up(s) : s \in C}
<1>1. U \subseteq FiniteSubsetsOf(C) /\ U # {}
  <2>1. \A s \in C : Up(s) \in SUBSET C /\ IsFiniteSet(Up(s))
    BY FS_Subset
  <2> HIDE DEF Up
  <2> QED BY <2>1 DEF FiniteSubsetsOf
<1>2. IsWellFoundedOn(StrictSubsetOrdering(C), FiniteSubsetsOf(C))
  BY FS_StrictSubsetOrderingWellFounded
<1>3. PICK X \in U : \A Y \in U : ~(<<Y, X>> \in StrictSubsetOrdering(C))
  <2> HIDE DEF U
  <2> QED BY <1>1, <1>2, WFMin, Zenon
<1>4. PICK s \in C : X = Up(s)
  OBVIOUS
<1>5. ASSUME NEW o \in C, ~(f[o] <= f[s]) PROVE FALSE
  <2>1. Up(o) \subseteq Up(s) /\ s \in Up(s) /\ s \notin Up(o)
    BY <1>5
  <2>2. <<Up(o), Up(s)>> \in StrictSubsetOrdering(C)
    BY <2>1 DEF StrictSubsetOrdering
  <2> QED BY <1>3, <1>4, <2>2
<1> QED BY <1>5

LEMMA UnitNight ==
  ASSUME TypeOK, NEW s \in Session, NEW u \in tx[s].release \cup tx[s].reserve
  PROVE  u \in Unit /\ u.night \in Int /\ u.line \in Line
<1>1. tx[s] \in Request
  BY DEF TypeOK
<1>2. u \in Unit
  BY <1>1 DEF Request
<1> QED BY <1>2, SetsAssumption DEF Unit

(* A waiting session of one line has its own row behind the one it waits   *)
(* for.                                                                    *)
LEMMA WaitsForLater ==
  ASSUME TypeOK, NEW s \in Session, NEW o \in Session, NEW u, NEW v,
         WorksInOrder(o), LocksItsUnits(o), ~ManyLines(o),
         u \in Pending(s), lock[RowOf(u)] = o, AtLock(o, v)
  PROVE  u.night < v.night
<1>1. u \in Unit /\ RowOf(u) \in Row
  BY PendingType, RowOfType
<1>2. tx[o].release \cap tx[o].reserve = {} /\ First(o, v) /\ v \in Pending(o)
  BY DEF WorksInOrder, AtLock, First
<1>3. PICK w \in tx[o].done : RowOf(w) = RowOf(u)
  <2>1. ASSUME tx[o].counts # 0, NEW x \in tx[o].reserve, First(o, x) PROVE FALSE
    <3>1. x = v
      BY <1>2, <2>1, FirstOnly
    <3> QED BY <2>1, <3>1 DEF AtLock
  <2> QED BY <1>1, <2>1 DEF LocksItsUnits
<1>4. w.line = v.line
  BY <1>2 DEF WorksInOrder, ManyLines, Pending
<1>5. w.night < v.night
  BY <1>2, <1>4 DEF WorksInOrder
<1> QED BY <1>3, <1>5 DEF RowOf

LEMMA OrderBreaksKnots ==
  ASSUME TypeOK, OrderInvariant, IsFiniteSet(Session)
  PROVE  DeadlockNeedsManyLines
<1> SUFFICES ASSUME NEW C \in SUBSET Session, Knot(C), \A s \in C : ~ManyLines(s)
             PROVE  FALSE
  BY DEF DeadlockNeedsManyLines
<1>1. \A s \in C : \E o \in C, u \in Pending(s) : AtLock(s, u) /\ lock[RowOf(u)] = o
  BY DEF Knot, WaitsFor
<1> DEFINE next == [s \in C |-> CHOOSE u \in Pending(s) : AtLock(s, u) /\ lock[RowOf(u)] \in C]
           f == [s \in C |-> next[s].night]
<1>2. \A s \in C : next[s] \in Pending(s) /\ AtLock(s, next[s]) /\ lock[RowOf(next[s])] \in C
  BY <1>1
<1> HIDE DEF next
<1>3. \A s \in C : f[s] \in Int
  BY <1>2, UnitNight DEF Pending
<1>4. IsFiniteSet(C) /\ C # {}
  BY FS_Subset DEF Knot
<1>5. PICK s \in C : \A o \in C : f[o] <= f[s]
  <2> HIDE DEF f
  <2> QED BY <1>3, <1>4, LargestExists
<1> DEFINE o == lock[RowOf(next[s])]
<1>6. next[s].night < next[o].night
  BY <1>2, WaitsForLater DEF OrderInvariant
<1>7. next[s].night \in Int /\ next[o].night \in Int /\ next[o].night <= next[s].night
  BY <1>2, <1>3, <1>5
<1> QED BY <1>6, <1>7

LEMMA OrderFrame ==
  ASSUME NEW o \in Session, WorksInOrder(o), LocksItsUnits(o), tx'[o] = tx[o],
         \A row \in Row : lock'[row] = o => lock[row] = o
  PROVE  WorksInOrder(o)' /\ LocksItsUnits(o)'
<1>1. \A u : First(o, u)' <=> First(o, u)
  BY FirstStable
<1>2. Idle' = Idle
  BY DEF Idle
<1> QED BY <1>1, <1>2 DEF WorksInOrder, LocksItsUnits, Pending

(* What a step of s leaves to show.                                        *)
LEMMA StepKeepsOrder ==
  ASSUME OrderInvariant, NEW s \in Session, \A o \in Session \ {s} : tx'[o] = tx[o],
         \A row \in Row : lock'[row] \in {s, NoSession, lock[row]},
         WorksInOrder(s)', LocksItsUnits(s)'
  PROVE  OrderInvariant'
<1> SUFFICES ASSUME NEW o \in Session PROVE WorksInOrder(o)' /\ LocksItsUnits(o)'
  BY DEF OrderInvariant
<1>1. CASE o = s
  BY <1>1
<1>2. CASE o # s
  BY <1>2, OrderFrame, SessionsAssumption DEF OrderInvariant
<1> QED BY <1>1, <1>2

(* A request opens with nothing done, and never reserves a line it         *)
(* releases: a modification writes its lines under a tag of their own.     *)
LEMMA OpensInOrder ==
  ASSUME TypeOK, NEW s \in Session, Submit(s) \/ RunSweep(s)
  PROVE  /\ tx'[s].open /\ tx'[s].done = {}
         /\ \A u \in tx'[s].release, v \in tx'[s].reserve : u.line # v.line
         /\ tx'[s].todo # {} => tx'[s].reserve = {}
         /\ tx'[s].todo # {} => tx'[s].release = {}
<1> DEFINE Fresh == /\ tx'[s].open /\ tx'[s].done = {}
                    /\ \A u \in tx'[s].release, v \in tx'[s].reserve : u.line # v.line
                    /\ tx'[s].todo # {} => tx'[s].reserve = {}
                    /\ tx'[s].todo # {} => tx'[s].release = {}
<1>1. ASSUME NEW r, NEW g, NEW p, NEW st, CreateReservation(s, r, g, p, st)
      PROVE  Fresh
  BY <1>1 DEF CreateReservation, Open, Idle, TypeOK
<1>2. ASSUME NEW r, NEW g, NEW p, ModifyRooms(s, r, g, p)
      PROVE  Fresh
  <2> DEFINE new == NewLines(r, g, p)
             held(U) == IF HoldsInventory(r) THEN U ELSE {}
             q == [Idle EXCEPT !.open = TRUE, !.targets = {r},
                               !.delete = LinesOf(r), !.insert = new,
                               !.release = held(UnitsOf(LinesOf(r))),
                               !.reserve = held(UnitsOf(new))]
  <2>1. tx'[s] = q
    BY <1>2 DEF ModifyRooms, Open, TypeOK
  <2>2. \A l \in LinesOf(r), m \in new : l # m
    BY <1>2 DEF ModifyRooms, FreshGen, NewLines
  <2>3. \A u \in UnitsOf(LinesOf(r)), v \in UnitsOf(new) : u.line # v.line
    BY <2>2 DEF UnitsOf
  <2>4. /\ q.open /\ q.done = {} /\ q.todo = {}
        /\ q.release \subseteq UnitsOf(LinesOf(r)) /\ q.reserve \subseteq UnitsOf(new)
    <3> HIDE DEF new
    <3> QED BY DEF Idle
  <2> HIDE DEF q, new
  <2> QED BY <2>1, <2>3, <2>4
<1>3. ASSUME NEW r, NEW from, NEW to, Mark(s, r, from, to)
      PROVE  Fresh
  BY <1>3 DEF Mark, Open, Idle, TypeOK
<1>4. ASSUME NEW r, Confirm(s, r)
      PROVE  Fresh
  BY <1>4 DEF Confirm, Open, Idle, TypeOK
<1>5. ASSUME NEW r, Cancel(s, r)
      PROVE  Fresh
  BY <1>5 DEF Cancel, Open, Idle, TypeOK
<1>6. ASSUME NEW r, NoShow(s, r)
      PROVE  Fresh
  BY <1>6 DEF NoShow, Open, Idle, TypeOK
<1>7. ASSUME NEW asOf, Sweep(s, asOf)
      PROVE  Fresh
  BY <1>7 DEF Sweep, Open, Idle, TypeOK
<1> HIDE DEF Fresh
<1>8. Fresh
  BY <1>1, <1>2, <1>3, <1>4, <1>5, <1>6, <1>7 DEF Submit, RunSweep, WalkIn, CheckIn, CheckOut,
     UndoCheckIn, UndoCheckOut
<1> QED BY <1>8 DEF Fresh

LEMMA SubmitKeepsOrder ==
  ASSUME TypeOK, OrderInvariant, NEW s \in Session, Submit(s) \/ RunSweep(s)
  PROVE  OrderInvariant'
<1>1. /\ ~tx[s].open /\ \A o \in Session \ {s} : tx'[o] = tx[o]
      /\ UNCHANGED lock
  BY SubmitWrites
<1>2. tx[s] = Idle
  BY <1>1 DEF OrderInvariant, WorksInOrder
<1>3. \A row \in Row : lock[row] # s
  BY <1>2, IdleFields DEF OrderInvariant, LocksItsUnits
<1>4. WorksInOrder(s)'
  BY OpensInOrder DEF WorksInOrder
<1>5. LocksItsUnits(s)'
  BY <1>1, <1>3 DEF LocksItsUnits
<1> QED BY <1>1, <1>4, <1>5, StepKeepsOrder

LEMMA SweepNextKeepsOrder ==
  ASSUME TypeOK, OrderInvariant, NEW s \in Session, NEW r, SweepNext(s, r)
  PROVE  OrderInvariant'
<1>1. tx[s] \in Request /\ WorksInOrder(s) /\ LocksItsUnits(s) /\ r \in tx[s].todo
  BY DEF TypeOK, OrderInvariant, SweepNext
<1> DEFINE new == UnitsOf(LinesOf(r))
<1>2. /\ tx'[s].todo = tx[s].todo \ {r} /\ tx'[s].release = tx[s].release \cup new
      /\ tx'[s].reserve = tx[s].reserve /\ tx'[s].done = tx[s].done
      /\ tx'[s].open = tx[s].open /\ tx'[s].counts = tx[s].counts
      /\ \A o \in Session \ {s} : tx'[o] = tx[o]
  BY <1>1 DEF SweepNext, TypeOK, Request
<1>3. UNCHANGED lock /\ Pending(s) = {} /\ tx[s].reserve = {} /\ tx[s].open
  BY <1>1, IdleFields DEF SweepNext, WorksInOrder
<1>4. \A u \in new : u.line.res = r
  BY DEF UnitsOf, LinesOf
<1> HIDE DEF new
<1>5. Pending(s)' \subseteq new
  BY <1>2, <1>3 DEF Pending
<1>6. \A u \in tx[s].done : u.line.res # r
  BY <1>1, <1>3 DEF WorksInOrder
<1>7. WorksInOrder(s)'
  BY <1>1, <1>2, <1>3, <1>4, <1>5, <1>6 DEF WorksInOrder
<1>8. LocksItsUnits(s)'
  BY <1>1, <1>2, <1>3 DEF LocksItsUnits
<1> QED BY <1>2, <1>3, <1>7, <1>8, StepKeepsOrder

(* The unit a request is done with next comes before what is left.         *)
LEMMA DoneInOrder ==
  ASSUME TypeOK, NEW s \in Session, WorksInOrder(s), NEW u, First(s, u),
         tx'[s].open = tx[s].open, tx'[s].todo = tx[s].todo,
         tx'[s].release = tx[s].release, tx'[s].reserve = tx[s].reserve,
         tx'[s].done = tx[s].done \cup {u}
  PROVE  WorksInOrder(s)'
<1>1. tx[s].open /\ u \in Pending(s) /\ u \in tx[s].release \cup tx[s].reserve
  BY IdleFields DEF WorksInOrder, First, Pending
<1>2. \A v \in Pending(s) \ {u} : u.line = v.line => u.night < v.night
  <2>1. ASSUME NEW v \in Pending(s) \ {u}, u.line = v.line
        PROVE  u.night < v.night
    <3>1. Before(s, u, v) /\ u \in Unit /\ v \in Unit
      BY PendingType DEF First
    <3>2. ~(u \in tx[s].release /\ v \in tx[s].reserve)
      BY <2>1 DEF WorksInOrder
    <3>3. ~LineBefore(u.line, v.line)
      BY <2>1, <3>1, LineBeforeAsymmetric DEF Unit
    <3> QED BY <3>1, <3>2, <3>3 DEF Before
  <2> QED BY <2>1
<1>3. Pending(s)' = Pending(s) \ {u}
  BY DEF Pending
<1> QED BY <1>1, <1>2, <1>3 DEF WorksInOrder

LEMMA ReleaseUnitKeepsOrder ==
  ASSUME TypeOK, OrderInvariant, NEW s \in Session, ReleaseUnit(s)
  PROVE  OrderInvariant'
<1>1. PICK u \in tx[s].release : ReleaseUnit(s)!(u)
  BY DEF ReleaseUnit
<1>2. /\ tx[s] \in Request /\ WorksInOrder(s) /\ LocksItsUnits(s)
      /\ u \in Unit /\ RowOf(u) \in Row /\ First(s, u)
  BY <1>1, RowOfType DEF TypeOK, Request, OrderInvariant, AtLock
<1>3. /\ tx'[s].todo = tx[s].todo /\ tx'[s].release = tx[s].release
      /\ tx'[s].reserve = tx[s].reserve /\ tx'[s].done = tx[s].done \cup {u}
      /\ tx'[s].open = tx[s].open
      /\ \A o \in Session \ {s} : tx'[o] = tx[o]
  BY <1>1, <1>2 DEF TypeOK, Request
<1>4. \A row \in Row : lock'[row] = IF row = RowOf(u) THEN s ELSE lock[row]
  BY <1>1, <1>2 DEF TypeOK
<1>5. WorksInOrder(s)'
  BY <1>2, <1>3, DoneInOrder
<1>6. ASSUME tx[s].counts # 0, NEW v \in tx[s].reserve, First(s, v)
      PROVE  FALSE
  <2>1. tx[s].release \cap tx[s].reserve = {}
    BY <1>2 DEF WorksInOrder
  <2> QED BY <1>1, <1>2, <1>6, <2>1, FirstOnly
<1>7. LocksItsUnits(s)'
  BY <1>2, <1>3, <1>4, <1>6 DEF LocksItsUnits
<1> QED BY <1>3, <1>4, <1>5, <1>7, StepKeepsOrder

LEMMA ReserveUnitKeepsOrder ==
  ASSUME TypeOK, OrderInvariant, NEW s \in Session, ReserveUnit(s)
  PROVE  OrderInvariant'
<1>1. PICK u \in tx[s].reserve : ReserveUnit(s)!(u)
  BY DEF ReserveUnit
<1>2. tx[s] \in Request /\ WorksInOrder(s) /\ LocksItsUnits(s)
  BY DEF TypeOK, OrderInvariant
<1>3. /\ tx'[s].todo = tx[s].todo /\ tx'[s].release = tx[s].release
      /\ tx'[s].reserve = tx[s].reserve /\ tx'[s].done = tx[s].done \cup {u}
      /\ tx'[s].open = tx[s].open
      /\ \A o \in Session \ {s} : tx'[o] = tx[o]
  BY <1>1, <1>2 DEF TypeOK, Request
<1>4. UNCHANGED lock /\ First(s, u) /\ tx[s].release \cap tx[s].reserve = {}
  BY <1>1, <1>2 DEF WorksInOrder
<1>5. WorksInOrder(s)'
  BY <1>2, <1>3, <1>4, DoneInOrder
<1>6. \A v : First(s, v) => v = u
  BY <1>4, FirstOnly
<1>7. LocksItsUnits(s)'
  BY <1>2, <1>3, <1>4, <1>6 DEF LocksItsUnits
<1> QED BY <1>3, <1>4, <1>5, <1>7, StepKeepsOrder

(* Steps that only read.                                                   *)
LEMMA ReadKeepsOrder ==
  ASSUME TypeOK, OrderInvariant, NEW s \in Session, tx[s].open,
         tx'[s].open = tx[s].open, tx'[s].todo = tx[s].todo,
         tx'[s].release = tx[s].release, tx'[s].reserve = tx[s].reserve,
         tx'[s].done = tx[s].done, \A o \in Session \ {s} : tx'[o] = tx[o],
         \A row \in Row : lock'[row] \in {s, lock[row]},
         LocksItsUnits(s)'
  PROVE  OrderInvariant'
<1>1. WorksInOrder(s)'
  BY DEF OrderInvariant, WorksInOrder, Pending
<1> QED BY <1>1, StepKeepsOrder

LEMMA LoadRoomTypeKeepsOrder ==
  ASSUME TypeOK, OrderInvariant, NEW s \in Session, LoadRoomType(s)
  PROVE  OrderInvariant'
<1>1. PICK u \in tx[s].reserve : LoadRoomType(s)!(u)
  BY DEF LoadRoomType
<1>2. tx[s] \in Request /\ WorksInOrder(s) /\ LocksItsUnits(s) /\ tx[s].open
  BY IdleFields DEF TypeOK, OrderInvariant, WorksInOrder
<1>3. /\ tx'[s].todo = tx[s].todo /\ tx'[s].release = tx[s].release
      /\ tx'[s].reserve = tx[s].reserve /\ tx'[s].done = tx[s].done
      /\ tx'[s].open = tx[s].open /\ tx'[s].counts = tx[s].counts
      /\ \A o \in Session \ {s} : tx'[o] = tx[o]
  BY <1>1, <1>2 DEF TypeOK, Request
<1>4. UNCHANGED lock
  BY <1>1
<1>5. LocksItsUnits(s)'
  BY <1>2, <1>3, <1>4, FirstStable DEF LocksItsUnits
<1> QED BY <1>2, <1>3, <1>4, <1>5, ReadKeepsOrder

LEMMA LockAndCountRoomsKeepsOrder ==
  ASSUME TypeOK, OrderInvariant, NEW s \in Session, LockAndCountRooms(s)
  PROVE  OrderInvariant'
<1>1. PICK u \in tx[s].reserve : LockAndCountRooms(s)!(u)
  BY DEF LockAndCountRooms
<1>2. /\ tx[s] \in Request /\ WorksInOrder(s) /\ LocksItsUnits(s) /\ tx[s].open
      /\ u \in Unit /\ RowOf(u) \in Row /\ First(s, u) /\ tx[s].counts = 0
  BY <1>1, RowOfType, IdleFields DEF TypeOK, Request, OrderInvariant, WorksInOrder, AtLock
<1>3. /\ tx'[s].todo = tx[s].todo /\ tx'[s].release = tx[s].release
      /\ tx'[s].reserve = tx[s].reserve /\ tx'[s].done = tx[s].done
      /\ tx'[s].open = tx[s].open /\ tx'[s].counts = 1
      /\ \A o \in Session \ {s} : tx'[o] = tx[o]
  BY <1>1, <1>2 DEF TypeOK, Request
<1>4. \A row \in Row : lock'[row] = IF row = RowOf(u) THEN s ELSE lock[row]
  BY <1>1, <1>2 DEF TypeOK
<1>5. First(s, u)'
  BY <1>2, <1>3, FirstStable
<1>6. LocksItsUnits(s)'
  BY <1>2, <1>3, <1>4, <1>5 DEF LocksItsUnits
<1> QED BY <1>2, <1>3, <1>4, <1>6, ReadKeepsOrder

LEMMA CountRoomBlocksKeepsOrder ==
  ASSUME TypeOK, OrderInvariant, NEW s \in Session, CountRoomBlocks(s)
  PROVE  OrderInvariant'
<1>1. PICK u \in tx[s].reserve : CountRoomBlocks(s)!(u)
  BY DEF CountRoomBlocks
<1>2. tx[s] \in Request /\ WorksInOrder(s) /\ LocksItsUnits(s) /\ tx[s].open
  BY IdleFields DEF TypeOK, OrderInvariant, WorksInOrder
<1>3. /\ tx'[s].todo = tx[s].todo /\ tx'[s].release = tx[s].release
      /\ tx'[s].reserve = tx[s].reserve /\ tx'[s].done = tx[s].done
      /\ tx'[s].open = tx[s].open /\ tx[s].counts = 1 /\ tx'[s].counts = 2
      /\ \A o \in Session \ {s} : tx'[o] = tx[o]
  BY <1>1, <1>2 DEF TypeOK, Request
<1>4. UNCHANGED lock
  BY <1>1
<1>5. LocksItsUnits(s)'
  BY <1>2, <1>3, <1>4, FirstStable DEF LocksItsUnits
<1> QED BY <1>2, <1>3, <1>4, <1>5, ReadKeepsOrder

LEMMA CloseKeepsOrder ==
  ASSUME TypeOK, OrderInvariant, NEW s \in Session, Close(s)
  PROVE  OrderInvariant'
<1>1. /\ tx'[s] = Idle /\ \A o \in Session \ {s} : tx'[o] = tx[o]
      /\ \A row \in Row : lock'[row] = IF lock[row] = s THEN NoSession ELSE lock[row]
  BY CloseFields
<1>2. Idle' = Idle
  BY DEF Idle
<1>3. WorksInOrder(s)'
  BY <1>1, <1>2, IdleFields DEF WorksInOrder
<1>4. LocksItsUnits(s)'
  BY <1>1, SessionsAssumption DEF LocksItsUnits
<1> QED BY <1>1, <1>3, <1>4, StepKeepsOrder

LEMMA NextKeepsOrder == TypeOK /\ OrderInvariant /\ [Next]_vars => OrderInvariant'
<1> SUFFICES ASSUME TypeOK, OrderInvariant, [Next]_vars PROVE OrderInvariant'
  OBVIOUS
<1>1. ASSUME UNCHANGED <<tx, lock>> PROVE OrderInvariant'
  BY <1>1, OrderFrame DEF OrderInvariant
<1>2. CASE UNCHANGED vars
  BY <1>1, <1>2 DEF vars, reservationVars
<1>3. CASE EditInventory
  BY <1>1, <1>3 DEF EditInventory
<1>4. ASSUME NEW s \in Session, Submit(s) \/ RunSweep(s) PROVE OrderInvariant'
  BY <1>4, SubmitKeepsOrder
<1>5. ASSUME NEW s \in Session, Commit(s) \/ Refuse(s) \/ Fail(s) \/ DeadlockVictim(s)
      PROVE  OrderInvariant'
  BY <1>5, CloseKeepsOrder DEF Commit, Refuse, Fail, DeadlockVictim, Rollback
<1>6. ASSUME NEW s \in Session, Proceed(s) PROVE OrderInvariant'
  BY <1>5, <1>6, SweepNextKeepsOrder, ReleaseUnitKeepsOrder, LoadRoomTypeKeepsOrder,
     LockAndCountRoomsKeepsOrder, CountRoomBlocksKeepsOrder, ReserveUnitKeepsOrder DEF Proceed
<1> QED BY <1>2, <1>3, <1>4, <1>5, <1>6 DEF Next

LEMMA InitOrder == Init => OrderInvariant
BY IdleFields, SessionsAssumption DEF Init, OrderInvariant, WorksInOrder, LocksItsUnits

(* With finitely many request threads, a cycle of requests each waiting    *)
(* for a row another has locked always contains one that handles several   *)
(* lines: the nights of one line are locked in ascending order, so along a *)
(* chain of one-line requests the night waited for only grows.  Requests   *)
(* on one reservation may overlap.                                         *)
THEOREM DeadlockOnlyWithManyLines ==
  IsFiniteSet(Session) => (Spec => []DeadlockNeedsManyLines)
<1> SUFFICES ASSUME IsFiniteSet(Session) PROVE Spec => []DeadlockNeedsManyLines
  OBVIOUS
<1>1. TypeOK /\ OrderInvariant => DeadlockNeedsManyLines
  BY OrderBreaksKnots
<1> QED BY <1>1, InitOrder, NextKeepsOrder, TypeCorrect, PTL DEF Spec

--------------------------------------------------------------------------------
(* The windows of open requests.                                           *)

(* What a window allows, it allows for fewer units and in a wider window.  *)
LEMMA AllowedMonotone ==
  ASSUME NEW n \in Nat, NEW m \in Nat, m <= n, NEW W \in SUBSET SupplyRecord,
         NEW V \in SUBSET SupplyRecord, W \subseteq V, Sales!Allowed(n, W)
  PROVE  Sales!Allowed(m, V)
<1>1. PICK a \in W, b \in W, c \in W, d \in W :
        n <= Capacity([allowance |-> a.allowance, active |-> b.active,
                       roomBlocks |-> c.roomBlocks, typeBlocks |-> d.typeBlocks])
  BY DEF Sales!Allowed
<1> DEFINE q == [allowance |-> a.allowance, active |-> b.active,
                 roomBlocks |-> c.roomBlocks, typeBlocks |-> d.typeBlocks]
<1>2. Capacity(q) \in Nat
  <2>1. q \in SupplyRecord
    BY DEF SupplyRecord
  <2> QED BY <2>1, CapacityType
<1> HIDE DEF q
<1>3. m <= Capacity(q)
  <2>1. n <= Capacity(q)
    BY <1>1 DEF q
  <2> QED BY <1>2, <2>1
<1> QED BY <1>3 DEF Sales!Allowed, q

--------------------------------------------------------------------------------
(* What an open request has read stays in its window while the window only *)
(* grows.                                                                  *)
LEMMA WindowGrows ==
  ASSUME TypeOK, TypeOK', NEW s \in Session, SeenInWindow(s), tx'[s] = tx[s],
         \A row \in Row : window[s][row] \subseteq window'[s][row]
  PROVE  SeenInWindow(s)'
<1>1. \A u : First(s, u)' <=> First(s, u)
  BY FirstStable
<1>2. tx[s] \in Request
  BY DEF TypeOK
<1>3. ASSUME tx[s].rt # None, NEW d \in Day
      PROVE  \E a \in window'[s][<<tx[s].rt.type, d>>] : a.allowance = tx[s].seen.allowance
  <2>1. <<tx[s].rt.type, d>> \in Row
    BY <1>2, <1>3 DEF Request, Line, Row
  <2> QED BY <1>3, <2>1 DEF SeenInWindow
<1>4. \A u \in tx[s].reserve : RowOf(u) \in Row
  BY <1>2, RowOfType DEF Request
<1> QED BY <1>1, <1>3, <1>4 DEF SeenInWindow

(* A request between two units needs only what it keeps of its reading.    *)
LEMMA WindowBetweenUnits ==
  ASSUME NEW s \in Session, SeenInWindow(s), window'[s] = window[s], tx'[s].counts = 0,
         tx'[s].rt # None => tx'[s].rt = tx[s].rt /\ tx'[s].seen.allowance = tx[s].seen.allowance
  PROVE  SeenInWindow(s)'
BY DEF SeenInWindow

(* What a step of s inside its transaction leaves to show.                 *)
LEMMA StepKeepsWindow ==
  ASSUME LedgerInvariant, TypeOK', WindowInvariant, NEW s \in Session,
         UNCHANGED <<inventory, window, sold>>, tx[s].open, tx'[s].open,
         \A o \in Session \ {s} : tx'[o] = tx[o],
         SeenInWindow(s)',
         \A row \in Row : lock'[row] = lock[row] \/ (lock[row] = NoSession /\ lock'[row] = s),
         \A row \in Row : draft'[row] <= draft[row] \/ DraftAllowed(row)'
  PROVE  WindowInvariant'
<1>1. TypeOK /\ \A row \in Row : RowSupply(row)' = RowSupply(row)
  BY FixedSupply DEF LedgerInvariant
<1>2. ASSUME NEW o \in Session PROVE WindowIsOpen(o)' /\ SeenInWindow(o)'
  <2>1. WindowIsOpen(o) /\ SeenInWindow(o) /\ tx'[o].open = tx[o].open
    BY DEF WindowInvariant, TypeOK, Request
  <2>2. WindowIsOpen(o)'
    BY <1>1, <2>1 DEF WindowIsOpen, NoWindow
  <2>3. CASE o = s
    BY <2>2, <2>3
  <2>4. CASE o # s
    BY <1>1, <2>1, <2>2, <2>4, WindowGrows
  <2> QED BY <2>3, <2>4
<1>3. ASSUME NEW row \in Row PROVE DraftAllowed(row)'
  <2>1. CASE DraftAllowed(row)'
    BY <2>1
  <2>2. CASE draft'[row] <= draft[row]
    <3>1. draft[row] \in Nat /\ draft'[row] \in Nat /\ sold[row] \in Nat /\ sold'[row] = sold[row]
      BY <1>1 DEF TypeOK
    <3>2. CASE lock[row] = NoSession
      BY <2>2, <3>1, <3>2 DEF LedgerInvariant, DraftsMatchPlans, LedgerMatchesBookings, DraftAllowed
    <3>3. CASE lock[row] # NoSession
      <4>1. lock'[row] = lock[row] /\ lock[row] \in Session
        BY <1>1, <3>3 DEF TypeOK
      <4> DEFINE W == window[lock[row]][row]
      <4>2. W \in SUBSET SupplyRecord
        BY <1>1, <4>1 DEF TypeOK
      <4>3. draft[row] <= sold[row] \/ Sales!Allowed(draft[row], W)
        BY <3>3 DEF WindowInvariant, DraftAllowed
      <4>4. draft[row] <= sold[row] => draft'[row] <= sold[row]
        BY <2>2, <3>1
      <4>5. Sales!Allowed(draft[row], W) => Sales!Allowed(draft'[row], W)
        BY <2>2, <3>1, <4>2, AllowedMonotone
      <4> HIDE DEF W
      <4>6. draft'[row] <= sold'[row] \/ Sales!Allowed(draft'[row], W)
        BY <3>1, <4>3, <4>4, <4>5
      <4>7. window'[lock'[row]][row] = W
        BY <4>1 DEF W
      <4>8. draft'[row] <= sold'[row] \/ Sales!Allowed(draft'[row], window'[lock'[row]][row])
        BY <4>6, <4>7
      <4> QED BY <4>8 DEF DraftAllowed, Sales!Allowed
    <3> QED BY <3>2, <3>3
  <2> QED BY <2>1, <2>2
<1> QED BY <1>2, <1>3 DEF WindowInvariant

LEMMA SweepNextKeepsWindow ==
  ASSUME LedgerInvariant, TypeOK', WindowInvariant, NEW s \in Session, NEW r, SweepNext(s, r)
  PROVE  WindowInvariant'
<1>1. tx[s] \in Request /\ tx[s].open
  BY DEF SweepNext, LedgerInvariant, TypeOK, Apart, Idle
<1>2. /\ tx'[s].open /\ tx'[s].rt = tx[s].rt /\ tx'[s].counts = tx[s].counts
      /\ tx'[s].seen = tx[s].seen
      /\ \A o \in Session \ {s} : tx'[o] = tx[o]
  BY <1>1 DEF SweepNext, LedgerInvariant, TypeOK, Request
<1>3. UNCHANGED <<inventory, window, sold, draft, lock>> /\ tx[s].counts = 0
  BY NotCounting DEF SweepNext
<1>4. SeenInWindow(s)'
  BY <1>2, <1>3, WindowBetweenUnits DEF WindowInvariant
<1>5. \A row \in Row : draft'[row] <= draft[row]
  BY <1>3 DEF LedgerInvariant, TypeOK
<1> QED BY <1>1, <1>2, <1>3, <1>4, <1>5, StepKeepsWindow

LEMMA ReleaseUnitKeepsWindow ==
  ASSUME LedgerInvariant, TypeOK', WindowInvariant, NEW s \in Session, ReleaseUnit(s)
  PROVE  WindowInvariant'
<1> USE DEF LedgerInvariant
<1>1. PICK u \in tx[s].release : ReleaseUnit(s)!(u)
  BY DEF ReleaseUnit
<1>2. tx[s] \in Request /\ u \in Unit /\ RowOf(u) \in Row /\ tx[s].open
  BY RowOfType DEF TypeOK, Request, Apart, Idle
<1>3. /\ tx'[s].open /\ tx'[s].rt = tx[s].rt /\ tx'[s].counts = tx[s].counts
      /\ tx'[s].seen = tx[s].seen
      /\ \A o \in Session \ {s} : tx'[o] = tx[o]
  BY <1>1, <1>2 DEF TypeOK, Request
<1>4. UNCHANGED <<inventory, window, sold>> /\ tx[s].counts = 0
  BY <1>1, NotCounting DEF AtLock
<1>5. SeenInWindow(s)'
  BY <1>3, <1>4, WindowBetweenUnits DEF WindowInvariant
<1>6. \A row \in Row : lock'[row] = lock[row] \/ (lock[row] = NoSession /\ lock'[row] = s)
  BY <1>1, <1>2 DEF TypeOK, FreeFor
<1>7. ASSUME NEW row \in Row PROVE draft'[row] <= draft[row]
  <2>1. draft'[row] = IF row = RowOf(u) THEN Released(draft[row]) ELSE draft[row]
    BY <1>1, <1>2 DEF TypeOK
  <2>2. draft[row] \in Nat
    BY DEF TypeOK
  <2> QED BY <2>1, <2>2 DEF Released, Max2
<1> QED BY <1>2, <1>3, <1>4, <1>5, <1>6, <1>7, StepKeepsWindow

LEMMA LoadRoomTypeKeepsWindow ==
  ASSUME LedgerInvariant, TypeOK', WindowInvariant, NEW s \in Session, LoadRoomType(s)
  PROVE  WindowInvariant'
<1> USE DEF LedgerInvariant
<1>1. PICK u \in tx[s].reserve : LoadRoomType(s)!(u)
  BY DEF LoadRoomType
<1>2. tx[s] \in Request /\ u \in Unit /\ tx[s].open
  BY DEF TypeOK, Request, Apart, Idle
<1>3. /\ tx'[s].open /\ tx'[s].rt = u.line /\ tx'[s].counts = tx[s].counts
      /\ tx'[s].seen.allowance = allowance[u.line.type]
      /\ \A o \in Session \ {s} : tx'[o] = tx[o]
  BY <1>1, <1>2 DEF TypeOK, Request, SupplyRecord
<1>4. UNCHANGED <<inventory, window, sold, draft, lock>>
  BY <1>1
<1>5. tx[s].counts = 0
  BY <1>1 DEF WindowInvariant, SeenInWindow
<1>6. ASSUME NEW d \in Day
      PROVE  \E a \in window[s][<<u.line.type, d>>] : a.allowance = allowance[u.line.type]
  <2>1. <<u.line.type, d>> \in Row
    BY <1>2 DEF Unit, Line, Row
  <2>2. RowSupply(<<u.line.type, d>>) \in window[s][<<u.line.type, d>>]
    BY <1>2, <2>1 DEF WindowInvariant, WindowIsOpen
  <2>3. RowSupply(<<u.line.type, d>>).allowance = allowance[u.line.type]
    BY DEF RowSupply, Supply
  <2> QED BY <2>2, <2>3
<1>7. SeenInWindow(s)'
  BY <1>3, <1>4, <1>5, <1>6 DEF SeenInWindow
<1>8. \A row \in Row : draft'[row] <= draft[row]
  BY <1>4 DEF TypeOK
<1> QED BY <1>2, <1>3, <1>4, <1>7, <1>8, StepKeepsWindow

LEMMA LockAndCountRoomsKeepsWindow ==
  ASSUME LedgerInvariant, TypeOK', WindowInvariant, NEW s \in Session, LockAndCountRooms(s)
  PROVE  WindowInvariant'
<1> USE DEF LedgerInvariant
<1>1. PICK u \in tx[s].reserve : LockAndCountRooms(s)!(u)
  BY DEF LockAndCountRooms
<1>2. /\ tx[s] \in Request /\ PlanMatchesLedger(s) /\ tx[s].open
      /\ u \in Unit /\ RowOf(u) \in Row /\ RowOf(u) = <<u.line.type, u.night>>
  BY <1>1, RowOfType DEF TypeOK, Plan, Apart, Idle, Request
<1>3. /\ tx'[s].open /\ tx'[s].rt = tx[s].rt /\ tx'[s].counts = 1
      /\ tx'[s].seen.allowance = tx[s].seen.allowance
      /\ tx'[s].seen.active = ActiveRoomCount(u.line.type)
      /\ tx'[s].release = tx[s].release /\ tx'[s].reserve = tx[s].reserve
      /\ tx'[s].done = tx[s].done
      /\ \A o \in Session \ {s} : tx'[o] = tx[o]
  BY <1>1, <1>2 DEF TypeOK, Request, SupplyRecord, RowOf
<1>4. UNCHANGED <<inventory, window, sold, draft>> /\ tx[s].rt = u.line
  BY <1>1 DEF AtLock
<1>5. \A v : First(s, v)' => v = u
  BY <1>1, <1>2, <1>3, FirstStable, FirstUnique DEF AtLock
<1>6. \E b \in window[s][RowOf(u)] : b.active = ActiveRoomCount(u.line.type)
  <2>1. RowSupply(RowOf(u)) \in window[s][RowOf(u)]
    BY <1>2 DEF WindowInvariant, WindowIsOpen
  <2>2. RowSupply(RowOf(u)).active = ActiveRoomCount(u.line.type)
    BY <1>2 DEF RowSupply, Supply
  <2> QED BY <2>1, <2>2
<1>7. SeenInWindow(s)'
  <2>1. SeenInWindow(s)
    BY DEF WindowInvariant
  <2> QED BY <1>3, <1>4, <1>5, <1>6, <2>1 DEF SeenInWindow
<1>8. \A row \in Row : lock'[row] = lock[row] \/ (lock[row] = NoSession /\ lock'[row] = s)
  BY <1>1, <1>2 DEF TypeOK, FreeFor
<1>9. \A row \in Row : draft'[row] <= draft[row]
  BY <1>4 DEF TypeOK
<1> QED BY <1>2, <1>3, <1>4, <1>7, <1>8, <1>9, StepKeepsWindow

LEMMA CountRoomBlocksKeepsWindow ==
  ASSUME LedgerInvariant, TypeOK', WindowInvariant, NEW s \in Session, CountRoomBlocks(s)
  PROVE  WindowInvariant'
<1> USE DEF LedgerInvariant
<1>1. PICK u \in tx[s].reserve : CountRoomBlocks(s)!(u)
  BY DEF CountRoomBlocks
<1>2. /\ tx[s] \in Request /\ PlanMatchesLedger(s) /\ tx[s].open
      /\ u \in Unit /\ RowOf(u) \in Row /\ RowOf(u) = <<u.line.type, u.night>>
  BY <1>1, RowOfType DEF TypeOK, Plan, Apart, Idle, Request
<1>3. /\ tx'[s].open /\ tx'[s].rt = tx[s].rt /\ tx'[s].counts = 2
      /\ tx'[s].seen.allowance = tx[s].seen.allowance
      /\ tx'[s].seen.active = tx[s].seen.active
      /\ tx'[s].seen.roomBlocks = RoomBlocks(u.line.type, u.night)
      /\ tx'[s].release = tx[s].release /\ tx'[s].reserve = tx[s].reserve
      /\ tx'[s].done = tx[s].done
      /\ \A o \in Session \ {s} : tx'[o] = tx[o]
  BY <1>1, <1>2 DEF TypeOK, Request, SupplyRecord
<1>4. UNCHANGED <<inventory, window, sold, draft, lock>>
  BY <1>1
<1>5. \A v : First(s, v)' => v = u
  BY <1>1, <1>2, <1>3, FirstStable, FirstUnique
<1>6. \E c \in window[s][RowOf(u)] : c.roomBlocks = RoomBlocks(u.line.type, u.night)
  <2>1. RowSupply(RowOf(u)) \in window[s][RowOf(u)]
    BY <1>2 DEF WindowInvariant, WindowIsOpen
  <2>2. RowSupply(RowOf(u)).roomBlocks = RoomBlocks(u.line.type, u.night)
    BY <1>2 DEF RowSupply, Supply
  <2> QED BY <2>1, <2>2
<1>7. SeenInWindow(s)'
  <2>1. SeenInWindow(s)
    BY DEF WindowInvariant
  <2>2. tx[s].rt = u.line /\ \E b \in window[s][RowOf(u)] : b.active = tx[s].seen.active
    BY <1>1, <2>1 DEF SeenInWindow
  <2>3. tx'[s].rt # None =>
          \A d \in Day : \E a \in window'[s][<<tx'[s].rt.type, d>>] :
            a.allowance = tx'[s].seen.allowance
    BY <1>3, <1>4, <2>1 DEF SeenInWindow
  <2> QED BY <1>3, <1>4, <1>5, <1>6, <2>2, <2>3 DEF SeenInWindow
<1>9. \A row \in Row : draft'[row] <= draft[row]
  BY <1>4 DEF TypeOK
<1> QED BY <1>2, <1>3, <1>4, <1>7, <1>9, StepKeepsWindow

(* The check of the last night used values of the request's window: the    *)
(* count it arrives at is one the window allows.                           *)
LEMMA ReserveUnitKeepsWindow ==
  ASSUME LedgerInvariant, TypeOK', WindowInvariant, NEW s \in Session, ReserveUnit(s)
  PROVE  WindowInvariant'
<1> USE DEF LedgerInvariant
<1>1. PICK u \in tx[s].reserve : ReserveUnit(s)!(u)
  BY DEF ReserveUnit
<1>2. /\ tx[s] \in Request /\ PlanMatchesLedger(s) /\ CountingIsLocked(s) /\ tx[s].open
      /\ u \in Unit /\ RowOf(u) \in Row /\ RowOf(u) = <<u.line.type, u.night>>
  BY <1>1, RowOfType DEF TypeOK, Plan, Apart, Idle, Request
<1>3. /\ tx'[s].open /\ tx'[s].counts = 0
      /\ tx'[s].rt # None => tx'[s].rt = tx[s].rt /\ tx'[s].seen.allowance = tx[s].seen.allowance
      /\ \A o \in Session \ {s} : tx'[o] = tx[o]
  BY <1>1, <1>2 DEF TypeOK, Request, NothingSeen
<1>4. UNCHANGED <<inventory, window, sold, lock>>
  BY <1>1
<1>5. SeenInWindow(s) /\ SeenInWindow(s)'
  BY <1>3, <1>4, WindowBetweenUnits DEF WindowInvariant
<1>6. lock[RowOf(u)] = s
  BY <1>1, <1>2, FirstUnique DEF CountingIsLocked
<1> DEFINE W == window[s][RowOf(u)]
<1>7. Sales!Allowed(draft[RowOf(u)] + 1, W)
  <2>1. tx[s].rt = u.line /\ tx[s].rt # None /\ u.night \in Day
    BY <1>1, <1>2, <1>5, NoneAssumption DEF SeenInWindow, Unit
  <2>2. PICK a \in W : a.allowance = tx[s].seen.allowance
    BY <1>2, <1>5, <2>1 DEF SeenInWindow
  <2>3. PICK b \in W : b.active = tx[s].seen.active
    BY <1>1, <1>5 DEF SeenInWindow
  <2>4. PICK c \in W : c.roomBlocks = tx[s].seen.roomBlocks
    BY <1>1, <1>5 DEF SeenInWindow
  <2> DEFINE d == RowSupply(RowOf(u))
  <2>5. d \in W /\ d.typeBlocks = TypeBlocks(u.line.type, u.night)
    BY <1>2 DEF WindowInvariant, WindowIsOpen, RowSupply, Supply
  <2>6. SeenFor(s, u) = [allowance |-> a.allowance, active |-> b.active,
                         roomBlocks |-> c.roomBlocks, typeBlocks |-> d.typeBlocks]
    <3>1. tx[s].seen \in SupplyRecord
      BY <1>2 DEF Request
    <3> QED BY <2>2, <2>3, <2>4, <2>5, <3>1 DEF SeenFor, SupplyRecord
  <2>7. draft[RowOf(u)] + 1 <= Capacity(SeenFor(s, u))
    BY <1>1 DEF Fits
  <2> HIDE DEF d, W
  <2> QED BY <2>2, <2>3, <2>4, <2>5, <2>6, <2>7 DEF Sales!Allowed
<1>8. ASSUME NEW row \in Row PROVE draft'[row] <= draft[row] \/ DraftAllowed(row)'
  <2>1. draft'[row] = IF row = RowOf(u) THEN draft[row] + 1 ELSE draft[row]
    BY <1>1, <1>2 DEF TypeOK, Reserved
  <2>2. CASE row = RowOf(u)
    <3>1. Sales!Allowed(draft'[row], window'[lock'[row]][row])
      BY <1>4, <1>6, <1>7, <2>1, <2>2
    <3> QED BY <3>1 DEF DraftAllowed, Sales!Allowed
  <2>3. CASE row # RowOf(u)
    BY <2>1, <2>3 DEF TypeOK
  <2> QED BY <2>2, <2>3
<1> QED BY <1>2, <1>3, <1>4, <1>5, <1>8, StepKeepsWindow

LEMMA SubmitKeepsWindow ==
  ASSUME LedgerInvariant, TypeOK', WindowInvariant, NEW s \in Session, Submit(s) \/ RunSweep(s)
  PROVE  WindowInvariant'
<1>1. /\ ~tx[s].open /\ tx'[s].open /\ tx'[s].rt = None /\ tx'[s].counts = 0
      /\ \A o \in Session \ {s} : tx'[o] = tx[o]
      /\ window' = [window EXCEPT ![s] = [row \in Row |-> {RowSupply(row)}]]
      /\ UNCHANGED <<inventory, sold, draft, lock>>
  BY SubmitWrites DEF LedgerInvariant
<1>2. /\ TypeOK /\ window'[s] = [row \in Row |-> {RowSupply(row)}]
      /\ \A o \in Session \ {s} : window'[o] = window[o]
      /\ \A row \in Row : RowSupply(row)' = RowSupply(row)
  BY <1>1, FixedSupply DEF LedgerInvariant, TypeOK
<1>3. ASSUME NEW o \in Session PROVE WindowIsOpen(o)' /\ SeenInWindow(o)'
  <2>1. WindowIsOpen(o) /\ SeenInWindow(o)
    BY DEF WindowInvariant
  <2>2. CASE o = s
    BY <1>1, <1>2, <2>2 DEF WindowIsOpen, SeenInWindow
  <2>3. CASE o # s
    <3>1. WindowIsOpen(o)'
      BY <1>1, <1>2, <2>1, <2>3 DEF WindowIsOpen, NoWindow
    <3>2. SeenInWindow(o)'
      BY <1>1, <1>2, <2>1, <2>3, WindowGrows
    <3> QED BY <3>1, <3>2
  <2> QED BY <2>2, <2>3
<1>4. ASSUME NEW row \in Row, lock'[row] # NoSession
      PROVE  draft'[row] <= sold'[row] \/ Sales!Allowed(draft'[row], window'[lock'[row]][row])
  <2>1. lock[row] \in Session /\ lock[row] # s
    BY <1>1, <1>2, <1>4 DEF LedgerInvariant, LocksInOrder, TypeOK
  <2>2. draft[row] <= sold[row] \/ Sales!Allowed(draft[row], window[lock[row]][row])
    BY <1>1, <1>4 DEF WindowInvariant, DraftAllowed
  <2> QED BY <1>1, <1>2, <2>1, <2>2
<1> QED BY <1>3, <1>4 DEF WindowInvariant, DraftAllowed, Sales!Allowed

LEMMA CloseKeepsWindow ==
  ASSUME LedgerInvariant, TypeOK', WindowInvariant, NEW s \in Session, Commit(s) \/ Rollback(s)
  PROVE  WindowInvariant'
<1>1. Close(s) /\ TypeOK
  BY DEF Commit, Rollback, LedgerInvariant
<1>2. /\ tx'[s] = Idle /\ UNCHANGED inventory
      /\ \A o \in Session \ {s} : tx'[o] = tx[o] /\ window'[o] = window[o]
      /\ window'[s] = NoWindow
      /\ \A row \in Row : lock'[row] = IF lock[row] = s THEN NoSession ELSE lock[row]
      /\ \A row \in Row : RowSupply(row)' = RowSupply(row)
  BY <1>1, CloseFields, FixedSupply DEF Close, TypeOK
<1>3. \A row \in Row : lock[row] # s => sold'[row] = sold[row] /\ draft'[row] = draft[row]
  BY <1>1 DEF Commit, Rollback, Owns
<1>4. ASSUME NEW o \in Session PROVE WindowIsOpen(o)' /\ SeenInWindow(o)'
  <2>1. WindowIsOpen(o) /\ SeenInWindow(o)
    BY DEF WindowInvariant
  <2>2. CASE o = s
    BY <1>2, <2>2 DEF Idle, WindowIsOpen, SeenInWindow, NoWindow
  <2>3. CASE o # s
    <3>1. WindowIsOpen(o)'
      BY <1>2, <2>1, <2>3 DEF WindowIsOpen, NoWindow
    <3>2. SeenInWindow(o)'
      BY <1>1, <1>2, <2>1, <2>3, WindowGrows
    <3> QED BY <3>1, <3>2
  <2> QED BY <2>2, <2>3
<1>5. ASSUME NEW row \in Row, lock'[row] # NoSession
      PROVE  draft'[row] <= sold'[row] \/ Sales!Allowed(draft'[row], window'[lock'[row]][row])
  <2>1. lock'[row] = lock[row] /\ lock[row] \in Session /\ lock[row] # s
    BY <1>1, <1>2, <1>5 DEF TypeOK
  <2>2. draft[row] <= sold[row] \/ Sales!Allowed(draft[row], window[lock[row]][row])
    BY <1>5, <2>1 DEF WindowInvariant, DraftAllowed
  <2> QED BY <1>2, <1>3, <2>1, <2>2
<1> QED BY <1>4, <1>5 DEF WindowInvariant, DraftAllowed, Sales!Allowed

LEMMA EditKeepsWindow ==
  ASSUME LedgerInvariant, TypeOK', WindowInvariant, EditInventory
  PROVE  WindowInvariant'
<1>1. UNCHANGED <<status, lines, sold, draft, lock, tx>> /\ TypeOK
  BY DEF EditInventory, LedgerInvariant
<1>2. \A s \in Session, row \in Row :
        window'[s][row] = IF tx[s].open THEN window[s][row] \cup {RowSupply(row)'} ELSE {}
  BY DEF EditInventory
<1>3. ASSUME NEW o \in Session PROVE WindowIsOpen(o)' /\ SeenInWindow(o)'
  <2>1. WindowIsOpen(o) /\ SeenInWindow(o)
    BY DEF WindowInvariant
  <2>2. ASSUME NEW row \in Row PROVE window[o][row] \subseteq window'[o][row]
    <3>1. CASE tx[o].open
      <4>1. window'[o][row] = window[o][row] \cup {RowSupply(row)'}
        BY <1>2, <3>1
      <4> QED BY <4>1
    <3>2. CASE ~tx[o].open
      BY <2>1, <3>2 DEF WindowIsOpen, NoWindow
    <3> QED BY <3>1, <3>2
  <2>3. WindowIsOpen(o)'
    BY <1>1, <2>1 DEF WindowIsOpen, NoWindow, EditInventory
  <2>4. SeenInWindow(o)'
    BY <1>1, <2>1, <2>2, WindowGrows
  <2> QED BY <2>3, <2>4
<1>4. ASSUME NEW row \in Row, lock'[row] # NoSession
      PROVE  draft'[row] <= sold'[row] \/ Sales!Allowed(draft'[row], window'[lock'[row]][row])
  <2>1. lock[row] \in Session /\ tx[lock[row]].open
    BY <1>1, <1>4 DEF LedgerInvariant, LocksInOrder, TypeOK
  <2> DEFINE V == window[lock[row]][row]
             W == window'[lock[row]][row]
  <2>2. V \subseteq W /\ V \in SUBSET SupplyRecord /\ W \in SUBSET SupplyRecord
    <3>1. window'[lock[row]][row] = window[lock[row]][row] \cup {RowSupply(row)'}
      BY <1>2, <2>1
    <3>2. V \subseteq W
      BY <3>1
    <3> QED BY <1>1, <2>1, <3>2 DEF TypeOK
  <2>3. draft[row] <= sold[row] \/ Sales!Allowed(draft[row], V)
    BY <1>1, <1>4 DEF WindowInvariant, DraftAllowed
  <2>4. draft[row] \in Nat
    BY <1>1 DEF TypeOK
  <2> HIDE DEF V, W
  <2>5. draft[row] <= sold[row] \/ Sales!Allowed(draft[row], W)
    BY <2>2, <2>3, <2>4, AllowedMonotone
  <2> QED BY <1>1, <2>5 DEF W
<1> QED BY <1>3, <1>4 DEF WindowInvariant, DraftAllowed, Sales!Allowed

LEMMA NextKeepsWindow ==
  LedgerInvariant /\ LedgerInvariant' /\ WindowInvariant /\ [Next]_vars => WindowInvariant'
<1> SUFFICES ASSUME LedgerInvariant, LedgerInvariant', WindowInvariant, [Next]_vars
             PROVE  WindowInvariant'
  OBVIOUS
<1>1. TypeOK /\ TypeOK'
  BY DEF LedgerInvariant
<1>2. CASE UNCHANGED vars
  <2>1. UNCHANGED <<sold, draft, lock, tx, window>> /\ UNCHANGED inventory
    BY <1>2 DEF vars, reservationVars
  <2>2. \A row \in Row : RowSupply(row)' = RowSupply(row)
    BY <2>1, FixedSupply
  <2>3. ASSUME NEW o \in Session PROVE WindowIsOpen(o)' /\ SeenInWindow(o)'
    <3>1. WindowIsOpen(o) /\ SeenInWindow(o)
      BY DEF WindowInvariant
    <3> QED BY <1>1, <2>1, <2>2, <3>1, WindowGrows DEF WindowIsOpen, NoWindow
  <2> QED BY <2>1, <2>3 DEF WindowInvariant, DraftAllowed, Sales!Allowed
<1>3. CASE EditInventory
  BY <1>1, <1>3, EditKeepsWindow
<1>4. ASSUME NEW s \in Session, Submit(s) \/ RunSweep(s) PROVE WindowInvariant'
  BY <1>1, <1>4, SubmitKeepsWindow
<1>5. ASSUME NEW s \in Session, Commit(s) \/ Refuse(s) \/ Fail(s) \/ DeadlockVictim(s)
      PROVE  WindowInvariant'
  BY <1>1, <1>5, CloseKeepsWindow DEF Refuse, Fail, DeadlockVictim
<1>6. ASSUME NEW s \in Session, Proceed(s) PROVE WindowInvariant'
  BY <1>1, <1>5, <1>6, SweepNextKeepsWindow, ReleaseUnitKeepsWindow, LoadRoomTypeKeepsWindow,
     LockAndCountRoomsKeepsWindow, CountRoomBlocksKeepsWindow, ReserveUnitKeepsWindow DEF Proceed
<1> QED BY <1>2, <1>3, <1>4, <1>5, <1>6 DEF Next


LEMMA InitWindow == Init => WindowInvariant
<1> SUFFICES ASSUME Init PROVE WindowInvariant
  OBVIOUS
<1>1. \A s \in Session : WindowIsOpen(s) /\ SeenInWindow(s)
  BY DEF Init, Idle, WindowIsOpen, SeenInWindow
<1>2. \A row \in Row : DraftAllowed(row)
  BY DEF Init, DraftAllowed
<1> QED BY <1>1, <1>2 DEF WindowInvariant

--------------------------------------------------------------------------------
(* The refinement: the initial state maps to an initial state and every    *)
(* step to a step of RoomSales or to none.                                 *)

LEMMA InitMaps == Init => Sales!Init
<1> SUFFICES ASSUME Init PROVE Sales!Init
  OBVIOUS
<1>1. LedgerInvariant
  BY InitInvariant
<1>2. \A row \in Row : HeldCount(row) = 0
  BY <1>1 DEF LedgerInvariant, LedgerMatchesBookings, Init
<1>3. \A row \in Row : RowSupply(row) \in SupplyRecord
  BY <1>1, RowSupplyType DEF LedgerInvariant, TypeOK
<1>4. window = [s \in Session |-> Sales!NoWindow]
  BY DEF Init, NoWindow, Sales!NoWindow
<1> QED BY <1>2, <1>3, <1>4 DEF Sales!Init

(* What RoomSales sees of a state.                                         *)
HeldNow == [row \in Row |-> HeldCount(row)]
SupplyNow == [row \in Row |-> RowSupply(row)]

LEMMA HeldStable ==
  ASSUME UNCHANGED <<status, lines>>
  PROVE  HeldNow' = HeldNow
BY DEF HeldNow, HeldCount, UnitsAt, CountedUnits, UnitsOf

LEMMA SupplyStable ==
  ASSUME UNCHANGED inventory
  PROVE  SupplyNow' = SupplyNow
BY FixedSupply DEF SupplyNow

LEMMA SubmitBegins ==
  ASSUME LedgerInvariant, WindowInvariant, NEW s \in Session, Submit(s) \/ RunSweep(s)
  PROVE  Sales!Begin(s)
<1>1. /\ ~tx[s].open
      /\ window' = [window EXCEPT ![s] = [row \in Row |-> {RowSupply(row)}]]
      /\ UNCHANGED <<inventory, status, lines>>
  BY SubmitWrites DEF LedgerInvariant
<1>2. window[s] = Sales!NoWindow
  BY <1>1 DEF WindowInvariant, WindowIsOpen, NoWindow, Sales!NoWindow
<1>3. [row \in Row |-> {RowSupply(row)}] = [row \in Row |-> {SupplyNow[row]}]
  BY DEF SupplyNow
<1> QED BY <1>1, <1>2, <1>3, HeldStable, SupplyStable DEF Sales!Begin, HeldNow, SupplyNow

LEMMA CommitSells ==
  ASSUME LedgerInvariant, LedgerInvariant', WindowInvariant, NEW s \in Session, Commit(s)
  PROVE  Sales!Sell(s)
<1>1. UNCHANGED inventory /\ window' = [window EXCEPT ![s] = Sales!NoWindow]
  BY DEF Commit, Close, NoWindow, Sales!NoWindow
<1>2. \A row \in Row : HeldCount(row) = sold[row] /\ HeldCount(row)' = sold'[row]
  BY DEF LedgerInvariant, LedgerMatchesBookings
<1>3. \A row \in Row : sold[row] \in Nat /\ sold'[row] \in Nat
  BY DEF LedgerInvariant, TypeOK
<1>4. ASSUME NEW row \in Row
      PROVE  sold'[row] <= sold[row] \/ Sales!Allowed(sold'[row], window[s][row])
  <2>1. CASE lock[row] = s
    <3>1. sold'[row] = draft[row]
      BY <2>1 DEF Commit, Owns
    <3>2. draft[row] <= sold[row] \/ Sales!Allowed(draft[row], window[s][row])
      BY <2>1, SessionsAssumption DEF WindowInvariant, DraftAllowed
    <3> QED BY <3>1, <3>2
  <2>2. CASE lock[row] # s
    BY <1>3, <2>2 DEF Commit, Owns
  <2> QED BY <2>1, <2>2
<1>5. HeldNow' \in [Row -> Nat]
  BY <1>2, <1>3 DEF HeldNow
<1>6. ASSUME NEW row \in Row
      PROVE  HeldNow'[row] <= HeldNow[row] \/ Sales!Allowed(HeldNow'[row], window[s][row])
  <2>1. HeldNow[row] = sold[row] /\ HeldNow'[row] = sold'[row]
    BY <1>2 DEF HeldNow
  <2> QED BY <1>4, <2>1
<1>7. SupplyNow' = SupplyNow
  BY <1>1, SupplyStable
<1> QED BY <1>1, <1>5, <1>6, <1>7 DEF Sales!Sell, HeldNow, SupplyNow

LEMMA RollbackAborts ==
  ASSUME NEW s \in Session, Rollback(s)
  PROVE  Sales!Abort(s)
<1>1. /\ UNCHANGED <<inventory, status, lines>>
      /\ window' = [window EXCEPT ![s] = Sales!NoWindow]
  BY DEF Rollback, Close, NoWindow, Sales!NoWindow
<1> QED BY <1>1, HeldStable, SupplyStable DEF Sales!Abort, HeldNow, SupplyNow

LEMMA SupplyNowType == LedgerInvariant => SupplyNow \in [Row -> SupplyRecord]
BY RowSupplyType DEF LedgerInvariant, TypeOK, SupplyNow

LEMMA EditRestocks ==
  ASSUME LedgerInvariant, LedgerInvariant', WindowInvariant, EditInventory
  PROVE  Sales!Restock
<1>1. UNCHANGED <<status, lines>>
  BY DEF EditInventory
<1>2. SupplyNow' \in [Row -> SupplyRecord]
  <2>1. (LedgerInvariant => SupplyNow \in [Row -> SupplyRecord])'
    BY SupplyNowType, PTL
  <2> QED BY <2>1
<1>3. window' = [s \in Session |-> [row \in Row |->
                   IF window[s][row] = {} THEN {} ELSE window[s][row] \cup {SupplyNow'[row]}]]
  <2>1. ASSUME NEW s \in Session, NEW row \in Row
        PROVE  tx[s].open <=> window[s][row] # {}
    BY DEF WindowInvariant, WindowIsOpen, NoWindow
  <2>2. \A row \in Row : SupplyNow'[row] = RowSupply(row)'
    BY DEF SupplyNow
  <2> QED BY <2>1, <2>2 DEF EditInventory
<1> QED BY <1>1, <1>2, <1>3, HeldStable DEF Sales!Restock, HeldNow, SupplyNow

LEMMA StepMaps ==
  ASSUME LedgerInvariant, LedgerInvariant', WindowInvariant, [Next]_vars
  PROVE  [Sales!Next]_Sales!vars
<1> DEFINE Stutter == UNCHANGED <<inventory, status, lines, window>>
<1>1. Stutter => UNCHANGED Sales!vars
  BY HeldStable, SupplyStable DEF Sales!vars, HeldNow, SupplyNow
<1>2. CASE UNCHANGED vars
  BY <1>1, <1>2 DEF vars, reservationVars
<1>3. CASE EditInventory
  BY <1>3, EditRestocks DEF Sales!Next
<1>4. ASSUME NEW s \in Session, Submit(s) \/ RunSweep(s) PROVE Sales!Next
  BY <1>4, SubmitBegins DEF Sales!Next
<1>5. ASSUME NEW s \in Session, Refuse(s) \/ Fail(s) \/ DeadlockVictim(s) PROVE Sales!Next
  BY <1>5, RollbackAborts DEF Refuse, Fail, DeadlockVictim, Sales!Next
<1>6. ASSUME NEW s \in Session, Commit(s) PROVE Sales!Next
  BY <1>6, CommitSells DEF Sales!Next
<1>7. ASSUME NEW s \in Session, NEW r, SweepNext(s, r) PROVE Stutter
  <2>1. UNCHANGED <<inventory, status, lines, sold, draft, lock, window>>
    BY <1>7, Zenon DEF SweepNext
  <2> QED BY <2>1
<1>8. ASSUME NEW s \in Session,
             \/ ReleaseUnit(s) \/ LoadRoomType(s) \/ LockAndCountRooms(s)
             \/ CountRoomBlocks(s) \/ ReserveUnit(s)
      PROVE  Stutter
  BY <1>8 DEF ReleaseUnit, LoadRoomType, LockAndCountRooms, CountRoomBlocks, ReserveUnit
<1> QED BY <1>1, <1>2, <1>3, <1>4, <1>5, <1>6, <1>7, <1>8 DEF Next, Proceed

(* The ledger sells rooms atomically: while no two requests on one         *)
(* reservation overlap, and whatever administrators change meanwhile, a    *)
(* request that commits raises the nights held on a row, if it raises      *)
(* them, to no more than a capacity computed from values the inventory had *)
(* while it ran; a request that is refused, fails or is chosen to break a  *)
(* deadlock sells nothing.                                                 *)
THEOREM RoomSalesImplemented == ~MayOverlap => (Spec => ImplementsRoomSales)
<1> SUFFICES ASSUME ~MayOverlap PROVE Spec => Sales!Spec
  BY DEF ImplementsRoomSales
<1>1. LedgerInvariant /\ LedgerInvariant' /\ WindowInvariant /\ [Next]_vars
        => [Sales!Next]_Sales!vars
  BY StepMaps
<1>2. Spec => []LedgerInvariant
  BY InvariantHolds
<1> QED BY <1>1, <1>2, InitMaps, InitWindow, NextKeepsWindow, PTL DEF Spec, Sales!Spec

--------------------------------------------------------------------------------
(* Pairing lock by lock.  One request at a time, the requests of           *)
(* RoomPairing do what Paired does in one step.                            *)

(* The partner of q once the request has written what it has set so far.   *)
After(c, q) == IF q \in DOMAIN c.set THEN c.set[q] ELSE adjoining[q]

(* The request knows the partners as they are, and has set as much of what *)
(* one step would do as its position says.                                 *)
Underway(c) ==
  /\ DOMAIN c = {"at", "room", "target", "loaded", "set"}
  /\ c.at \in {"room", "old", "target", "third", "write"}
  /\ c.room \in Room /\ c.target \in Room \cup {None}
  /\ c.room \in DOMAIN c.loaded /\ DOMAIN c.loaded \subseteq Room
  /\ \A q \in DOMAIN c.loaded : c.loaded[q] = adjoining[q]
  /\ DOMAIN c.set \subseteq DOMAIN c.loaded
  /\ c.at \in {"room", "old"} => DOMAIN c.set = {}
  /\ c.at \in {"old", "target", "third"} => adjoining[c.room] # c.target
  /\ c.at = "old" => adjoining[c.room] # None
  /\ c.at \in {"target", "third"} =>
       /\ c.target # None
       /\ DOMAIN c.set \subseteq {adjoining[c.room]}
       /\ \A q \in Room : After(c, q) = IF q = adjoining[c.room] THEN None ELSE adjoining[q]
  /\ c.at = "third" =>
       /\ c.target # c.room /\ c.target \in DOMAIN c.loaded
       /\ adjoining[c.target] \notin {None, c.room}
  /\ c.at = "write" =>
       /\ c.room # c.target
       /\ \A q \in Room : After(c, q) = Alone!Atomically(c.room, c.target)[q]

PairingInvariant ==
  /\ adjoining \in [Room -> Room \cup {None}]
  /\ Alone!PairsSymmetric
  /\ req = [s \in {OnlyOne} |-> req[s]]
  /\ \A s \in {OnlyOne} : req[s] = Alone!Idle \/ Underway(req[s])

LEMMA AtomicallySymmetric ==
  ASSUME adjoining \in [Room -> Room \cup {None}], Alone!PairsSymmetric,
         NEW r \in Room, NEW p \in Room \cup {None}, p # r
  PROVE  LET new == Alone!Atomically(r, p) IN
         /\ new \in [Room -> Room \cup {None}]
         /\ \A q \in Room : new[q] # None => new[q] # q /\ new[new[q]] = q
<1> DEFINE new == Alone!Atomically(r, p)
<1>1. \A q \in Room :
        new[q] = IF q = r THEN p
                 ELSE IF q = p THEN r
                 ELSE IF adjoining[q] \in {r, p} \ {None} /\ adjoining[adjoining[q]] = q THEN None
                 ELSE adjoining[q]
  BY DEF Alone!Atomically
<1>2. new \in [Room -> Room \cup {None}]
  BY DEF Alone!Atomically
<1> HIDE DEF new
<1>3. ASSUME NEW q \in Room, new[q] # None
      PROVE  new[q] # q /\ new[new[q]] = q
  <2>1. CASE q = r
    BY <1>1, <1>3, <2>1, SetsAssumption
  <2>2. CASE q = p /\ q # r
    BY <1>1, <1>3, <2>2
  <2>3. CASE q \notin {r, p}
    <3>1. new[q] = adjoining[q] /\ adjoining[q] # None
      BY <1>1, <1>3, <2>3
    <3>2. adjoining[q] \in Room /\ adjoining[q] # q /\ adjoining[adjoining[q]] = q
      BY <3>1 DEF Alone!PairsSymmetric
    <3>3. adjoining[q] \notin {r, p}
      BY <1>1, <1>3, <2>3, <3>1, <3>2
    <3>4. ~(adjoining[adjoining[q]] \in {r, p} \ {None})
      BY <2>3, <3>2
    <3> QED BY <1>1, <3>1, <3>2, <3>3, <3>4
  <2> QED BY <2>1, <2>2, <2>3
<1> QED BY <1>2, <1>3 DEF new

LEMMA StartUnderway ==
  ASSUME PairingInvariant, NEW s \in {OnlyOne}, NEW q \in Room \X (Room \cup {None}),
         Alone!Start(s, q[1], q[2])
  PROVE  Underway(req'[s])
<1> DEFINE r == q[1]
           p == q[2]
           loaded == Alone!One(r, adjoining[r])
           c == [Alone!Idle EXCEPT !.at = "room", !.room = r, !.target = p, !.loaded = loaded]
<1>1. r \in Room /\ p \in Room \cup {None} /\ r # None
  BY SetsAssumption
<1>2. req' = [req EXCEPT ![s] = c]
  BY DEF Alone!Start
<1> HIDE DEF r, p
<1>3. DOMAIN loaded = {r} /\ \A x \in DOMAIN loaded : loaded[x] = adjoining[x]
  BY DEF Alone!One
<1> HIDE DEF loaded
<1>4. /\ DOMAIN c = {"at", "room", "target", "loaded", "set"}
      /\ c.at = "room" /\ c.room = r /\ c.target = p /\ c.loaded = loaded
      /\ DOMAIN c.set = {}
  BY DEF Alone!Idle, Alone!Empty
<1> HIDE DEF c
<1>5. Underway(c)
  BY <1>1, <1>3, <1>4 DEF Underway
<1>6. req'[s] = c
  BY <1>2 DEF PairingInvariant
<1> QED BY <1>5, <1>6

(* A row read as it is now.                                                *)
LEMMA ReadKeeps ==
  ASSUME PairingInvariant, NEW c, Underway(c), NEW q \in Room
  PROVE  LET d == Alone!Read(c, q) IN
         /\ Underway(d) /\ q \in DOMAIN d.loaded
         /\ d.at = c.at /\ d.room = c.room /\ d.target = c.target /\ d.set = c.set
<1> DEFINE more == Alone!Overlay(c.loaded, Alone!One(q, adjoining[q]))
           d == [c EXCEPT !.loaded = more]
<1>1. CASE q \in DOMAIN c.loaded
  BY <1>1 DEF Alone!Read
<1>2. CASE q \notin DOMAIN c.loaded
  <2>1. Alone!Read(c, q) = d
    BY <1>2 DEF Alone!Read
  <2>2. /\ DOMAIN more = DOMAIN c.loaded \cup {q}
        /\ \A x \in DOMAIN more : more[x] = adjoining[x]
    BY DEF Alone!Overlay, Alone!One, Underway
  <2> HIDE DEF more
  <2>3. /\ DOMAIN d = DOMAIN c /\ d.loaded = more
        /\ d.at = c.at /\ d.room = c.room /\ d.target = c.target /\ d.set = c.set
    BY DEF Underway
  <2> HIDE DEF d
  <2>4. Underway(d)
    BY <2>2, <2>3 DEF Underway, After
  <2> QED BY <2>1, <2>2, <2>3, <2>4
<1> QED BY <1>1, <1>2

LEMMA ValueIsAfter ==
  ASSUME NEW c, Underway(c), NEW q \in DOMAIN c.loaded
  PROVE  Alone!Value(c, q) = After(c, q)
BY DEF Alone!Value, After, Underway

(* The partner of a room, which is its partner in turn.                    *)
LEMMA Partners ==
  ASSUME PairingInvariant, NEW r \in Room, NEW q \in Room
  PROVE  /\ adjoining[r] # r
         /\ adjoining[q] = r <=> adjoining[r] = q
         /\ adjoining[r] # None => adjoining[r] \in Room /\ adjoining[adjoining[r]] = r
BY SetsAssumption DEF PairingInvariant, Alone!PairsSymmetric

LEMMA AtomicallyValue ==
  ASSUME NEW r, NEW p, NEW q \in Room
  PROVE  Alone!Atomically(r, p)[q] =
           IF q = r THEN p
           ELSE IF q = p THEN r
           ELSE IF adjoining[q] \in {r, p} \ {None} /\ adjoining[adjoining[q]] = q THEN None
           ELSE adjoining[q]
BY DEF Alone!Atomically

(* The request goes on as c, with no change to the rooms.                  *)
GoesOn(s, c) == req' = [req EXCEPT ![s] = c] /\ adjoining' = adjoining

(* Nothing to do: the rooms are a pair already, or neither has a partner.  *)
LEMMA PairedAlready ==
  ASSUME PairingInvariant, NEW c, Underway(c), c.at = "room", adjoining[c.room] = c.target
  PROVE  Underway([c EXCEPT !.at = "write"])
<1> DEFINE d == [c EXCEPT !.at = "write"]
<1>1. /\ DOMAIN d = DOMAIN c /\ d.at = "write" /\ d.room = c.room /\ d.target = c.target
      /\ d.loaded = c.loaded /\ d.set = c.set
  BY DEF Underway
<1> HIDE DEF d
<1>2. c.room \in Room /\ c.target \in Room \cup {None} /\ c.room # c.target
  BY Partners DEF Underway
<1>3. ASSUME NEW q \in Room
      PROVE  After(d, q) = Alone!Atomically(c.room, c.target)[q]
  <2>1. After(d, q) = adjoining[q]
    BY <1>1 DEF After, Underway
  <2>2. adjoining[q] = c.room <=> adjoining[c.room] = q
    BY <1>2, Partners
  <2>3. c.target # None => c.target \in Room /\ adjoining[c.target] = c.room
                           /\ (adjoining[q] = c.target <=> adjoining[c.target] = q)
    BY <1>2, Partners
  <2>4. CASE q = c.room
    BY <2>1, <2>4, AtomicallyValue
  <2>5. CASE q = c.target /\ q # c.room
    BY <1>2, <2>1, <2>2, <2>5, AtomicallyValue
  <2>6. CASE q \notin {c.room, c.target}
    <3>1. adjoining[q] \notin {c.room, c.target} \ {None}
      BY <1>2, <2>2, <2>3, <2>6, SetsAssumption
    <3> QED BY <2>1, <2>6, <3>1, AtomicallyValue
  <2> QED BY <2>4, <2>5, <2>6
<1>4. /\ DOMAIN c = {"at", "room", "target", "loaded", "set"}
      /\ c.room \in DOMAIN c.loaded /\ DOMAIN c.loaded \subseteq Room
      /\ \A q \in DOMAIN c.loaded : c.loaded[q] = adjoining[q]
      /\ DOMAIN c.set \subseteq DOMAIN c.loaded
  BY DEF Underway
<1>5. \A q \in Room : After(d, q) = Alone!Atomically(d.room, d.target)[q]
  BY <1>1, <1>3
<1>6. Underway(d)
  BY <1>1, <1>2, <1>4, <1>5 DEF Underway
<1> QED BY <1>6 DEF d

LEMMA DetachUnderway ==
  ASSUME PairingInvariant, NEW c, Underway(c), c.at \in {"room", "old"},
         adjoining[c.room] # c.target,
         NEW set, DOMAIN set = {adjoining[c.room]} \ {None}, DOMAIN set \subseteq DOMAIN c.loaded,
         \A q \in DOMAIN set : set[q] = None
  PROVE  Underway(Alone!AfterDetaching([c EXCEPT !.set = set]))
<1> DEFINE b == [c EXCEPT !.set = set]
           both == Alone!Overlay(set, Alone!One(c.room, None))
           d == [b EXCEPT !.at = "write", !.set = both]
           e == [b EXCEPT !.at = "target"]
<1>1. /\ DOMAIN b = DOMAIN c /\ b.at = c.at /\ b.room = c.room /\ b.target = c.target
      /\ b.loaded = c.loaded /\ b.set = set
  BY DEF Underway
<1>2. /\ c.room \in Room /\ c.target \in Room \cup {None}
      /\ adjoining[c.room] \in Room \cup {None}
  BY DEF Underway, PairingInvariant
<1>3. \A q \in Room : adjoining[q] = c.room <=> adjoining[c.room] = q
  BY <1>2, Partners
<1>4. CASE c.target = None
  <2>1. DOMAIN both = DOMAIN set \cup {c.room} /\ \A q \in DOMAIN both : both[q] = None
    BY DEF Alone!Overlay, Alone!One
  <2> HIDE DEF both, b
  <2>2. /\ DOMAIN d = DOMAIN c /\ d.at = "write" /\ d.room = c.room /\ d.target = c.target
        /\ d.loaded = c.loaded /\ d.set = both
    BY <1>1 DEF Underway
  <2>3. Alone!AfterDetaching(b) = d
    BY <1>1, <1>4 DEF Alone!AfterDetaching, both
  <2> HIDE DEF d
  <2>4. ASSUME NEW q \in Room
        PROVE  After(d, q) = Alone!Atomically(c.room, c.target)[q]
    BY <1>2, <1>3, <1>4, <2>1, <2>2, AtomicallyValue, SetsAssumption DEF After
  <2>5. Underway(d)
    BY <1>2, <1>4, <2>1, <2>2, <2>4, SetsAssumption DEF Underway
  <2> QED BY <2>3, <2>5 DEF b
<1>5. CASE c.target # None
  <2> HIDE DEF b
  <2>1. /\ DOMAIN e = DOMAIN c /\ e.at = "target" /\ e.room = c.room /\ e.target = c.target
        /\ e.loaded = c.loaded /\ e.set = set
    BY <1>1 DEF Underway
  <2>2. Alone!AfterDetaching(b) = e
    BY <1>1, <1>5 DEF Alone!AfterDetaching
  <2> HIDE DEF e
  <2>3. \A q \in Room : After(e, q) = IF q = adjoining[c.room] THEN None ELSE adjoining[q]
    BY <2>1, SetsAssumption DEF After
  <2>4. Underway(e)
    BY <1>2, <1>5, <2>1, <2>3 DEF Underway
  <2> QED BY <2>2, <2>4 DEF b
<1> QED BY <1>4, <1>5

LEMMA LockRoomUnderway ==
  ASSUME PairingInvariant, NEW s \in {OnlyOne}, Underway(req[s]), Alone!LockRoom(s)
  PROVE  \E c : Underway(c) /\ GoesOn(s, c)
<1> DEFINE c == Alone!Read(req[s], req[s].room)
           p == Alone!Value(c, c.room)
<1>1. req[s].at = "room" /\ req[s].room \in Room
  BY DEF Alone!LockRoom, Underway
<1>2. /\ Underway(c) /\ c.at = "room" /\ c.room = req[s].room
  BY <1>1, ReadKeeps
<1>3. GoesOn(s, IF p = c.target THEN [c EXCEPT !.at = "write"]
                ELSE IF p # None THEN [c EXCEPT !.at = "old"]
                ELSE Alone!AfterDetaching(c))
  BY DEF Alone!LockRoom, Alone!Lock, GoesOn
<1> HIDE DEF c
<1>4. p = adjoining[c.room]
  BY <1>2, ValueIsAfter DEF After, Underway
<1> HIDE DEF p
<1>5. CASE p = c.target
  BY <1>2, <1>3, <1>4, <1>5, PairedAlready
<1>6. CASE p # c.target /\ p # None
  <2> DEFINE d == [c EXCEPT !.at = "old"]
  <2>1. /\ DOMAIN d = DOMAIN c /\ d.at = "old" /\ d.room = c.room /\ d.target = c.target
        /\ d.loaded = c.loaded /\ d.set = c.set
    BY <1>2 DEF Underway
  <2>2. GoesOn(s, d)
    BY <1>3, <1>6
  <2> HIDE DEF d
  <2>3. Underway(d)
    BY <1>2, <1>4, <1>6, <2>1 DEF Underway
  <2> QED BY <2>2, <2>3
<1>7. CASE p # c.target /\ p = None
  <2>1. GoesOn(s, Alone!AfterDetaching(c))
    BY <1>3, <1>7
  <2> DEFINE e == [c EXCEPT !.at = "target"]
  <2>2. DOMAIN c.set = {} /\ c.target # None
    BY <1>2, <1>7 DEF Underway
  <2>3. Alone!AfterDetaching(c) = e
    BY <2>2 DEF Alone!AfterDetaching
  <2>4. /\ DOMAIN e = DOMAIN c /\ e.at = "target" /\ e.room = c.room /\ e.target = c.target
        /\ e.loaded = c.loaded /\ e.set = c.set
    BY <1>2 DEF Underway
  <2> HIDE DEF e
  <2>5. \A q \in Room : After(e, q) = IF q = adjoining[c.room] THEN None ELSE adjoining[q]
    BY <1>4, <1>7, <2>2, <2>4, SetsAssumption DEF After
  <2>6. adjoining[c.room] # c.target
    BY <1>4, <1>7
  <2>7. /\ c.room \in Room /\ c.target \in Room \cup {None}
        /\ c.room \in DOMAIN c.loaded /\ DOMAIN c.loaded \subseteq Room
        /\ \A q \in DOMAIN c.loaded : c.loaded[q] = adjoining[q]
        /\ DOMAIN c = {"at", "room", "target", "loaded", "set"}
    BY <1>2 DEF Underway
  <2>8. DOMAIN e.set = {}
    BY <2>2, <2>4
  <2>9. Underway(e)
    BY <2>2, <2>4, <2>5, <2>6, <2>7, <2>8 DEF Underway
  <2> QED BY <2>1, <2>3, <2>9
<1> QED BY <1>5, <1>6, <1>7

LEMMA LockOldUnderway ==
  ASSUME PairingInvariant, NEW s \in {OnlyOne}, Underway(req[s]), Alone!LockOld(s)
  PROVE  \E c : Underway(c) /\ GoesOn(s, c)
<1> DEFINE q == Alone!Wanted(s)
           c == Alone!Read(req[s], q)
           set == Alone!Overlay(c.set, Alone!One(q, None))
<1>1. req[s].at = "old" /\ req[s].room \in Room /\ req[s].room \in DOMAIN req[s].loaded
  BY DEF Alone!LockOld, Underway
<1>2. q = adjoining[req[s].room]
  <2>1. q = Alone!Value(req[s], req[s].room)
    BY <1>1 DEF Alone!Wanted
  <2> HIDE DEF q
  <2>2. Alone!Value(req[s], req[s].room) = After(req[s], req[s].room)
    BY <1>1, ValueIsAfter
  <2>3. DOMAIN req[s].set = {}
    BY <1>1 DEF Underway
  <2>4. After(req[s], req[s].room) = adjoining[req[s].room]
    BY <2>3 DEF After
  <2> QED BY <2>1, <2>2, <2>4
<1>3. GoesOn(s, Alone!AfterDetaching(
                  IF Alone!Value(c, q) = c.room THEN [c EXCEPT !.set = set] ELSE c))
  BY DEF Alone!LockOld, Alone!Lock, GoesOn
<1> HIDE DEF q
<1>4. q \in Room /\ adjoining[q] = req[s].room
  BY <1>1, <1>2, Partners DEF Underway
<1>5. Underway(c) /\ q \in DOMAIN c.loaded /\ c.at = "old" /\ c.room = req[s].room
  BY <1>1, <1>4, ReadKeeps
<1> HIDE DEF c
<1>6. DOMAIN c.set = {} /\ adjoining[c.room] # c.target
  BY <1>5 DEF Underway
<1>7. Alone!Value(c, q) = c.room
  BY <1>4, <1>5, <1>6, ValueIsAfter DEF After
<1>8. /\ DOMAIN set = {adjoining[c.room]} \ {None} /\ DOMAIN set \subseteq DOMAIN c.loaded
      /\ \A x \in DOMAIN set : set[x] = None
  BY <1>2, <1>4, <1>5, <1>6, SetsAssumption DEF Alone!Overlay, Alone!One
<1> HIDE DEF set
<1>9. Underway(Alone!AfterDetaching([c EXCEPT !.set = set]))
  BY <1>5, <1>6, <1>8, DetachUnderway
<1> QED BY <1>3, <1>7, <1>9

(* The two rooms are joined: the former partners of both are alone.        *)
LEMMA JoinUnderway ==
  ASSUME PairingInvariant, NEW c, Underway(c), c.at \in {"target", "third"},
         c.target # c.room, c.target \in DOMAIN c.loaded,
         NEW set, DOMAIN set \subseteq DOMAIN c.loaded,
         \A q \in Room : (IF q \in DOMAIN set THEN set[q] ELSE adjoining[q]) =
                           IF q \in {adjoining[c.room], adjoining[c.target]} THEN None
                           ELSE adjoining[q]
  PROVE  Underway(Alone!Joined([c EXCEPT !.set = set]))
<1> DEFINE b == [c EXCEPT !.set = set]
           both == Alone!Overlay(set, [q \in {c.room, c.target} |->
                                           IF q = c.room THEN c.target ELSE c.room])
           d == [b EXCEPT !.at = "write", !.set = both]
<1>1. /\ DOMAIN b = DOMAIN c /\ b.at = c.at /\ b.room = c.room /\ b.target = c.target
      /\ b.loaded = c.loaded /\ b.set = set
  BY DEF Underway
<1>2. /\ DOMAIN both = DOMAIN set \cup {c.room, c.target}
      /\ both[c.room] = c.target /\ both[c.target] = c.room
      /\ \A q \in DOMAIN both \ {c.room, c.target} : both[q] = set[q]
  BY DEF Alone!Overlay
<1>3. Alone!Joined(b) = d
  <2> HIDE DEF b
  <2> QED BY <1>1 DEF Alone!Joined
<1> HIDE DEF both, b
<1>4. /\ DOMAIN d = DOMAIN c /\ d.at = "write" /\ d.room = c.room /\ d.target = c.target
      /\ d.loaded = c.loaded /\ d.set = both
  BY <1>1 DEF Underway
<1> HIDE DEF d
<1>5. c.room \in Room /\ c.target \in Room /\ c.room # None /\ c.target # None
  BY SetsAssumption DEF Underway
<1>6. ASSUME NEW q \in Room
      PROVE  After(d, q) = Alone!Atomically(c.room, c.target)[q]
  <2>1. /\ adjoining[q] = c.room <=> adjoining[c.room] = q
        /\ adjoining[q] = c.target <=> adjoining[c.target] = q
        /\ adjoining[q] # None => adjoining[adjoining[q]] = q
    BY <1>5, Partners
  <2>2. CASE q \in {c.room, c.target}
    BY <1>2, <1>4, <2>2, AtomicallyValue DEF After
  <2>3. CASE q \notin {c.room, c.target}
    <3>1. After(d, q) = IF q \in {adjoining[c.room], adjoining[c.target]} THEN None
                        ELSE adjoining[q]
      BY <1>2, <1>4, <2>3 DEF After
    <3>2. Alone!Atomically(c.room, c.target)[q] =
            IF adjoining[q] \in {c.room, c.target} THEN None ELSE adjoining[q]
      BY <1>5, <2>1, <2>3, AtomicallyValue
    <3> QED BY <2>1, <3>1, <3>2
  <2> QED BY <2>2, <2>3
<1>7. Underway(d)
  BY <1>2, <1>4, <1>5, <1>6 DEF Underway
<1> QED BY <1>3, <1>7 DEF b

LEMMA LockTargetUnderway ==
  ASSUME PairingInvariant, NEW s \in {OnlyOne}, Underway(req[s]), Alone!LockTarget(s)
  PROVE  \E c : Underway(c) /\ GoesOn(s, c)
<1> DEFINE c == Alone!Read(req[s], req[s].target)
           third == Alone!Value(c, c.target)
<1>1. /\ req[s].at = "target" /\ req[s].target # req[s].room
      /\ req[s].room \in Room /\ req[s].target \in Room
  BY DEF Alone!LockTarget, Underway
<1>2. /\ Underway(c) /\ c.at = "target" /\ c.room = req[s].room /\ c.target = req[s].target
      /\ c.target \in DOMAIN c.loaded
  BY <1>1, ReadKeeps
<1>3. GoesOn(s, IF third \in {None, c.room} THEN Alone!Joined(c) ELSE [c EXCEPT !.at = "third"])
  BY DEF Alone!LockTarget, Alone!Lock, GoesOn
<1> HIDE DEF c
<1>4. /\ adjoining[c.room] # c.target
      /\ \A q \in Room : After(c, q) = IF q = adjoining[c.room] THEN None ELSE adjoining[q]
  BY <1>2 DEF Underway
<1>5. third = adjoining[c.target]
  BY <1>1, <1>2, <1>4, ValueIsAfter
<1>6. adjoining[c.target] # c.room
  BY <1>1, <1>2, <1>4, Partners
<1> HIDE DEF third
<1>7. CASE third \in {None, c.room}
  <2> DEFINE set == c.set
             b == [c EXCEPT !.set = set]
  <2>1. third = None
    BY <1>5, <1>6, <1>7
  <2>2. DOMAIN set \subseteq DOMAIN c.loaded
    BY <1>2 DEF Underway
  <2>3. \A q \in Room : (IF q \in DOMAIN set THEN set[q] ELSE adjoining[q]) =
                          IF q \in {adjoining[c.room], adjoining[c.target]} THEN None
                          ELSE adjoining[q]
    BY <1>4, <1>5, <2>1, SetsAssumption DEF After
  <2>4. Alone!Joined(b) = Alone!Joined(c)
    BY <1>2 DEF Alone!Joined, Underway
  <2> HIDE DEF set
  <2>5. Underway(Alone!Joined(b))
    BY <1>1, <1>2, <2>2, <2>3, JoinUnderway
  <2> QED BY <1>3, <1>7, <2>4, <2>5
<1>8. CASE third \notin {None, c.room}
  <2> DEFINE e == [c EXCEPT !.at = "third"]
  <2>1. /\ DOMAIN e = DOMAIN c /\ e.at = "third" /\ e.room = c.room /\ e.target = c.target
        /\ e.loaded = c.loaded /\ e.set = c.set
    BY <1>2 DEF Underway
  <2>2. GoesOn(s, e)
    BY <1>3, <1>8
  <2> HIDE DEF e
  <2>3. Underway(e)
    BY <1>1, <1>2, <1>5, <1>8, <2>1 DEF Underway, After
  <2> QED BY <2>2, <2>3
<1> QED BY <1>7, <1>8

LEMMA LockThirdUnderway ==
  ASSUME PairingInvariant, NEW s \in {OnlyOne}, Underway(req[s]), Alone!LockThird(s)
  PROVE  \E c : Underway(c) /\ GoesOn(s, c)
<1> DEFINE q == Alone!Wanted(s)
           c == Alone!Read(req[s], q)
           set == Alone!Overlay(c.set, Alone!One(q, None))
<1>1. /\ req[s].at = "third" /\ req[s].target # req[s].room
      /\ req[s].room \in Room /\ req[s].target \in Room
      /\ req[s].target \in DOMAIN req[s].loaded
      /\ adjoining[req[s].room] # req[s].target
      /\ adjoining[req[s].target] \notin {None, req[s].room}
  BY DEF Alone!LockThird, Underway
<1>2. q = adjoining[req[s].target]
  <2>1. q = Alone!Value(req[s], req[s].target)
    BY <1>1 DEF Alone!Wanted
  <2>2. Alone!Value(req[s], req[s].target) = After(req[s], req[s].target)
    BY <1>1, ValueIsAfter
  <2>3. After(req[s], req[s].target) = adjoining[req[s].target]
    BY <1>1 DEF Underway
  <2> QED BY <2>1, <2>2, <2>3
<1>3. GoesOn(s, Alone!Joined(
                  IF Alone!Value(c, q) = c.target THEN [c EXCEPT !.set = set] ELSE c))
  BY DEF Alone!LockThird, Alone!Lock, GoesOn
<1> HIDE DEF q
<1>4. q \in Room /\ adjoining[q] = req[s].target /\ q # None
  BY <1>1, <1>2, Partners, SetsAssumption
<1>5. /\ Underway(c) /\ q \in DOMAIN c.loaded /\ c.at = "third"
      /\ c.room = req[s].room /\ c.target = req[s].target
  BY <1>1, <1>4, ReadKeeps
<1> HIDE DEF c
<1>6. q # adjoining[c.room]
  BY <1>1, <1>4, <1>5, Partners
<1>7. \A x \in Room : After(c, x) = IF x = adjoining[c.room] THEN None ELSE adjoining[x]
  BY <1>5 DEF Underway
<1>8. Alone!Value(c, q) = c.target
  BY <1>4, <1>5, <1>6, <1>7, ValueIsAfter
<1>9. /\ DOMAIN set = DOMAIN c.set \cup {q}
      /\ set[q] = None
      /\ \A x \in DOMAIN set \ {q} : set[x] = c.set[x]
  BY DEF Alone!Overlay, Alone!One
<1> HIDE DEF set
<1>10. DOMAIN set \subseteq DOMAIN c.loaded /\ c.target \in DOMAIN c.loaded
  BY <1>5, <1>9 DEF Underway
<1>11. \A x \in Room : (IF x \in DOMAIN set THEN set[x] ELSE adjoining[x]) =
                         IF x \in {adjoining[c.room], adjoining[c.target]} THEN None
                         ELSE adjoining[x]
  BY <1>2, <1>5, <1>7, <1>9 DEF After
<1>12. Underway(Alone!Joined([c EXCEPT !.set = set]))
  BY <1>1, <1>5, <1>10, <1>11, JoinUnderway
<1> QED BY <1>3, <1>8, <1>12

(* What the commit writes is what one step would have written.             *)
LEMMA CommitIsAtomic ==
  ASSUME PairingInvariant, NEW s \in {OnlyOne}, Underway(req[s]), Alone!Commit(s)
  PROVE  /\ adjoining' = Alone!Atomically(req[s].room, req[s].target)
         /\ adjoining' \in [Room -> Room \cup {None}]
         /\ Alone!PairsSymmetric'
<1> DEFINE c == req[s]
           changed == {x \in DOMAIN c.set : c.set[x] # c.loaded[x]}
           new == Alone!Atomically(c.room, c.target)
<1>1. /\ c.at = "write" /\ c.room \in Room /\ c.target \in Room \cup {None} /\ c.room # c.target
      /\ \A q \in Room : After(c, q) = new[q]
      /\ \A q \in DOMAIN c.loaded : c.loaded[q] = adjoining[q]
      /\ DOMAIN c.set \subseteq DOMAIN c.loaded /\ DOMAIN c.loaded \subseteq Room
  BY DEF Alone!Commit, Underway
<1>2. /\ DOMAIN adjoining' = DOMAIN adjoining \cup changed
      /\ \A q \in DOMAIN adjoining' : adjoining'[q] = IF q \in changed THEN c.set[q]
                                                       ELSE adjoining[q]
      /\ adjoining' = [q \in DOMAIN adjoining \cup changed |->
                         IF q \in changed THEN c.set[q] ELSE adjoining[q]]
  BY DEF Alone!Commit, Alone!Overlay, Alone!Changes
<1>3. DOMAIN adjoining = Room /\ changed \subseteq Room
  BY <1>1 DEF PairingInvariant
<1>4. new = [q \in Room |-> new[q]]
  BY DEF Alone!Atomically
<1>5. /\ new \in [Room -> Room \cup {None}]
      /\ \A q \in Room : new[q] # None => new[q] # q /\ new[new[q]] = q
  BY <1>1, AtomicallySymmetric DEF PairingInvariant
<1> HIDE DEF new
<1>6. \A q \in Room : adjoining'[q] = new[q]
  BY <1>1, <1>2, <1>3 DEF After
<1>7. adjoining' = new
  BY <1>2, <1>3, <1>4, <1>6
<1> QED BY <1>5, <1>7 DEF new, Alone!PairsSymmetric

LEMMA PairingInit == Alone!Init => PairingInvariant
<1> SUFFICES ASSUME Alone!Init PROVE PairingInvariant
  OBVIOUS
<1>1. adjoining \in [Room -> Room \cup {None}] /\ Alone!PairsSymmetric
  BY DEF Alone!Init, Alone!PairsSymmetric
<1>2. req = [s \in {OnlyOne} |-> req[s]] /\ \A s \in {OnlyOne} : req[s] = Alone!Idle
  BY DEF Alone!Init
<1> QED BY <1>1, <1>2 DEF PairingInvariant

(* A step that leaves the rooms alone, and its request underway or done.   *)
LEMMA StepKeeps ==
  ASSUME PairingInvariant, NEW s \in {OnlyOne}, NEW c,
         c = Alone!Idle \/ Underway(c), GoesOn(s, c)
  PROVE  PairingInvariant' /\ Alone!AtomicStep
<1>1. adjoining' = adjoining /\ req' = [req EXCEPT ![s] = c]
  BY DEF GoesOn
<1>2. \A t \in {OnlyOne} : req'[t] = c
  BY <1>1 DEF PairingInvariant
<1>3. adjoining' \in [Room -> Room \cup {None}] /\ Alone!PairsSymmetric'
  BY <1>1 DEF PairingInvariant, Alone!PairsSymmetric
<1>4. req' = [t \in {OnlyOne} |-> req'[t]]
  BY <1>1 DEF PairingInvariant
<1>5. Alone!Idle' = Alone!Idle
  BY DEF Alone!Idle, Alone!Empty
<1>6. \A t \in {OnlyOne} : req'[t] = Alone!Idle \/ Underway(req[t])'
  <2> SUFFICES ASSUME NEW t \in {OnlyOne} PROVE req'[t] = Alone!Idle \/ Underway(req[t])'
    OBVIOUS
  <2>1. req'[t] = c
    BY <1>2
  <2>2. CASE c = Alone!Idle
    BY <2>1, <2>2
  <2>3. CASE Underway(c)
    <3> DEFINE d == req[t]'
    <3>1. Underway(d)
      BY <2>1, <2>3
    <3>2. Underway(req[t])' <=> Underway(d)
      BY <1>1 DEF Underway, After, Alone!Atomically
    <3> QED BY <3>1, <3>2
  <2> QED BY <2>2, <2>3
<1> QED BY <1>1, <1>3, <1>4, <1>5, <1>6 DEF PairingInvariant, Alone!AtomicStep

(* Every step of the only request there is.                                *)
LEMMA PairingStep ==
  ASSUME PairingInvariant, [Alone!Next]_Alone!vars
  PROVE  PairingInvariant' /\ Alone!AtomicStep
<1>1. CASE UNCHANGED Alone!vars
  <2>1. adjoining' = adjoining /\ req' = req
    BY <1>1 DEF Alone!vars
  <2>2. GoesOn(OnlyOne, req[OnlyOne])
    BY <2>1 DEF GoesOn, PairingInvariant
  <2>3. req[OnlyOne] = Alone!Idle \/ Underway(req[OnlyOne])
    BY DEF PairingInvariant
  <2>4. PICK c : c = req[OnlyOne]
    OBVIOUS
  <2> QED BY <2>2, <2>3, <2>4, StepKeeps
<1>2. ASSUME NEW s \in {OnlyOne}, Alone!Act(s)
      PROVE  PairingInvariant' /\ Alone!AtomicStep
  <2>1. ASSUME NEW q \in Room \X (Room \cup {None}), Alone!Start(s, q[1], q[2])
        PROVE  PairingInvariant' /\ Alone!AtomicStep
    <3>1. Underway(req'[s])
      BY <2>1, StartUnderway
    <3>2. GoesOn(s, req'[s])
      BY <2>1 DEF GoesOn, Alone!Start, PairingInvariant
    <3>3. PICK c : c = req'[s]
      OBVIOUS
    <3> QED BY <3>1, <3>2, <3>3, StepKeeps
  <2>2. CASE \E c : Underway(c) /\ GoesOn(s, c)
    BY <2>2, StepKeeps
  <2>3. CASE Alone!LockRoom(s) \/ Alone!LockOld(s) \/ Alone!LockTarget(s)
             \/ Alone!LockThird(s)
    <3>1. Underway(req[s])
      BY <2>3 DEF PairingInvariant, Alone!Idle, Alone!LockRoom, Alone!LockOld,
               Alone!LockTarget, Alone!LockThird
    <3> QED BY <2>2, <2>3, <3>1, LockRoomUnderway, LockOldUnderway, LockTargetUnderway,
            LockThirdUnderway
  <2>4. CASE Alone!Commit(s)
    <3>1. Underway(req[s])
      BY <2>4 DEF PairingInvariant, Alone!Idle, Alone!Commit
    <3>2. /\ adjoining' = Alone!Atomically(req[s].room, req[s].target)
          /\ adjoining' \in [Room -> Room \cup {None}]
          /\ Alone!PairsSymmetric'
      BY <2>4, <3>1, CommitIsAtomic
    <3>3. req' = [t \in {OnlyOne} |-> Alone!Idle]
      BY <2>4 DEF Alone!Commit, PairingInvariant
    <3> QED BY <3>2, <3>3 DEF PairingInvariant, Alone!AtomicStep, Alone!Idle, Alone!Empty
  <2>5. CASE Alone!Refuse(s) \/ Alone!DeadlockVictim(s)
    <3>1. GoesOn(s, Alone!Idle)
      BY <2>5 DEF Alone!Refuse, Alone!DeadlockVictim, Alone!Rollback, GoesOn
    <3>2. PICK c : c = Alone!Idle
      OBVIOUS
    <3> QED BY <3>1, <3>2, StepKeeps
  <2> QED BY <1>2, <2>1, <2>3, <2>4, <2>5 DEF Alone!Act, Alone!Proceed
<1> QED BY <1>1, <1>2 DEF Alone!Next

(* The scene of MCRequestsFinish in which one administrator pairs rooms.    *)
ScenePairingInvariant == scene = "one pairing" => PairingInvariant

LEMMA ScenePairingStep ==
  ASSUME ScenePairingInvariant, [ScenesNext]_everything
  PROVE  /\ ScenePairingInvariant'
         /\ [scene = "one pairing" => Alone!AtomicStep]_pairing
<1>1. /\ scene' = scene
      /\ scene = "one pairing" => [Alone!Next]_Alone!vars
  BY DEF ScenesNext, everything, pairing, Alone!vars
<1>2. CASE scene = "one pairing"
  <2>1. PairingInvariant' /\ Alone!AtomicStep
    BY <1>1, <1>2, PairingStep DEF ScenePairingInvariant
  <2> QED BY <2>1 DEF ScenePairingInvariant
<1>3. CASE scene # "one pairing"
  BY <1>1, <1>3 DEF ScenePairingInvariant
<1> QED BY <1>2, <1>3

LEMMA ScenePairingInit == ASSUME ScenesInit PROVE ScenePairingInvariant
BY PairingInit DEF ScenesInit, ScenePairingInvariant

(* One pairing at a time, lock by lock: both rooms of a pair name each     *)
(* other, for any set of rooms and whatever pairings are asked for         *)
(* (set_adjoining_room).                                                   *)
THEOREM LockedPairsSymmetric == ScenesSpec => []PairsSymmetric
<1>1. ScenePairingInvariant /\ [ScenesNext]_everything => ScenePairingInvariant'
  BY ScenePairingStep
<1>2. ScenePairingInvariant => PairsSymmetric
  BY DEF ScenePairingInvariant, PairingInvariant, PairsSymmetric
<1> QED BY <1>1, <1>2, ScenePairingInit, PTL DEF ScenesSpec

(* One pairing at a time, lock by lock: what the commit writes is what one *)
(* step of Inventory (Paired) writes, so that Inventory leaves out nothing *)
(* but the races.                                                          *)
THEOREM LockedPairsAtomically == ScenesSpec => PairsAtomically
<1>1. ScenePairingInvariant /\ [ScenesNext]_everything
        => ScenePairingInvariant' /\ [scene = "one pairing" => Alone!AtomicStep]_pairing
  BY ScenePairingStep
<1> QED BY <1>1, ScenePairingInit, PTL DEF ScenesSpec, PairsAtomically

(* The one step is that of Inventory.                                      *)
LEMMA PairedIsAtomic ==
  ASSUME NEW rooms \in [Room -> RoomRecord], NEW r \in Room, NEW p \in Room \cup {None},
         \A q \in Room : adjoining[q] = rooms[q].adjoining, Alone!PairsSymmetric
  PROVE  \A q \in Room : Paired(rooms, r, p)[q].adjoining = Alone!Atomically(r, p)[q]
<1> SUFFICES ASSUME NEW q \in Room
             PROVE  Paired(rooms, r, p)[q].adjoining = Alone!Atomically(r, p)[q]
  OBVIOUS
<1>1. \A x \in Room : rooms[x] \in RoomRecord /\ adjoining[x] \in Room \cup {None}
  BY DEF RoomRecord
<1>2. CASE rooms[r].adjoining = p
  <2>1. adjoining[r] = p /\ (p # None => p # r /\ p \in Room /\ adjoining[p] = r)
    BY <1>1, <1>2 DEF Alone!PairsSymmetric
  <2>2. adjoining[q] = r /\ adjoining[adjoining[q]] = q => p = q
    BY <2>1
  <2>3. adjoining[q] = p /\ p # None /\ adjoining[adjoining[q]] = q => q = r
    BY <2>1
  <2>4. q # None
    BY SetsAssumption
  <2>5. Alone!Atomically(r, p)[q] = adjoining[q]
    BY <2>1, <2>2, <2>3, <2>4, AtomicallyValue
  <2> QED BY <1>2, <2>5 DEF Paired
<1>3. CASE rooms[r].adjoining # p
  <2>1. Paired(rooms, r, p)[q].adjoining =
          IF q = r THEN p
          ELSE IF q = p THEN r
          ELSE IF \E o \in {r, p} \ {None} : rooms[q].adjoining = o /\ rooms[o].adjoining = q
            THEN None
          ELSE rooms[q].adjoining
    BY <1>1, <1>3 DEF Paired, RoomRecord
  <2>2. (\E o \in {r, p} \ {None} : rooms[q].adjoining = o /\ rooms[o].adjoining = q)
          <=> (adjoining[q] \in {r, p} \ {None} /\ adjoining[adjoining[q]] = q)
    BY <1>1
  <2> QED BY <2>1, <2>2, AtomicallyValue
<1> QED BY <1>2, <1>3

================================================================================
