-------------------------- MODULE ReservationsInvariant ------------------------
(***************************************************************************)
(* The inductive invariant behind the ledger's exactness.  A request       *)
(* settles its plan when it opens; the plan stays right because no other   *)
(* request writes the same reservations, and what the request has done so  *)
(* far is exactly what the rows it has locked differ by.                   *)
(***************************************************************************)
EXTENDS Reservations

OfTargets(s, U) == {u \in U : u.line.res \in tx[s].targets}

(* The units the ledger would count if s committed what it has done.       *)
CountedAfter(s) ==
  (CountedUnits \ (tx[s].release \cap tx[s].done)) \cup (tx[s].reserve \cap tx[s].done)

(* The lines whose nights are held once s has committed.                   *)
LinesAfter(s) ==
  {l \in (lines \ tx[s].delete) \cup tx[s].insert : Written(s, l.res) \in CountedStatuses}

(* What a request is going to write concerns only its own reservations.    *)
PlanIsLocal(s) ==
  /\ tx[s].todo \subseteq tx[s].targets
  /\ \A l \in tx[s].delete \cup tx[s].insert : l.res \in tx[s].targets
  /\ \A u \in tx[s].release \cup tx[s].reserve : u.line.res \in tx[s].targets
  /\ \A l \in tx[s].insert : Written(s, l.res) # "none"

(* It releases units the ledger counts, and reserves units it does not.    *)
PlanMatchesLedger(s) ==
  /\ tx[s].release \subseteq CountedUnits
  /\ tx[s].reserve \cap CountedUnits = {}
  /\ tx[s].done \subseteq tx[s].release \cup tx[s].reserve

(* The status it writes is a legal step from the status each target has.   *)
PlanIsLegal(s) ==
  tx[s].writes # "keep" => \A r \in tx[s].targets : <<status[r], tx[s].writes>> \in Lifecycle

(* A sweep releases, target by target, the units of confirmed stays.       *)
SweepIsFair(s) ==
  /\ \A r \in tx[s].todo : status[r] = "confirmed"
  /\ \A u \in tx[s].release : u.line.res \notin tx[s].todo

(* Lines and statuses written together hold just the units that the plan   *)
(* leaves or puts into the ledger.                                         *)
PlanBalances(s) ==
  OfTargets(s, UnitsOf(LinesAfter(s))) =
    {u \in OfTargets(s, CountedUnits) \ tx[s].release : u.line.res \notin tx[s].todo}
      \cup tx[s].reserve

(* While the queries of capacity() are under way, their row is locked.     *)
CountingIsLocked(s) ==
  tx[s].counts # 0 => \E u \in tx[s].reserve : First(s, u) /\ lock[RowOf(u)] = s

Plan(s) ==
  /\ PlanIsLocal(s)
  /\ PlanMatchesLedger(s)
  /\ PlanIsLegal(s)
  /\ SweepIsFair(s)
  /\ PlanBalances(s)
  /\ CountingIsLocked(s)

(* Only open requests own rows, and a request owns the rows of what it has *)
(* done; no two requests write the same reservation.                       *)
LocksInOrder ==
  /\ \A row \in Row : lock[row] # NoSession => tx[lock[row]].open
  /\ \A s \in Session : \A u \in tx[s].done : lock[RowOf(u)] = s

Apart ==
  /\ \A s \in Session : ~tx[s].open => tx[s] = Idle
  /\ \A s, o \in Session : s # o => tx[s].targets \cap tx[o].targets = {}

NoOrphans == \A l \in lines : status[l.res] # "none"

FinitelyMany ==
  /\ IsFiniteSet(lines)
  /\ \A s \in Session :
       /\ IsFiniteSet(tx[s].insert)
       /\ \A row \in Row : IsFiniteSet(UnitsAt(row, tx[s].reserve))

(* A locked row differs from the committed one by what its owner has done. *)
DraftsMatchPlans ==
  \A row \in Row :
    draft[row] = IF lock[row] = NoSession THEN sold[row]
                 ELSE Cardinality(UnitsAt(row, CountedAfter(lock[row])))

LedgerInvariant ==
  /\ TypeOK
  /\ FinitelyMany
  /\ Apart
  /\ NoOrphans
  /\ LocksInOrder
  /\ \A s \in Session : Plan(s)
  /\ LedgerMatchesBookings
  /\ DraftsMatchPlans

--------------------------------------------------------------------------------
(* The invariant behind NoOversell, for an inventory that stays as it is:  *)
(* what a request has read for the unit it is about to reserve is still    *)
(* so, and no row holds more than its capacity, committed or not.          *)
SeenIsCurrent(s) ==
  /\ tx[s].rt # None => tx[s].seen.allowance = allowance[tx[s].rt.type]
  /\ \A u \in tx[s].reserve : First(s, u) =>
       /\ tx[s].counts # 0 =>
            tx[s].rt = u.line /\ tx[s].seen.active = ActiveRoomCount(u.line.type)
       /\ tx[s].counts = 2 => tx[s].seen.roomBlocks = RoomBlocks(u.line.type, u.night)

RowsFit ==
  \A row \in Row : sold[row] <= Capacity(RowSupply(row)) /\ draft[row] <= Capacity(RowSupply(row))

SalesInvariant == FixedInventory => RowsFit /\ \A s \in Session : SeenIsCurrent(s)

--------------------------------------------------------------------------------
(* The invariant behind the refinement of RoomSales, whatever is edited    *)
(* meanwhile: an open request's window holds the supply of this moment and *)
(* all it has read, and whoever has put more into a row than is committed  *)
(* found room for it in what it read.                                      *)
WindowIsOpen(s) ==
  IF tx[s].open THEN \A row \in Row : RowSupply(row) \in window[s][row]
  ELSE window[s] = NoWindow

SeenInWindow(s) ==
  /\ tx[s].rt # None =>
       \A d \in Day : \E a \in window[s][<<tx[s].rt.type, d>>] :
         a.allowance = tx[s].seen.allowance
  /\ \A u \in tx[s].reserve : First(s, u) =>
       /\ tx[s].counts # 0 =>
            /\ tx[s].rt = u.line
            /\ \E b \in window[s][RowOf(u)] : b.active = tx[s].seen.active
       /\ tx[s].counts = 2 =>
            \E c \in window[s][RowOf(u)] : c.roomBlocks = tx[s].seen.roomBlocks

DraftAllowed(row) ==
  lock[row] # NoSession =>
    draft[row] <= sold[row] \/ Sales!Allowed(draft[row], window[lock[row]][row])

WindowInvariant ==
  /\ \A s \in Session : WindowIsOpen(s) /\ SeenInWindow(s)
  /\ \A row \in Row : DraftAllowed(row)

--------------------------------------------------------------------------------
(* The invariant behind DeadlockNeedsManyLines, overlapping requests or    *)
(* not: a request takes the nights of a line in ascending order, and locks *)
(* no row but those of the units it is done with and of the one it is      *)
(* counting rooms for.                                                     *)
WorksInOrder(s) ==
  /\ ~tx[s].open => tx[s] = Idle
  /\ tx[s].done \subseteq tx[s].release \cup tx[s].reserve
  /\ \A u \in tx[s].done, v \in Pending(s) : u.line = v.line => u.night < v.night
  /\ \A u \in tx[s].release, v \in tx[s].reserve : u.line # v.line
  /\ tx[s].todo # {} => tx[s].reserve = {}
  /\ \A u \in tx[s].release : u.line.res \notin tx[s].todo

LocksItsUnits(s) ==
  \A row \in Row : lock[row] = s =>
    \/ \E u \in tx[s].done : RowOf(u) = row
    \/ tx[s].counts # 0 /\ \E u \in tx[s].reserve : First(s, u) /\ RowOf(u) = row

OrderInvariant == \A s \in Session : WorksInOrder(s) /\ LocksItsUnits(s)

================================================================================
