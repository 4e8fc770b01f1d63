------------------------------- MODULE RoomSales -------------------------------
(***************************************************************************)
(* What selling rooms promises, without saying how: one atomic step per    *)
(* request.  A step that raises the number of units held on a row (a room  *)
(* type on a night) raises it to no more than a capacity put together from *)
(* values the inventory had while that request ran, and a request that     *)
(* fails changes nothing.                                                  *)
(***************************************************************************)
EXTENDS Integers

CONSTANTS
  Row,             \* (room type, night) pairs
  Session,         \* concurrent requests
  SupplyRecord,    \* the parts a capacity is computed from
  Capacity(_)      \* the capacity of a supply

VARIABLES
  held,            \* [Row -> Nat]: units held by stays
  supply,          \* [Row -> SupplyRecord]: the inventory now
  window           \* what each running request may have read of the inventory

vars == <<held, supply, window>>

NoWindow == [row \in Row |-> {}]

(* A count that a mix of the supplies in W allows.                         *)
Allowed(n, W) ==
  \E a, b, c, d \in W :
    n <= Capacity([allowance |-> a.allowance, active |-> b.active,
                   roomBlocks |-> c.roomBlocks, typeBlocks |-> d.typeBlocks])

Init ==
  /\ held = [row \in Row |-> 0]
  /\ supply \in [Row -> SupplyRecord]
  /\ window = [s \in Session |-> NoWindow]

Begin(s) ==
  /\ window[s] = NoWindow
  /\ window' = [window EXCEPT ![s] = [row \in Row |-> {supply[row]}]]
  /\ UNCHANGED <<held, supply>>

Sell(s) ==
  /\ held' \in [Row -> Nat]
  /\ \A row \in Row : held'[row] <= held[row] \/ Allowed(held'[row], window[s][row])
  /\ window' = [window EXCEPT ![s] = NoWindow]
  /\ UNCHANGED supply

Abort(s) ==
  /\ window' = [window EXCEPT ![s] = NoWindow]
  /\ UNCHANGED <<held, supply>>

Restock ==
  /\ supply' \in [Row -> SupplyRecord]
  /\ window' = [s \in Session |-> [row \in Row |->
                  IF window[s][row] = {} THEN {} ELSE window[s][row] \cup {supply'[row]}]]
  /\ UNCHANGED held

Next == Restock \/ \E s \in Session : Begin(s) \/ Sell(s) \/ Abort(s)

Spec == Init /\ [][Next]_vars

================================================================================
