----------------------------- MODULE MCInventoryEdits --------------------------
(***************************************************************************)
(* Reservations while the inventory is edited: rooms and the overbooking   *)
(* allowance change, or a block comes and goes.                            *)
(***************************************************************************)
EXTENDS MCReservations

(* What is, or was while a request has been open.                          *)
Supplies == UNION {{RowSupply(row)} \cup window[s][row] : s \in Session, row \in Row}

(* bound: no request meets blocks and other edits.                         *)
OneKindOfEdit ==
  \/ block = InitBlock /\ \A w \in Supplies : w.roomBlocks = 0 /\ w.typeBlocks = 0
  \/ /\ <<room, allowance>> = <<InitRoom, InitAllowance>>
     /\ \A w \in Supplies : w.allowance = 0 /\ w.active = Cardinality(Room)

================================================================================
