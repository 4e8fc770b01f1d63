------------------------------- MODULE MCInventory -----------------------------
(* A small instance of Inventory for TLC.                                    *)
EXTENDS Inventory, TLC

(* Every room exists at the start but one that is still to be created.       *)
CONSTANTS std, suite, newRoom

OneToCreate ==
  [r \in Room |-> [type |-> IF r = newRoom THEN None ELSE std,
                   active |-> TRUE, adjoining |-> None]]
NoBlock == [b \in BlockId |-> None]
NoOverbooking == [t \in RoomType |-> 0]

Interchangeable == Permutations(Room \ {newRoom}) \cup Permutations(BlockId)

================================================================================
