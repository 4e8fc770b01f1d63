------------------------------ MODULE MCFrontDesk ------------------------------
(***************************************************************************)
(* Small instances of FrontDesk for TLC.                                     *)
(***************************************************************************)
EXTENDS FrontDesk, TLC

CONSTANTS x1, x2, l1, l2

(* One line each, over the same nights; the stay of l2 may come after.     *)
OneLineEach == (x1 :> <<l1>>) @@ (x2 :> <<l2>>)
SameNights == [l \in {l1, l2} |-> [arrival |-> 1, departure |-> 3]]
OneAfterTheOther ==
  (l1 :> [arrival |-> 1, departure |-> 2]) @@ (l2 :> [arrival |-> 2, departure |-> 3])

(* One reservation whose guest changes line, not room, on the second day.  *)
TwoLines == x1 :> <<l1, l2>>

AllFit == [l \in {l1, l2} |-> Room]
NoBlocks == {}

================================================================================
