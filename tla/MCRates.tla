--------------------------------- MODULE MCRates -------------------------------
(***************************************************************************)
(* Small instances of Rates for TLC.                                       *)
(***************************************************************************)
EXTENDS Rates

CONSTANTS p1, p2, p3

TenPercentMore == {[mode |-> "percent", value |-> 10]}
NoEdit == {}
OneAmount == {5}

================================================================================
