--------------------------------- MODULE MCFolio -------------------------------
(***************************************************************************)
(* Small instances of Folio for TLC.                                       *)
(***************************************************************************)
EXTENDS Folio, TLC

CONSTANTS x1, n1

(* GST inside every price, or a levy as high as the price on rooms only,   *)
(* so that whole payments can settle either.                               *)
Gst == [percent |-> 10000, fixed |-> None, categories |-> {}, inclusive |-> TRUE, active |-> TRUE]
Levy == [percent |-> 100000, fixed |-> None, categories |-> {"room"}, inclusive |-> FALSE,
         active |-> TRUE]
GstOrLevy == {<<Gst>>, <<Levy>>}
NoRules == {<<>>}

OneNight == n1 :> [res |-> x1, date |-> 1, amount |-> 10]

================================================================================
