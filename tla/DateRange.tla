------------------------------- MODULE DateRange -------------------------------
(***************************************************************************)
(* Half-open stay intervals [arrival, departure) over calendar days        *)
(* (app/core/daterange.py).  A day is an integer.                          *)
(***************************************************************************)
EXTENDS Integers

Max2(a, b) == IF a >= b THEN a ELSE b

(* The nights a stay occupies; none when departure is not after arrival.   *)
Nights(arrival, departure) == arrival .. (departure - 1)

NightCount(arrival, departure) == Max2(departure - arrival, 0)

Overlaps(aStart, aEnd, bStart, bEnd) == aStart < bEnd /\ bStart < aEnd

================================================================================
