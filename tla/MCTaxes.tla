---------------------------------- MODULE MCTaxes ------------------------------
(***************************************************************************)
(* The taxes of bounded charges: one state per price, rule and quantity.   *)
(***************************************************************************)
EXTENDS Taxes

CONSTANTS Prices, Percents, Fixed, misc

VARIABLES price, quantity, rule
input == <<price, quantity, rule>>

SomeRules ==
  [percent: Percents \cup {None}, fixed: Fixed \cup {None}, categories: {{}},
   inclusive: BOOLEAN, active: {TRUE}]

TaxInit == price = 0 /\ quantity = 1 /\ rule \in SomeRules
NextPrice == price' \in Prices /\ price = 0 /\ UNCHANGED <<quantity, rule>>
NextQuantity == quantity = 1 /\ quantity' = 2 /\ UNCHANGED <<price, rule>>
TaxNext == NextPrice \/ NextQuantity

amount == price * quantity
taxes == TaxesOf(<<rule>>, amount, quantity, misc)

PercentOnly == rule.percent # None /\ rule.fixed = None

(* A rounded share is the nearest minor unit, and of two equally near ones *)
(* the one farther from zero (quantize with ROUND_HALF_UP).                *)
NearestUnit ==
  PercentOnly =>
    LET n == amount * rule.percent
        d == Divisor(rule)
        r == RoundHalfUp(n, d)
    IN  /\ 2 * Magnitude(n - r * d) <= d
        /\ 2 * Magnitude(n - r * d) = d => Magnitude(r * d) > Magnitude(n)

(* The tax found inside a price is, to the unit, the tax the same rule     *)
(* would add to what remains of the price: the two ways of charging a tax  *)
(* agree ("the tax portion is recorded on the charge line").               *)
InclusiveMatchesExclusive ==
  PercentOnly /\ rule.inclusive =>
    LET net == amount - taxes.component
        onTop == TaxesOf(<<[rule EXCEPT !.inclusive = FALSE]>>, net, quantity, misc).added
    IN  /\ taxes.added = <<>>
        /\ Magnitude(taxes.component - (IF onTop = <<>> THEN 0 ELSE onTop[1])) <= 1
        /\ Magnitude(taxes.component) <= Magnitude(amount)

================================================================================
