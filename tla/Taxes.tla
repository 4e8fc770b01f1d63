---------------------------------- MODULE Taxes --------------------------------
(***************************************************************************)
(* The taxes of a charge (app/modules/billing, _apply_taxes).  A rule      *)
(* takes a percentage, a fixed amount per unit, or both.  An inclusive     *)
(* rule is already part of the price and is only recorded; any other rule  *)
(* adds a tax line.  Amounts are in minor units, percentages in            *)
(* thousandths of a percent.                                               *)
(***************************************************************************)
EXTENDS Integers, Sequences

CONSTANTS Category, None

ASSUME NoneAssumption == None \notin Nat

Rule == [percent: Nat \cup {None}, fixed: Nat \cup {None}, categories: SUBSET Category,
         inclusive: BOOLEAN, active: BOOLEAN]

Hundred == 100000

Magnitude(n) == IF n < 0 THEN -n ELSE n

(* MUTANT of RoundHalfUp: a half is dropped.                               *)
RoundHalfDown(n, d) ==
  LET m == (2 * Magnitude(n) + d - 1) \div (2 * d) IN IF n < 0 THEN -m ELSE m

(* n / d to the nearest integer, a half away from zero (ROUND_HALF_UP).    *)
RoundHalfUp(n, d) ==
  LET m == (2 * Magnitude(n) + d) \div (2 * d) IN IF n < 0 THEN -m ELSE m

(* No categories at all means every category.                              *)
Applies(rule, category) ==
  rule.active /\ (rule.categories = {} \/ category \in rule.categories)

(* MUTANT of Divisor: the inclusive share is taken of the net price.       *)
NetDivisor(rule) == Hundred

Divisor(rule) == IF rule.inclusive THEN Hundred + rule.percent ELSE Hundred

RuleAmount(rule, amount, quantity) ==
  (IF rule.percent = None THEN 0 ELSE RoundHalfUp(amount * rule.percent, Divisor(rule)))
  + (IF rule.fixed = None THEN 0 ELSE rule.fixed * quantity)

(* What the rules, in their order, make of a charge: the part of the price *)
(* that is tax, and the amounts of the tax lines.  A rule that comes to    *)
(* nothing leaves no trace.                                                *)
TaxesOf(rules, amount, quantity, category) ==
  LET Due(rule) == IF Applies(rule, category) THEN RuleAmount(rule, amount, quantity) ELSE 0
      Step(rule, t) ==
        IF Due(rule) = 0 THEN t
        ELSE IF rule.inclusive THEN [t EXCEPT !.component = @ + Due(rule)]
        ELSE [t EXCEPT !.added = Append(@, Due(rule))]
      none == [component |-> 0, added |-> <<>>]
      f[k \in 0..Len(rules)] == IF k = 0 THEN none ELSE Step(rules[k], f[k - 1])
  IN  f[Len(rules)]

================================================================================
