\* A charge is posted while the folio is being closed.
CONSTANTS
  x1 = x1
  n1 = n1
  Category = {"room", "upgrade"}
  None = None
  Reservation = {x1}
  Night = {n1}
  NightRow <- OneNight
  Amount = {10}
  UpgradeAmount = {0, 10}
  RuleSets <- NoRules
  Session = {s1, s2}
  MaxId = 5
  MaxInvoices = 1
SPECIFICATION Spec
\* The ids run out.
CHECK_DEADLOCK FALSE
INVARIANTS ClosedIsSettled
