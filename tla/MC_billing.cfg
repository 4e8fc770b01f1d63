\* One request at a time with taxes, payments, voids, invoices, check-out and the night
\* audit; two at a time without taxes; and the taxes alone: 10 %, 12.5 % and 7.7 %, fixed
\* amounts, credits (negative prices).
CONSTANTS
  x1 = x1
  n1 = n1
  Other = s2
  misc = misc
  Percents = {7700, 10000, 12500}
  Fixed = {0, 3}
  Category = {"room", "upgrade"}
  None = None
  Reservation = {x1}
  Night = {n1}
  NightRow <- OneNight
  Amount = {10}
  UpgradeAmount = {0, 10}
  RuleSets <- GstOrLevy
  Session = {s1}
  MaxId = 5
  MaxInvoices = 1
SPECIFICATION BillingSpec
\* The ids run out.
CHECK_DEADLOCK FALSE
INVARIANTS
  ClosedIsSettledAlone NightChargedOnceAlone NoOrphanTax OnePrimaryFolio
  InvoiceNumbersConsecutive NearestUnit InclusiveMatchesExclusive
PROPERTIES InvoiceAgreesAlone
