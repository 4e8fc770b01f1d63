-------------------------------- MODULE MCBilling ------------------------------
(***************************************************************************)
(* Billing, three ways: one request at a time on a folio with taxes; two   *)
(* at a time, opening folios and drawing invoice numbers; and the taxes of *)
(* single charges, prices with odd cents among them.  A behaviour is one   *)
(* of the three.                                                           *)
(***************************************************************************)
EXTENDS MCFolio

CONSTANTS Other, misc, Percents, Fixed

VARIABLES
  scene,           \* "one request", "two requests" or "taxes", for good
  price, quantity, rule

charge == <<price, quantity, rule>>
everything == <<vars, scene, charge>>

Two == INSTANCE Folio WITH
  Session <- Session \cup {Other}, Category <- {"room"}, UpgradeAmount <- {0},
  RuleSets <- NoRules, MaxInvoices <- 3

Tax == INSTANCE MCTaxes WITH
  Category <- {misc}, Prices <- (-30..60) \cup {2505, 11000, 20000}

AnyRule == CHOOSE r \in Tax!SomeRules : TRUE

BillingInit ==
  \/ scene = "one request" /\ Init /\ Tax!TaxInit /\ rule = AnyRule
  \/ scene = "two requests" /\ Two!Init /\ Tax!TaxInit /\ rule = AnyRule
  \/ scene = "taxes" /\ Two!Init /\ Tax!TaxInit

BillingNext ==
  /\ UNCHANGED scene
  /\ \/ scene = "one request" /\ Next /\ UNCHANGED charge
     \/ scene = "two requests" /\ Two!Next /\ UNCHANGED charge
     \/ scene = "taxes" /\ Tax!TaxNext /\ UNCHANGED vars

BillingSpec == BillingInit /\ [][BillingNext]_everything

--------------------------------------------------------------------------------
(* The properties of Folio that one request at a time has, and two at a    *)
(* time have not.                                                          *)

(* A folio one request at a time works on is settled when it is closed.    *)
ClosedIsSettledAlone == scene = "one request" => ClosedIsSettled

(* One night audit at a time charges a night once, and flags it.           *)
NightChargedOnceAlone == scene = "one request" => NightChargedOnce

(* An invoice drawn while nothing else runs agrees with its folio.         *)
InvoiceAgreesAlone == [][scene = "one request" => InvoiceAgreeing]_vars

(* A share of a price is rounded to the nearest minor unit.                *)
NearestUnit == Tax!NearestUnit

(* A tax inside a price is the tax the rule adds to the rest of it.        *)
InclusiveMatchesExclusive == Tax!InclusiveMatchesExclusive

================================================================================
