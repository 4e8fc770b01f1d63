---------------------------------- MODULE Folio --------------------------------
(***************************************************************************)
(* The folios of reservations (app/modules/billing): charges with their    *)
(* taxes, payments, voids, closing and invoices; together with what the    *)
(* front desk does to them: check-in with a paid upgrade, check-out and    *)
(* its undo, and the night audit that posts room charges.                  *)
(*                                                                         *)
(* As in FrontDesk a request reads committed rows, decides, keeps its      *)
(* write set and commits it.  Row ids come from sequences, which no        *)
(* rollback takes back; a commit that would break a unique constraint      *)
(* fails.                                                                  *)
(***************************************************************************)
EXTENDS Taxes, FiniteSets, SequencesExt

CONSTANTS
  Reservation,
  Night,           \* the ids of the reservations' room nights
  NightRow,        \* [Night -> [res, date, amount]]
  Amount,          \* bound: the amounts charged and paid by hand
  UpgradeAmount,   \* bound: the amounts of upgrades at check-in, 0 for a free one
  RuleSets,        \* the sequences of tax rules the manager switches between
  Session,
  MaxId,           \* bound: the number of folio, line and invoice ids drawn
  MaxInvoices      \* bound: the number of invoices

ASSUME NightsAssumption ==
  /\ IsFiniteSet(Night)
  /\ NightRow \in [Night -> [res: Reservation, date: Int, amount: Nat]]
ASSUME SourcesAssumption == None \notin Night /\ "upgrade" \notin Night
ASSUME AmountsAssumption == Amount \subseteq Int /\ UpgradeAmount \subseteq Int
ASSUME RulesAssumption == RuleSets \subseteq Seq(Rule) /\ RuleSets # {}

VARIABLES
  status,          \* [Reservation -> {"confirmed", "in_house", "checked_out", "no_show"}]
  closedByCheckOut,\* [Reservation -> BOOLEAN]: what the last check-out recorded
  folios,          \* folio id -> [res, seq, open]
  lines,           \* line id -> Line
  posted,          \* the nights flagged posted
  invoices,        \* invoice id -> Invoice
  rules,           \* the active tax rules, in order
  nextId,          \* the sequences of ids
  tx               \* [Session -> write set or None]

rows == <<status, closedByCheckOut, folios, lines, posted, invoices, rules>>
vars == <<status, closedByCheckOut, folios, lines, posted, invoices, rules, nextId, tx>>

(* source is the night a night-audit charge is for, an upgrade or None;    *)
(* parent is the charge a tax line belongs to.                             *)
Line(f, kind, amount, component, parent, source) ==
  [folio |-> f, kind |-> kind, amount |-> amount, component |-> component,
   parent |-> parent, source |-> source, void |-> FALSE]

--------------------------------------------------------------------------------
Active(f) == {i \in DOMAIN lines : lines[i].folio = f /\ ~lines[i].void}
OfKind(kind, S) == {i \in S : lines[i].kind = kind}
AmountOf(i) == lines[i].amount
ComponentOf(i) == lines[i].component

Balance(f) == MapThenSumSet(AmountOf, Active(f))
GstMinor(f) ==
  MapThenSumSet(ComponentOf, Active(f)) + MapThenSumSet(AmountOf, OfKind("tax", Active(f)))

FoliosOf(x) == {f \in DOMAIN folios : folios[f].res = x}
HasFolio(x) == FoliosOf(x) # {}

(* The first row of the query; get_or_open_folio expects only one.         *)
FolioOf(x) == CHOOSE f \in FoliosOf(x) : \A g \in FoliosOf(x) : f <= g

(* MUTANT of NewFolio: every folio gets a code of its own.                 *)
NewFolioAnyCode(x, id) == [res |-> x, seq |-> id, open |-> TRUE]

(* The code is F<reservation>-<count + 1>.                                 *)
NewFolio(x, id) == [res |-> x, seq |-> Cardinality(FoliosOf(x)) + 1, open |-> TRUE]

--------------------------------------------------------------------------------
(* Transactions.                                                           *)

Empty == [i \in {} |-> None]
One(i, v) == [j \in {i} |-> v]
Overlay(f, g) == [i \in DOMAIN f \cup DOMAIN g |-> IF i \in DOMAIN g THEN g[i] ELSE f[i]]

NoWrites ==
  [status |-> Empty, closedBy |-> Empty, folios |-> Empty, open |-> Empty, lines |-> Empty,
   voids |-> {}, posted |-> {}, invoices |-> Empty]

(* The request has drawn n ids.                                            *)
Request(s, writes, n) ==
  /\ tx[s] = None
  /\ nextId + n <= MaxId
  /\ tx' = [tx EXCEPT ![s] = writes]
  /\ nextId' = nextId + n
  /\ UNCHANGED rows

(* MUTANT of Clashes: invoice numbers are not unique.                      *)
ClashesOnCode(w) ==
  \E f \in DOMAIN w.folios, g \in DOMAIN folios :
    folios[g].res = w.folios[f].res /\ folios[g].seq = w.folios[f].seq

(* The unique constraints on bill_folios.code and bill_invoices.number.    *)
Clashes(w) ==
  \/ \E f \in DOMAIN w.folios, g \in DOMAIN folios :
       folios[g].res = w.folios[f].res /\ folios[g].seq = w.folios[f].seq
  \/ \E i \in DOMAIN w.invoices, j \in DOMAIN invoices :
       invoices[j].number = w.invoices[i].number

Commit(s) ==
  LET w == tx[s]
      known == Overlay(folios, w.folios)
      all == Overlay(lines, w.lines)
  IN  /\ w # None
      /\ ~Clashes(w)
      /\ status' = Overlay(status, w.status)
      /\ closedByCheckOut' = Overlay(closedByCheckOut, w.closedBy)
      /\ folios' = [f \in DOMAIN known |->
                      IF f \in DOMAIN w.open THEN [known[f] EXCEPT !.open = w.open[f]]
                      ELSE known[f]]
      /\ lines' = [i \in DOMAIN all |->
                     IF i \in w.voids THEN [all[i] EXCEPT !.void = TRUE] ELSE all[i]]
      /\ posted' = posted \cup w.posted
      /\ invoices' = Overlay(invoices, w.invoices)
      /\ tx' = [tx EXCEPT ![s] = None]
      /\ UNCHANGED <<rules, nextId>>

Fail(s) ==
  /\ tx[s] # None
  /\ Clashes(tx[s])
  /\ tx' = [tx EXCEPT ![s] = None]
  /\ UNCHANGED <<rows, nextId>>

--------------------------------------------------------------------------------
(* Folio lines.                                                            *)

(* The rows of one charge and its tax lines, with ids from first on.       *)
ChargeLines(f, amount, quantity, category, source, first) ==
  LET t == TaxesOf(rules, amount * quantity, quantity, category)
  IN  [i \in first..(first + Len(t.added)) |->
         IF i = first THEN Line(f, "charge", amount * quantity, t.component, None, source)
         ELSE Line(f, "tax", t.added[i - first], 0, first, source)]

OpenFolio(s, x) ==
  /\ ~HasFolio(x)
  /\ Request(s, [NoWrites EXCEPT !.folios = One(nextId, NewFolio(x, nextId))], 1)

PostCharge(s, f, amount, quantity, category) ==
  LET new == ChargeLines(f, amount, quantity, category, None, nextId)
  IN  /\ folios[f].open
      /\ Request(s, [NoWrites EXCEPT !.lines = new], Cardinality(DOMAIN new))

PostPayment(s, f, amount) ==
  /\ folios[f].open
  /\ amount > 0
  /\ Request(s, [NoWrites EXCEPT !.lines =
                   One(nextId, Line(f, "payment", -amount, 0, None, None))], 1)

Children(i) == {j \in DOMAIN lines : lines[j].parent = i}

(* MUTANT of WithChildren: the tax lines of a voided charge stay.          *)
WithoutChildren(i) == {i}

WithChildren(i) == {i} \cup Children(i)

(* MUTANT of VoidLine: a closed folio is not spared.                       *)
VoidLineAnyTime(s, i) ==
  /\ ~lines[i].void
  /\ Request(s, [NoWrites EXCEPT !.voids = WithChildren(i)], 0)

(* void_line by hand, or as the undo of an upgrade (require_active).  A    *)
(* line that is void already is left alone or refused: no write.           *)
VoidLine(s, i) ==
  /\ folios[lines[i].folio].open
  /\ ~lines[i].void
  /\ Request(s, [NoWrites EXCEPT !.voids = WithChildren(i)], 0)

CloseFolio(s, f) ==
  /\ folios[f].open
  /\ Balance(f) = 0
  /\ Request(s, [NoWrites EXCEPT !.open = One(f, FALSE)], 0)

(* MUTANT of Invoice: the tax lines are counted once more in the GST.      *)
InvoiceCountingTaxTwice(f) ==
  [folio |-> f, number |-> Cardinality(DOMAIN invoices) + 1,
   charged |-> MapThenSumSet(AmountOf, OfKind("charge", Active(f)) \cup OfKind("tax", Active(f))),
   paid |-> -MapThenSumSet(AmountOf, OfKind("payment", Active(f))),
   gst |-> GstMinor(f) + MapThenSumSet(AmountOf, OfKind("tax", Active(f)))]

Invoice(f) ==
  [folio |-> f, number |-> Cardinality(DOMAIN invoices) + 1,
   charged |-> MapThenSumSet(AmountOf, Active(f) \ OfKind("payment", Active(f))),
   paid |-> -MapThenSumSet(AmountOf, OfKind("payment", Active(f))),
   gst |-> MapThenSumSet(ComponentOf, Active(f))
             + MapThenSumSet(AmountOf, OfKind("tax", Active(f)))]

GenerateInvoice(s, f) ==
  /\ Cardinality(DOMAIN invoices) < MaxInvoices
  /\ Request(s, [NoWrites EXCEPT !.invoices = One(nextId, Invoice(f))], 1)

(* create, update and delete of tax rules: the next charge sees others.    *)
ChangeRules(r) ==
  /\ rules # r
  /\ rules' = r
  /\ UNCHANGED <<status, closedByCheckOut, folios, lines, posted, invoices, nextId, tx>>

--------------------------------------------------------------------------------
(* The front desk.                                                         *)

(* check_in, with the charge of an upgrade when it is not free.            *)
CheckIn(s, x, upgrade) ==
  LET f == IF HasFolio(x) THEN FolioOf(x) ELSE nextId
      drawn == IF HasFolio(x) THEN 0 ELSE 1
      new == IF upgrade = 0 THEN Empty
             ELSE ChargeLines(f, upgrade, 1, "upgrade", "upgrade", nextId + drawn)
  IN  /\ status[x] = "confirmed"
      /\ HasFolio(x) /\ upgrade # 0 => folios[f].open
      /\ Request(s, [NoWrites EXCEPT
           !.status = One(x, "in_house"),
           !.folios = IF HasFolio(x) THEN Empty ELSE One(f, NewFolio(x, f)),
           !.lines = new], drawn + Cardinality(DOMAIN new))

UndoCheckIn(s, x) ==
  /\ status[x] = "in_house"
  /\ Request(s, [NoWrites EXCEPT !.status = One(x, "confirmed")], 0)

(* A zero balance closes the folio, or finds it closed; either way the     *)
(* check-out records that it closed it.                                    *)
CheckOut(s, x, allowBalance) ==
  LET f == FolioOf(x)
      settled == Balance(f) = 0
  IN  /\ status[x] = "in_house"
      /\ settled \/ allowBalance
      /\ Request(s, [NoWrites EXCEPT
           !.status = One(x, "checked_out"),
           !.closedBy = One(x, settled),
           !.open = IF settled THEN One(f, FALSE) ELSE Empty], 0)

UndoCheckOut(s, x) ==
  /\ status[x] = "checked_out"
  /\ Request(s, [NoWrites EXCEPT
       !.status = One(x, "in_house"),
       !.open = IF closedByCheckOut[x] /\ ~folios[FolioOf(x)].open
                  THEN One(FolioOf(x), TRUE) ELSE Empty], 0)

DueNights(d) ==
  {n \in Night \ posted : NightRow[n].date = d /\ status[NightRow[n].res] = "in_house"}

(* The charges of a sequence of nights, one after the other.               *)
NightCharges(ns) ==
  LET f[k \in 0..Len(ns)] ==
        IF k = 0 THEN Empty
        ELSE LET n == NightRow[ns[k]]
             IN  Overlay(f[k - 1],
                         ChargeLines(FolioOf(n.res), n.amount, 1, "room", ns[k],
                                     nextId + Cardinality(DOMAIN f[k - 1])))
  IN  f[Len(ns)]

FirstNight(x) ==
  LET own == {NightRow[n].date : n \in {m \in Night : NightRow[m].res = x}}
  IN  CHOOSE d \in own : \A e \in own : d <= e

(* The reservations the sweep after the charges marks.                     *)
Stale(asOf) == {x \in Reservation : status[x] = "confirmed" /\ FirstNight(x) < asOf}

(* MUTANT of NightAudit: the nights are not flagged.                       *)
NightAuditWithoutFlag(s, d) ==
  LET new == NightCharges(SetToSeq(DueNights(d)))
  IN  /\ \A n \in DueNights(d) : folios[FolioOf(NightRow[n].res)].open
      /\ Request(s, [NoWrites EXCEPT !.lines = new], Cardinality(DOMAIN new))

(* run_night_audit for the night d: one closed folio among those to be     *)
(* charged refuses all of it.                                              *)
NightAudit(s, d) ==
  LET new == NightCharges(SetToSeq(DueNights(d)))
  IN  /\ DueNights(d) # {} \/ Stale(d + 1) # {}
      /\ \A n \in DueNights(d) : folios[FolioOf(NightRow[n].res)].open
      /\ Request(s, [NoWrites EXCEPT
           !.lines = new,
           !.posted = DueNights(d),
           !.status = [x \in Stale(d + 1) |-> "no_show"]], Cardinality(DOMAIN new))

--------------------------------------------------------------------------------
Init ==
  /\ status = [x \in Reservation |-> "confirmed"]
  /\ closedByCheckOut = [x \in Reservation |-> FALSE]
  /\ folios = Empty
  /\ lines = Empty
  /\ posted = {}
  /\ invoices = Empty
  /\ rules \in RuleSets
  /\ nextId = 1
  /\ tx = [s \in Session |-> None]

Bill(s) ==
  \/ \E x \in Reservation : OpenFolio(s, x)
  \/ \E f \in DOMAIN folios :
       \/ \E a \in Amount, q \in {1, 2}, c \in Category : PostCharge(s, f, a, q, c)
       \/ \E a \in Amount : PostPayment(s, f, a)
       \/ CloseFolio(s, f) \/ GenerateInvoice(s, f)
  \/ \E i \in DOMAIN lines : VoidLine(s, i)

Operate(s) ==
  \/ \E x \in Reservation :
       \/ \E u \in UpgradeAmount : CheckIn(s, x, u)
       \/ \E allow \in BOOLEAN : CheckOut(s, x, allow)
       \/ UndoCheckIn(s, x) \/ UndoCheckOut(s, x)
  \/ \E d \in {NightRow[n].date : n \in Night} : NightAudit(s, d)

Next ==
  \/ \E s \in Session : Bill(s) \/ Operate(s) \/ Commit(s) \/ Fail(s)
  \/ \E r \in RuleSets : ChangeRules(r)

Spec == Init /\ [][Next]_vars

--------------------------------------------------------------------------------
(* Properties.                                                             *)

(* A closed folio owes nothing and is owed nothing, whatever was posted,   *)
(* voided, closed and reopened before ("Cannot close a folio with a        *)
(* non-zero balance", and _require_open in front of every change).         *)
ClosedIsSettled == \A f \in DOMAIN folios : folios[f].open \/ Balance(f) = 0

(* A tax line outlives neither its charge nor the void of its charge       *)
(* (void_line), so the GST of a folio never names a charge that is gone.   *)
NoOrphanTax ==
  \A i \in DOMAIN lines :
    lines[i].parent # None =>
      /\ lines[i].parent \in DOMAIN lines
      /\ lines[lines[i].parent].void => lines[i].void

(* A reservation has one primary folio even when two requests open it at   *)
(* once: the second insert repeats the code and fails (get_or_open_folio). *)
OnePrimaryFolio == \A x \in Reservation : Cardinality(FoliosOf(x)) <= 1

(* Invoice numbers are 1, 2, 3, ... without a gap or a repetition, though  *)
(* each is a count plus one taken without a lock (generate_invoice).       *)
InvoiceNumbersConsecutive ==
  {invoices[i].number : i \in DOMAIN invoices} = 1..Cardinality(DOMAIN invoices)

(* An invoice agrees with the folio it was drawn from: what it says was    *)
(* charged less what was paid is the balance, and its GST is the folio's,  *)
(* though the three sums are written separately (generate_invoice,         *)
(* balance_minor, gst_minor).  Stated of requests that run alone.          *)
InvoiceAgreeing ==
  \A i \in DOMAIN invoices' \ DOMAIN invoices :
    LET v == invoices'[i] IN
    v.charged - v.paid = Balance(v.folio) /\ v.gst = GstMinor(v.folio)

InvoiceAgrees == [][InvoiceAgreeing]_vars

(* A night is charged at most once, and flagged posted exactly when it was *)
(* ("re-running for the same night is a no-op", post_room_charges).        *)
NightChargedOnce ==
  \A n \in Night :
    Cardinality({i \in DOMAIN lines : lines[i].kind = "charge" /\ lines[i].source = n}) =
      IF n \in posted THEN 1 ELSE 0

(* The folio of every guest in house can take the night's charge ("Post    *)
(* the night's room charge (+ tax) to each in-house folio").               *)
InHouseFolioOpen ==
  \A x \in Reservation : status[x] = "in_house" => folios[FolioOf(x)].open

(* A check-out that says it closed the folio found it open, so that its    *)
(* undo takes back only what the check-out did                             *)
(* (folio_closed_by_this_action).                                          *)
ClosedByThisActionOnly ==
  [][\A x \in Reservation :
       status[x] = "in_house" /\ status'[x] = "checked_out" /\ closedByCheckOut'[x] =>
         folios[FolioOf(x)].open]_vars

================================================================================
