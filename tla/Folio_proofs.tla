------------------------------ MODULE Folio_proofs -----------------------------
(***************************************************************************)
(* Proofs about folios, for any reservations and any tax rules: what holds *)
(* of any number of overlapping requests, what holds of requests that run  *)
(* one after another, and how the tax of a charge is rounded.              *)
(***************************************************************************)
EXTENDS MCBilling, SequenceTheorems, Sums

--------------------------------------------------------------------------------
(* What a request writes, field by field; n ids are drawn for it.          *)
Asks(s, n, st, cb, fo, op, li, vo, po, inv) ==
  \E w : /\ Request(s, w, n)
         /\ w.status = st /\ w.closedBy = cb /\ w.folios = fo /\ w.open = op
         /\ w.lines = li /\ w.voids = vo /\ w.posted = po /\ w.invoices = inv

LEMMA OpenFolioAsks ==
  ASSUME NEW s, NEW x, OpenFolio(s, x)
  PROVE  Asks(s, 1, Empty, Empty, One(nextId, NewFolio(x, nextId)), Empty, Empty, {}, {}, Empty)
<1> DEFINE fo == One(nextId, NewFolio(x, nextId))
           w == [NoWrites EXCEPT !.folios = fo]
<1>1. Request(s, w, 1)
  BY DEF OpenFolio
<1> HIDE DEF fo
<1>2. /\ w.status = Empty /\ w.closedBy = Empty /\ w.folios = fo /\ w.open = Empty
      /\ w.lines = Empty /\ w.voids = {} /\ w.posted = {} /\ w.invoices = Empty
  BY DEF NoWrites
<1> HIDE DEF w
<1> QED BY <1>1, <1>2 DEF Asks, fo

LEMMA PostChargeAsks ==
  ASSUME NEW s, NEW f, NEW a, NEW q, NEW c, PostCharge(s, f, a, q, c)
  PROVE  LET li == ChargeLines(f, a, q, c, None, nextId)
         IN  Asks(s, Cardinality(DOMAIN li), Empty, Empty, Empty, Empty, li, {}, {}, Empty)
<1> DEFINE li == ChargeLines(f, a, q, c, None, nextId)
           w == [NoWrites EXCEPT !.lines = li]
<1>1. Request(s, w, Cardinality(DOMAIN li))
  BY DEF PostCharge
<1> HIDE DEF li
<1>2. /\ w.status = Empty /\ w.closedBy = Empty /\ w.folios = Empty /\ w.open = Empty
      /\ w.lines = li /\ w.voids = {} /\ w.posted = {} /\ w.invoices = Empty
  BY DEF NoWrites
<1> HIDE DEF w
<1>3. Asks(s, Cardinality(DOMAIN li), Empty, Empty, Empty, Empty, li, {}, {}, Empty)
  BY <1>1, <1>2 DEF Asks
<1> QED BY <1>3 DEF li

LEMMA PostPaymentAsks ==
  ASSUME NEW s, NEW f, NEW a, PostPayment(s, f, a)
  PROVE  Asks(s, 1, Empty, Empty, Empty, Empty,
              One(nextId, Line(f, "payment", -a, 0, None, None)), {}, {}, Empty)
<1> DEFINE li == One(nextId, Line(f, "payment", -a, 0, None, None))
           w == [NoWrites EXCEPT !.lines = li]
<1>1. Request(s, w, 1)
  BY DEF PostPayment
<1> HIDE DEF li
<1>2. /\ w.status = Empty /\ w.closedBy = Empty /\ w.folios = Empty /\ w.open = Empty
      /\ w.lines = li /\ w.voids = {} /\ w.posted = {} /\ w.invoices = Empty
  BY DEF NoWrites
<1> HIDE DEF w
<1> QED BY <1>1, <1>2 DEF Asks, li

LEMMA VoidLineAsks ==
  ASSUME NEW s, NEW i, VoidLine(s, i)
  PROVE  Asks(s, 0, Empty, Empty, Empty, Empty, Empty, WithChildren(i), {}, Empty)
<1> DEFINE w == [NoWrites EXCEPT !.voids = WithChildren(i)]
<1>1. Request(s, w, 0)
  BY DEF VoidLine
<1>2. /\ w.status = Empty /\ w.closedBy = Empty /\ w.folios = Empty /\ w.open = Empty
      /\ w.lines = Empty /\ w.voids = WithChildren(i) /\ w.posted = {} /\ w.invoices = Empty
  BY DEF NoWrites
<1> HIDE DEF w
<1> QED BY <1>1, <1>2 DEF Asks

LEMMA CloseFolioAsks ==
  ASSUME NEW s, NEW f, CloseFolio(s, f)
  PROVE  Asks(s, 0, Empty, Empty, Empty, One(f, FALSE), Empty, {}, {}, Empty)
<1> DEFINE op == One(f, FALSE)
           w == [NoWrites EXCEPT !.open = op]
<1>1. Request(s, w, 0)
  BY DEF CloseFolio
<1> HIDE DEF op
<1>2. /\ w.status = Empty /\ w.closedBy = Empty /\ w.folios = Empty /\ w.open = op
      /\ w.lines = Empty /\ w.voids = {} /\ w.posted = {} /\ w.invoices = Empty
  BY DEF NoWrites
<1> HIDE DEF w
<1> QED BY <1>1, <1>2 DEF Asks, op

LEMMA GenerateInvoiceAsks ==
  ASSUME NEW s, NEW f, GenerateInvoice(s, f)
  PROVE  Asks(s, 1, Empty, Empty, Empty, Empty, Empty, {}, {}, One(nextId, Invoice(f)))
<1> DEFINE inv == One(nextId, Invoice(f))
           w == [NoWrites EXCEPT !.invoices = inv]
<1>1. Request(s, w, 1)
  BY DEF GenerateInvoice
<1> HIDE DEF inv
<1>2. /\ w.status = Empty /\ w.closedBy = Empty /\ w.folios = Empty /\ w.open = Empty
      /\ w.lines = Empty /\ w.voids = {} /\ w.posted = {} /\ w.invoices = inv
  BY DEF NoWrites
<1> HIDE DEF w
<1> QED BY <1>1, <1>2 DEF Asks, inv

(* The lines of a check-in: those of the upgrade, if it costs something.   *)
UpgradeLines(x, u) ==
  IF u = 0 THEN Empty
  ELSE ChargeLines(IF HasFolio(x) THEN FolioOf(x) ELSE nextId, u, 1, "upgrade", "upgrade",
                   nextId + IF HasFolio(x) THEN 0 ELSE 1)

LEMMA CheckInAsks ==
  ASSUME NEW s, NEW x, NEW u, CheckIn(s, x, u)
  PROVE  Asks(s, (IF HasFolio(x) THEN 0 ELSE 1) + Cardinality(DOMAIN UpgradeLines(x, u)),
              One(x, "in_house"), Empty,
              IF HasFolio(x) THEN Empty ELSE One(nextId, NewFolio(x, nextId)),
              Empty, UpgradeLines(x, u), {}, {}, Empty)
<1> DEFINE st == One(x, "in_house")
           fo == IF HasFolio(x) THEN Empty ELSE One(nextId, NewFolio(x, nextId))
           li == UpgradeLines(x, u)
           w == [NoWrites EXCEPT !.status = st, !.folios = fo, !.lines = li]
           n == (IF HasFolio(x) THEN 0 ELSE 1) + Cardinality(DOMAIN li)
<1>1. Request(s, w, n)
  <2>1. CASE HasFolio(x)
    BY <2>1 DEF CheckIn, UpgradeLines
  <2>2. CASE ~HasFolio(x)
    BY <2>2 DEF CheckIn, UpgradeLines
  <2> QED BY <2>1, <2>2
<1> HIDE DEF st, fo, li
<1>2. /\ w.status = st /\ w.closedBy = Empty /\ w.folios = fo /\ w.open = Empty
      /\ w.lines = li /\ w.voids = {} /\ w.posted = {} /\ w.invoices = Empty
  BY DEF NoWrites
<1> HIDE DEF w, n
<1>3. Asks(s, n, st, Empty, fo, Empty, li, {}, {}, Empty)
  BY <1>1, <1>2 DEF Asks
<1> QED BY <1>3 DEF st, fo, li, n

LEMMA UndoCheckInAsks ==
  ASSUME NEW s, NEW x, UndoCheckIn(s, x)
  PROVE  Asks(s, 0, One(x, "confirmed"), Empty, Empty, Empty, Empty, {}, {}, Empty)
<1> DEFINE st == One(x, "confirmed")
           w == [NoWrites EXCEPT !.status = st]
<1>1. Request(s, w, 0)
  BY DEF UndoCheckIn
<1> HIDE DEF st
<1>2. /\ w.status = st /\ w.closedBy = Empty /\ w.folios = Empty /\ w.open = Empty
      /\ w.lines = Empty /\ w.voids = {} /\ w.posted = {} /\ w.invoices = Empty
  BY DEF NoWrites
<1> HIDE DEF w
<1> QED BY <1>1, <1>2 DEF Asks, st

LEMMA CheckOutAsks ==
  ASSUME NEW s, NEW x, NEW allow, CheckOut(s, x, allow)
  PROVE  LET settled == Balance(FolioOf(x)) = 0
         IN  Asks(s, 0, One(x, "checked_out"), One(x, settled), Empty,
                  IF settled THEN One(FolioOf(x), FALSE) ELSE Empty, Empty, {}, {}, Empty)
<1> DEFINE settled == Balance(FolioOf(x)) = 0
           st == One(x, "checked_out")
           cb == One(x, settled)
           op == IF settled THEN One(FolioOf(x), FALSE) ELSE Empty
           w == [NoWrites EXCEPT !.status = st, !.closedBy = cb, !.open = op]
<1>1. Request(s, w, 0)
  BY DEF CheckOut
<1> HIDE DEF st, cb, op
<1>2. /\ w.status = st /\ w.closedBy = cb /\ w.folios = Empty /\ w.open = op
      /\ w.lines = Empty /\ w.voids = {} /\ w.posted = {} /\ w.invoices = Empty
  BY DEF NoWrites
<1> HIDE DEF w
<1>3. Asks(s, 0, st, cb, Empty, op, Empty, {}, {}, Empty)
  BY <1>1, <1>2 DEF Asks
<1> QED BY <1>3 DEF st, cb, op

LEMMA UndoCheckOutAsks ==
  ASSUME NEW s, NEW x, UndoCheckOut(s, x)
  PROVE  Asks(s, 0, One(x, "in_house"), Empty, Empty,
              IF closedByCheckOut[x] /\ ~folios[FolioOf(x)].open
                THEN One(FolioOf(x), TRUE) ELSE Empty, Empty, {}, {}, Empty)
<1> DEFINE st == One(x, "in_house")
           op == IF closedByCheckOut[x] /\ ~folios[FolioOf(x)].open
                   THEN One(FolioOf(x), TRUE) ELSE Empty
           w == [NoWrites EXCEPT !.status = st, !.open = op]
<1>1. Request(s, w, 0)
  BY DEF UndoCheckOut
<1> HIDE DEF st, op
<1>2. /\ w.status = st /\ w.closedBy = Empty /\ w.folios = Empty /\ w.open = op
      /\ w.lines = Empty /\ w.voids = {} /\ w.posted = {} /\ w.invoices = Empty
  BY DEF NoWrites
<1> HIDE DEF w
<1>3. Asks(s, 0, st, Empty, Empty, op, Empty, {}, {}, Empty)
  BY <1>1, <1>2 DEF Asks
<1> QED BY <1>3 DEF st, op

LEMMA NightAuditAsks ==
  ASSUME NEW s, NEW d, NightAudit(s, d)
  PROVE  LET li == NightCharges(SetToSeq(DueNights(d)))
         IN  Asks(s, Cardinality(DOMAIN li), [x \in Stale(d + 1) |-> "no_show"], Empty, Empty,
                  Empty, li, {}, DueNights(d), Empty)
<1> DEFINE li == NightCharges(SetToSeq(DueNights(d)))
           st == [x \in Stale(d + 1) |-> "no_show"]
           po == DueNights(d)
           w == [NoWrites EXCEPT !.lines = li, !.posted = po, !.status = st]
<1>1. Request(s, w, Cardinality(DOMAIN li))
  BY DEF NightAudit
<1> HIDE DEF li, st, po
<1>2. /\ w.status = st /\ w.closedBy = Empty /\ w.folios = Empty /\ w.open = Empty
      /\ w.lines = li /\ w.voids = {} /\ w.posted = po /\ w.invoices = Empty
  BY DEF NoWrites
<1> HIDE DEF w
<1>3. Asks(s, Cardinality(DOMAIN li), st, Empty, Empty, Empty, li, {}, po, Empty)
  BY <1>1, <1>2 DEF Asks
<1> QED BY <1>3 DEF li, st, po


--------------------------------------------------------------------------------
(* One folio for each reservation.                                         *)

(* The first folio of a reservation; only these are ever opened.           *)
First(v) == DOMAIN v = {"res", "seq", "open"} /\ v.seq = 1

(* A request opens one folio at most.                                      *)
OpensOne(fo) ==
  /\ \A f, g \in DOMAIN fo : f = g
  /\ \A f \in DOMAIN fo : First(fo[f])

FoliosInvariant ==
  /\ tx = [s \in Session |-> tx[s]]
  /\ \A f \in DOMAIN folios : First(folios[f])
  /\ \A f, g \in DOMAIN folios : folios[f].res = folios[g].res => f = g
  /\ \A s \in Session : tx[s] # None => OpensOne(tx[s].folios)

(* What every request decides to write.                                    *)
Decided(s) == \E w, n : Request(s, w, n) /\ OpensOne(w.folios)

LEMMA AsksDecided ==
  ASSUME NEW s, NEW n, NEW st, NEW cb, NEW fo, NEW op, NEW li, NEW vo, NEW po, NEW inv,
         Asks(s, n, st, cb, fo, op, li, vo, po, inv), OpensOne(fo)
  PROVE  Decided(s)
BY DEF Asks, Decided

LEMMA NoDomain == DOMAIN Empty = {}
BY DEF Empty

LEMMA OpensNone == OpensOne(Empty)
BY NoDomain DEF OpensOne

(* A folio is opened for a reservation that has none.                      *)
LEMMA OpensFirst ==
  ASSUME NEW x, NEW f, ~HasFolio(x)
  PROVE  OpensOne(One(f, NewFolio(x, f)))
<1>1. Cardinality(FoliosOf(x)) = 0
  BY FS_EmptySet DEF HasFolio
<1>2. DOMAIN One(f, NewFolio(x, f)) = {f} /\ One(f, NewFolio(x, f))[f] = NewFolio(x, f)
  BY DEF One
<1>3. First(NewFolio(x, f))
  BY <1>1 DEF NewFolio, First
<1> QED
  BY <1>2, <1>3 DEF OpensOne

LEMMA BillDecided ==
  ASSUME NEW s, Bill(s)
  PROVE  Decided(s)
<1>1. ASSUME NEW x, OpenFolio(s, x) PROVE Decided(s)
  <2>1. ~HasFolio(x)
    BY <1>1 DEF OpenFolio
  <2> QED
    BY <1>1, <2>1, OpenFolioAsks, OpensFirst, AsksDecided
<1>2. ASSUME NEW f, NEW a, NEW q, NEW c, PostCharge(s, f, a, q, c) PROVE Decided(s)
  BY <1>2, PostChargeAsks, OpensNone, AsksDecided
<1>3. ASSUME NEW f, NEW a, PostPayment(s, f, a) PROVE Decided(s)
  BY <1>3, PostPaymentAsks, OpensNone, AsksDecided
<1>4. ASSUME NEW f, CloseFolio(s, f) PROVE Decided(s)
  BY <1>4, CloseFolioAsks, OpensNone, AsksDecided
<1>5. ASSUME NEW f, GenerateInvoice(s, f) PROVE Decided(s)
  BY <1>5, GenerateInvoiceAsks, OpensNone, AsksDecided
<1>6. ASSUME NEW i, VoidLine(s, i) PROVE Decided(s)
  BY <1>6, VoidLineAsks, OpensNone, AsksDecided
<1> QED
  BY <1>1, <1>2, <1>3, <1>4, <1>5, <1>6 DEF Bill

LEMMA OperateDecided ==
  ASSUME NEW s, Operate(s)
  PROVE  Decided(s)
<1>1. ASSUME NEW x, NEW u, CheckIn(s, x, u) PROVE Decided(s)
  <2>1. OpensOne(IF HasFolio(x) THEN Empty ELSE One(nextId, NewFolio(x, nextId)))
    BY OpensNone, OpensFirst
  <2> QED
    BY <1>1, <2>1, CheckInAsks, AsksDecided
<1>2. ASSUME NEW x, UndoCheckIn(s, x) PROVE Decided(s)
  BY <1>2, UndoCheckInAsks, OpensNone, AsksDecided
<1>3. ASSUME NEW x, NEW allow, CheckOut(s, x, allow) PROVE Decided(s)
  BY <1>3, CheckOutAsks, OpensNone, AsksDecided
<1>4. ASSUME NEW x, UndoCheckOut(s, x) PROVE Decided(s)
  BY <1>4, UndoCheckOutAsks, OpensNone, AsksDecided
<1>5. ASSUME NEW d, NightAudit(s, d) PROVE Decided(s)
  BY <1>5, NightAuditAsks, OpensNone, AsksDecided
<1> QED
  BY <1>1, <1>2, <1>3, <1>4, <1>5 DEF Operate

LEMMA RequestKeepsFolios ==
  ASSUME FoliosInvariant, NEW s \in Session, Decided(s)
  PROVE  FoliosInvariant'
<1>1. PICK w, n : Request(s, w, n) /\ OpensOne(w.folios)
  BY DEF Decided
<1>2. tx' = [tx EXCEPT ![s] = w] /\ folios' = folios
  BY <1>1 DEF Request, rows
<1>3. \A o \in Session : tx'[o] = IF o = s THEN w ELSE tx[o]
  BY <1>2 DEF FoliosInvariant
<1>4. tx' = [o \in Session |-> tx'[o]]
  BY <1>2 DEF FoliosInvariant
<1> QED
  BY <1>1, <1>2, <1>3, <1>4 DEF FoliosInvariant, OpensOne

(* The folio a commit adds has a code, so a reservation, that no folio has *)
(* yet; closing and reopening leave code and reservation alone.            *)
LEMMA CommitKeepsFolios ==
  ASSUME FoliosInvariant, NEW s \in Session, Commit(s)
  PROVE  FoliosInvariant'
<1> DEFINE w == tx[s]
           known == Overlay(folios, w.folios)
<1>1. /\ OpensOne(w.folios)
      /\ tx' = [tx EXCEPT ![s] = None]
      /\ \A f \in DOMAIN w.folios, g \in DOMAIN folios :
           ~(folios[g].res = w.folios[f].res /\ folios[g].seq = w.folios[f].seq)
      /\ folios' = [f \in DOMAIN known |->
                      IF f \in DOMAIN w.open THEN [known[f] EXCEPT !.open = w.open[f]]
                      ELSE known[f]]
  BY DEF Commit, Clashes, FoliosInvariant
<1>2. /\ DOMAIN known = DOMAIN folios \cup DOMAIN w.folios
      /\ \A f \in DOMAIN known :
           known[f] = IF f \in DOMAIN w.folios THEN w.folios[f] ELSE folios[f]
  BY DEF Overlay
<1> HIDE DEF w, known
<1>3. \A f \in DOMAIN known : First(known[f])
  BY <1>1, <1>2 DEF FoliosInvariant, OpensOne
<1>4. \A f, g \in DOMAIN known : known[f].res = known[g].res => f = g
  BY <1>1, <1>2 DEF FoliosInvariant, OpensOne, First
<1>5. /\ DOMAIN folios' = DOMAIN known
      /\ \A f \in DOMAIN known : First(folios'[f]) /\ folios'[f].res = known[f].res
  BY <1>1, <1>3 DEF First
<1>6. tx' = [o \in Session |-> tx'[o]] /\ \A o \in Session : tx'[o] = IF o = s THEN None ELSE tx[o]
  BY <1>1 DEF FoliosInvariant
<1>7. \A o \in Session : tx'[o] # None => OpensOne(tx'[o].folios)
  BY <1>6 DEF FoliosInvariant
<1> QED
  BY <1>4, <1>5, <1>6, <1>7 DEF FoliosInvariant, First, OpensOne

LEMMA OthersKeepFolios ==
  ASSUME FoliosInvariant,
         \/ UNCHANGED vars
         \/ \E s \in Session : Fail(s)
         \/ \E r \in RuleSets : ChangeRules(r)
  PROVE  FoliosInvariant'
<1>1. folios' = folios
  BY DEF vars, rows, Fail, ChangeRules
<1>2. \/ tx' = tx
      \/ \E s \in Session : tx' = [tx EXCEPT ![s] = None]
  BY DEF vars, Fail, ChangeRules
<1>3. /\ tx' = [o \in Session |-> tx'[o]]
      /\ \A o \in Session : tx'[o] = None \/ tx'[o] = tx[o]
  BY <1>2 DEF FoliosInvariant
<1>4. \A o \in Session : tx'[o] # None => OpensOne(tx'[o].folios)
  BY <1>3 DEF FoliosInvariant
<1> QED
  BY <1>1, <1>3, <1>4 DEF FoliosInvariant, First, OpensOne

LEMMA NextKeepsFolios == FoliosInvariant /\ [Next]_vars => FoliosInvariant'
<1> SUFFICES ASSUME FoliosInvariant, [Next]_vars PROVE FoliosInvariant'
  OBVIOUS
<1>1. CASE \E s \in Session : Bill(s) \/ Operate(s)
  BY <1>1, BillDecided, OperateDecided, RequestKeepsFolios
<1>2. CASE \E s \in Session : Commit(s)
  BY <1>2, CommitKeepsFolios
<1> QED
  BY <1>1, <1>2, OthersKeepFolios DEF Next

LEMMA InitFolios == Init => FoliosInvariant
<1> SUFFICES ASSUME Init PROVE FoliosInvariant
  OBVIOUS
<1>1. DOMAIN folios = {} /\ tx = [s \in Session |-> None]
  BY NoDomain DEF Init
<1> QED
  BY <1>1 DEF FoliosInvariant

LEMMA OneFolioAtMost == FoliosInvariant => OnePrimaryFolio
<1> SUFFICES ASSUME FoliosInvariant, NEW x \in Reservation
             PROVE  Cardinality(FoliosOf(x)) <= 1
  BY DEF OnePrimaryFolio
<1>1. \A f, g \in FoliosOf(x) : f = g
  BY DEF FoliosInvariant, FoliosOf
<1>2. CASE FoliosOf(x) = {}
  BY <1>2, FS_EmptySet
<1>3. CASE FoliosOf(x) # {}
  <2>1. PICK f : FoliosOf(x) = {f}
    BY <1>1, <1>3
  <2> QED
    BY <2>1, FS_Singleton
<1> QED
  BY <1>2, <1>3

(* A reservation never gets a second folio, however many requests open its *)
(* first one at once and whatever else is posted, closed and reopened      *)
(* (billing/service get_or_open_folio, billing/models Folio.code).         *)
THEOREM OnlyOneFolio == Spec => []OnePrimaryFolio
BY InitFolios, NextKeepsFolios, OneFolioAtMost, PTL DEF Spec

--------------------------------------------------------------------------------
(* Rounding a quotient.                                                    *)

LEMMA Division ==
  ASSUME NEW a \in Nat, NEW b \in Nat \ {0}
  PROVE  a \div b \in Nat /\ b * (a \div b) <= a /\ a < b * (a \div b) + b
OBVIOUS

LEMMA Rounded ==
  ASSUME NEW n \in Nat, NEW d \in Nat \ {0}
  PROVE  LET m == (2 * n + d) \div (2 * d) IN
         m \in Nat /\ 2 * (m * d) <= 2 * n + d /\ 2 * n + d < 2 * (m * d) + 2 * d
<1> DEFINE m == (2 * n + d) \div (2 * d)
<1>1. 2 * n + d \in Nat /\ 2 * d \in Nat \ {0}
  OBVIOUS
<1>2. m \in Nat /\ (2 * d) * m <= 2 * n + d /\ 2 * n + d < (2 * d) * m + 2 * d
  BY <1>1, Division
<1> HIDE DEF m
<1>3. (2 * d) * m = 2 * (m * d)
  BY <1>2
<1> QED BY <1>2, <1>3 DEF m

(* Rounding does not depend on the sign.                                   *)
LEMMA RoundedMagnitude ==
  ASSUME NEW n \in Int, NEW d \in Nat \ {0}
  PROVE  /\ RoundHalfUp(Magnitude(n), d) \in Nat
         /\ RoundHalfUp(n, d) =
              IF n < 0 THEN -RoundHalfUp(Magnitude(n), d) ELSE RoundHalfUp(Magnitude(n), d)
<1> DEFINE k == Magnitude(n)
           m == (2 * k + d) \div (2 * d)
<1>1. k \in Nat /\ Magnitude(k) = k
  BY DEF Magnitude
<1>2. m \in Nat
  <2> HIDE DEF k
  <2> QED BY <1>1, Rounded
<1>3. RoundHalfUp(n, d) = IF n < 0 THEN -m ELSE m
  BY DEF RoundHalfUp
<1>4. RoundHalfUp(k, d) = m
  <2> HIDE DEF k
  <2> QED BY <1>1 DEF RoundHalfUp
<1> QED BY <1>2, <1>3, <1>4

--------------------------------------------------------------------------------
(* Induction over the rules of a charge and over the nights of an audit:   *)
(* the least counterexample.                                               *)

(* What a rule asks for a charge, and what it does to the taxes so far.    *)
Due(r, amount, q, category) ==
  IF Applies(r, category) THEN RuleAmount(r, amount, q) ELSE 0

Taxed(due, r, t) ==
  IF due = 0 THEN t
  ELSE IF r.inclusive THEN [t EXCEPT !.component = @ + due]
  ELSE [t EXCEPT !.added = Append(@, due)]

(* g[k] is what the first k of the rules R make of a charge.               *)
TaxedBy(g, R, amount, q, category, m) ==
  g = [k \in 0..m |-> IF k = 0 THEN [component |-> 0, added |-> <<>>]
                      ELSE Taxed(Due(R[k], amount, q, category), R[k], g[k - 1])]

LEMMA TaxesFollow ==
  ASSUME NEW R, Len(R) \in Nat, NEW a, NEW q, NEW c
  PROVE  \E g : TaxedBy(g, R, a, q, c, Len(R)) /\ TaxesOf(R, a, q, c) = g[Len(R)]
<1> DEFINE n == Len(R)
           Start == [component |-> 0, added |-> <<>>]
           Bad == {m \in 0..n : ~\E g : TaxedBy(g, R, a, q, c, m)}
<1>1. n \in Nat
  OBVIOUS
<1> HIDE DEF n
<1>2. Bad = {}
  <2> SUFFICES ASSUME Bad # {} PROVE FALSE
    OBVIOUS
  <2>1. PICK m \in Bad : \A k \in Bad : m <= k
    <3>1. Bad \in SUBSET Nat
      BY <1>1
    <3> HIDE DEF Bad
    <3> QED BY <3>1, NatLeast
  <2>2. m # 0
    <3>1. TaxedBy([k \in 0..0 |-> Start], R, a, q, c, 0)
      BY DEF TaxedBy
    <3> QED BY <2>1, <3>1
  <2>3. m \in 0..n /\ m - 1 \in 0..n /\ m - 1 \notin Bad
    <3>1. m \in 0..n
      BY <2>1
    <3>2. m - 1 \in 0..n /\ ~(m <= m - 1)
      BY <1>1, <2>2, <3>1
    <3> HIDE DEF Bad
    <3> QED BY <2>1, <3>1, <3>2
  <2>4. PICK g : TaxedBy(g, R, a, q, c, m - 1)
    BY <2>3
  <2> DEFINE h == [k \in 0..m |-> IF k = m THEN Taxed(Due(R[m], a, q, c), R[m], g[m - 1])
                                  ELSE g[k]]
  <2>5. TaxedBy(h, R, a, q, c, m)
    BY <2>2, <2>3, <2>4 DEF TaxedBy
  <2> QED BY <2>1, <2>5
<1>3. \E g : TaxedBy(g, R, a, q, c, n)
  <2>1. n \in 0..n
    BY <1>1
  <2>2. n \notin Bad
    <3> HIDE DEF Bad
    <3> QED BY <1>2
  <2> QED BY <2>1, <2>2
<1> QED BY <1>3 DEF TaxedBy, TaxesOf, Due, Taxed, n

LEMMA AmountIsInteger ==
  ASSUME NEW r \in Rule, NEW a \in Int, NEW q \in Int
  PROVE  RuleAmount(r, a, q) \in Int
<1>1. ASSUME NEW p \in Nat, r.percent = p PROVE RoundHalfUp(a * p, Divisor(r)) \in Int
  <2>1. a * p \in Int
    OBVIOUS
  <2>2. Divisor(r) \in Nat \ {0}
    BY <1>1 DEF Divisor, Hundred
  <2> QED BY <2>1, <2>2, RoundedMagnitude
<1>2. r.percent = None \/ \E p \in Nat : r.percent = p
  BY DEF Rule
<1>3. (IF r.percent = None THEN 0 ELSE RoundHalfUp(a * r.percent, Divisor(r))) \in Int
  BY <1>1, <1>2
<1>4. (IF r.fixed = None THEN 0 ELSE r.fixed * q) \in Int
  <2>1. r.fixed = None \/ \E p \in Nat : r.fixed = p
    BY DEF Rule
  <2> QED BY <2>1
<1> QED BY <1>3, <1>4 DEF RuleAmount

(* The amounts of the tax lines are integers.                              *)
LEMMA TaxLines ==
  ASSUME NEW R, R \in Seq(Rule), NEW a \in Int, NEW q \in Int, NEW c
  PROVE  TaxesOf(R, a, q, c).added \in Seq(Int)
<1> DEFINE n == Len(R)
           Ok(t) == DOMAIN t = {"component", "added"} /\ t.added \in Seq(Int)
<1>1. n \in Nat
  OBVIOUS
<1>2. PICK g : TaxedBy(g, R, a, q, c, n) /\ TaxesOf(R, a, q, c) = g[n]
  BY TaxesFollow
<1>3. \A k \in 1..n : Due(R[k], a, q, c) \in Int
  BY AmountIsInteger DEF Due
<1> HIDE DEF n
<1>4. \A k \in 0..n : g[k] = IF k = 0 THEN [component |-> 0, added |-> <<>>]
                             ELSE Taxed(Due(R[k], a, q, c), R[k], g[k - 1])
  BY <1>2 DEF TaxedBy
<1>5. ASSUME NEW t, Ok(t), NEW d \in Int, NEW r PROVE Ok(Taxed(d, r, t))
  <2>1. Append(t.added, d) \in Seq(Int)
    BY <1>5
  <2> QED BY <1>5, <2>1 DEF Taxed
<1> DEFINE Bad == {m \in 0..n : ~Ok(g[m])}
<1>6. Bad = {}
  <2> SUFFICES ASSUME Bad # {} PROVE FALSE
    OBVIOUS
  <2>1. PICK m \in Bad : \A k \in Bad : m <= k
    <3>1. Bad \in SUBSET Nat
      BY <1>1
    <3> HIDE DEF Bad
    <3> QED BY <3>1, NatLeast
  <2>2. m # 0
    <3>1. Ok([component |-> 0, added |-> <<>>])
      OBVIOUS
    <3> QED BY <1>1, <1>4, <2>1, <3>1
  <2>3. m \in 1..n /\ m - 1 \in 0..n /\ Ok(g[m - 1])
    BY <1>1, <2>1, <2>2
  <2>4. Ok(g[m])
    <3> HIDE DEF Ok
    <3> QED BY <1>1, <1>3, <1>4, <1>5, <2>2, <2>3
  <2> QED BY <2>1, <2>4
<1> QED BY <1>1, <1>2, <1>6

--------------------------------------------------------------------------------
(* The books: lines and invoices.                                          *)

Drawn == {i \in Nat : i < nextId}

LineFields == {"folio", "kind", "amount", "component", "parent", "source", "void"}

(* A line that has a parent has a charge, which has none, for parent.      *)
WholeFamilies(L) ==
  \A i \in DOMAIN L : L[i].parent # None =>
    L[i].parent \in DOMAIN L /\ L[L[i].parent].parent = None

NewLines(L) ==
  /\ \A i \in DOMAIN L : DOMAIN L[i] = LineFields /\ L[i].amount \in Int /\ ~L[i].void
  /\ WholeFamilies(L)

(* Lines with the m ids from first on.                                     *)
Batch(L, first, m) ==
  /\ m \in Nat
  /\ DOMAIN L = first..(first + m - 1)
  /\ NewLines(L)

(* A charge is not voided without its tax lines.                           *)
VoidsWhole(v) ==
  /\ v \subseteq DOMAIN lines
  /\ \A j \in DOMAIN lines : lines[j].parent \in v => j \in v

LEMMA BatchSize ==
  ASSUME NEW L, NEW first \in Nat, NEW m, Batch(L, first, m)
  PROVE  Cardinality(DOMAIN L) = m
<1>1. first \in Int /\ first + m - 1 \in Int /\ m \in Nat
  BY DEF Batch
<1>2. Cardinality(first..(first + m - 1))
        = IF first > first + m - 1 THEN 0 ELSE first + m - 1 - first + 1
  BY <1>1, FS_Interval
<1>3. Cardinality(DOMAIN L) = IF first > first + m - 1 THEN 0 ELSE first + m - 1 - first + 1
  BY <1>2 DEF Batch
<1> QED BY <1>1, <1>3

LEMMA EmptyBatch ==
  ASSUME NEW first \in Nat
  PROVE  Batch(Empty, first, 0)
BY NoDomain DEF Batch, NewLines, WholeFamilies

LEMMA PaymentBatch ==
  ASSUME NEW first \in Nat, NEW f, NEW a \in Int
  PROVE  Batch(One(first, Line(f, "payment", a, 0, None, None)), first, 1)
<1> DEFINE p == Line(f, "payment", a, 0, None, None)
           L == One(first, p)
<1>1. DOMAIN p = LineFields /\ p.amount \in Int /\ ~p.void /\ p.parent = None
  BY DEF Line, LineFields
<1> HIDE DEF p
<1>2. DOMAIN L = {first} /\ L[first] = p
  BY DEF One
<1>3. first..(first + 1 - 1) = {first}
  OBVIOUS
<1> HIDE DEF L
<1>4. Batch(L, first, 1)
  BY <1>1, <1>2, <1>3 DEF Batch, NewLines, WholeFamilies
<1> QED BY <1>4 DEF L, p

(* A charge and the tax lines under it.                                    *)
LEMMA ChargeBatch ==
  ASSUME rules \in RuleSets, NEW first \in Nat, NEW f, NEW a \in Int, NEW q \in Int,
         NEW c, NEW source
  PROVE  \E m : Batch(ChargeLines(f, a, q, c, source, first), first, m)
<1> DEFINE t == TaxesOf(rules, a * q, q, c)
           n == Len(t.added)
           L == ChargeLines(f, a, q, c, source, first)
<1>1. t.added \in Seq(Int) /\ n \in Nat /\ a * q \in Int
  <2>1. rules \in Seq(Rule) /\ a * q \in Int
    BY RulesAssumption
  <2>2. t.added \in Seq(Int)
    BY <2>1, TaxLines
  <2> HIDE DEF t
  <2> QED BY <2>1, <2>2
<1>2. \A k \in 1..n : t.added[k] \in Int
  <2> HIDE DEF t
  <2> QED BY <1>1
<1>3. /\ DOMAIN L = first..(first + n)
      /\ \A i \in DOMAIN L :
           L[i] = IF i = first THEN Line(f, "charge", a * q, t.component, None, source)
                  ELSE Line(f, "tax", t.added[i - first], 0, first, source)
  BY DEF ChargeLines
<1> DEFINE b == a * q
<1> HIDE DEF t, n, L, b
<1>4. first \in DOMAIN L
  BY <1>1, <1>3
<1>5. \A i \in DOMAIN L : i # first => i - first \in 1..n
  BY <1>1, <1>3
<1>6. \A i \in DOMAIN L : DOMAIN L[i] = LineFields /\ L[i].amount \in Int /\ ~L[i].void
  <2>1. \A i \in DOMAIN L :
          /\ DOMAIN L[i] = LineFields /\ ~L[i].void
          /\ L[i].amount = IF i = first THEN b ELSE t.added[i - first]
    BY <1>3 DEF Line, LineFields, b
  <2>2. b \in Int
    BY <1>1 DEF b
  <2> QED BY <1>2, <1>5, <2>1, <2>2
<1>7. \A i \in DOMAIN L : L[i].parent = IF i = first THEN None ELSE first
  BY <1>3 DEF Line
<1>8. WholeFamilies(L)
  BY <1>4, <1>7 DEF WholeFamilies
<1>9. n + 1 \in Nat /\ DOMAIN L = first..(first + (n + 1) - 1)
  BY <1>1, <1>3
<1>10. Batch(L, first, n + 1)
  BY <1>6, <1>8, <1>9 DEF Batch, NewLines
<1> QED BY <1>10 DEF L

(* Two batches, one after the other.                                       *)
LEMMA BatchAfter ==
  ASSUME NEW K, NEW L, NEW first \in Nat, NEW m, NEW n,
         Batch(K, first, m), Batch(L, first + m, n)
  PROVE  Batch(Overlay(K, L), first, m + n)
<1> DEFINE O == Overlay(K, L)
<1>1. /\ m \in Nat /\ n \in Nat
      /\ DOMAIN K = first..(first + m - 1) /\ DOMAIN L = (first + m)..(first + m + n - 1)
      /\ NewLines(K) /\ NewLines(L)
  BY DEF Batch
<1>2. /\ DOMAIN O = DOMAIN K \cup DOMAIN L
      /\ \A i \in DOMAIN O : O[i] = IF i \in DOMAIN L THEN L[i] ELSE K[i]
  BY DEF Overlay
<1> HIDE DEF O
<1>3. DOMAIN O = first..(first + (m + n) - 1) /\ DOMAIN K \cap DOMAIN L = {}
  BY <1>1, <1>2
<1>4. NewLines(O)
  BY <1>1, <1>2, <1>3 DEF NewLines, WholeFamilies
<1>5. Batch(O, first, m + n)
  BY <1>1, <1>3, <1>4 DEF Batch
<1> QED BY <1>5 DEF O

(* The charges of an audit, night by night.                                *)
ChargedBy(g, ns, m) ==
  g = [k \in 0..m |->
         IF k = 0 THEN Empty
         ELSE Overlay(g[k - 1],
                      ChargeLines(FolioOf(NightRow[ns[k]].res), NightRow[ns[k]].amount, 1, "room",
                                  ns[k], nextId + Cardinality(DOMAIN g[k - 1])))]

LEMMA ChargesFollow ==
  ASSUME NEW ns, Len(ns) \in Nat
  PROVE  \E g : ChargedBy(g, ns, Len(ns)) /\ NightCharges(ns) = g[Len(ns)]
<1> DEFINE n == Len(ns)
           Bad == {m \in 0..n : ~\E g : ChargedBy(g, ns, m)}
<1>1. n \in Nat
  OBVIOUS
<1> HIDE DEF n
<1>2. Bad = {}
  <2> SUFFICES ASSUME Bad # {} PROVE FALSE
    OBVIOUS
  <2>1. PICK m \in Bad : \A k \in Bad : m <= k
    <3>1. Bad \in SUBSET Nat
      BY <1>1
    <3> HIDE DEF Bad
    <3> QED BY <3>1, NatLeast
  <2>2. m # 0
    <3>1. ChargedBy([k \in 0..0 |-> Empty], ns, 0)
      BY DEF ChargedBy
    <3> QED BY <2>1, <3>1
  <2>3. m \in 0..n /\ m - 1 \in 0..n /\ m - 1 \notin Bad
    <3>1. m \in 0..n
      BY <2>1
    <3>2. m - 1 \in 0..n /\ ~(m <= m - 1)
      BY <1>1, <2>2, <3>1
    <3> HIDE DEF Bad
    <3> QED BY <2>1, <3>1, <3>2
  <2>4. PICK g : ChargedBy(g, ns, m - 1)
    BY <2>3
  <2> DEFINE last == Overlay(g[m - 1],
                       ChargeLines(FolioOf(NightRow[ns[m]].res), NightRow[ns[m]].amount, 1,
                                   "room", ns[m], nextId + Cardinality(DOMAIN g[m - 1])))
             h == [k \in 0..m |-> IF k = m THEN last ELSE g[k]]
  <2>5. /\ \A k \in 0..m : h[k] = IF k = m THEN last ELSE g[k]
        /\ \A k \in 0..(m - 1) : k \in 0..m /\ k # m /\ (k # 0 => k - 1 \in 0..m /\ k - 1 # m)
        /\ m - 1 \in 0..m /\ m - 1 # m
    BY <1>1, <2>2, <2>3
  <2>6. /\ \A k \in 0..(m - 1) : h[k] = g[k] /\ (k # 0 => h[k - 1] = g[k - 1])
        /\ h[m] = last /\ h[m - 1] = g[m - 1]
        /\ h = [k \in 0..m |-> h[k]]
    <3> HIDE DEF last
    <3> QED BY <1>1, <2>3, <2>5
  <2> DEFINE Sum(k, L) == Overlay(L, ChargeLines(FolioOf(NightRow[ns[k]].res),
                                     NightRow[ns[k]].amount, 1, "room", ns[k],
                                     nextId + Cardinality(DOMAIN L)))
  <2>7. /\ \A k \in 0..(m - 1) : g[k] = IF k = 0 THEN Empty ELSE Sum(k, g[k - 1])
        /\ last = Sum(m, g[m - 1])
    BY <2>4 DEF ChargedBy
  <2> HIDE DEF h, last, Sum
  <2>8. \A k \in 0..m : h[k] = IF k = 0 THEN Empty ELSE Sum(k, h[k - 1])
    <3>1. \A k \in 0..m : k = m \/ k \in 0..(m - 1)
      BY <1>1, <2>3
    <3> QED BY <2>2, <2>6, <2>7, <3>1
  <2>9. ChargedBy(h, ns, m)
    BY <2>6, <2>8 DEF ChargedBy, Sum
  <2> QED BY <2>1, <2>9
<1>3. \E g : ChargedBy(g, ns, n)
  <2>1. n \in 0..n /\ n \notin Bad
    BY <1>1, <1>2
  <2> QED BY <2>1
<1> QED BY <1>3 DEF ChargedBy, NightCharges, n

LEMMA AuditBatch ==
  ASSUME rules \in RuleSets, nextId \in Nat, NEW ns, Len(ns) \in Nat,
         \A k \in 1..Len(ns) : ns[k] \in Night
  PROVE  \E m : Batch(NightCharges(ns), nextId, m)
<1> DEFINE n == Len(ns)
           Ok(L) == \E m : Batch(L, nextId, m)
           NightLines(k, first) ==
             ChargeLines(FolioOf(NightRow[ns[k]].res), NightRow[ns[k]].amount, 1, "room", ns[k],
                         first)
<1>1. n \in Nat
  OBVIOUS
<1>2. PICK g : ChargedBy(g, ns, n) /\ NightCharges(ns) = g[n]
  BY ChargesFollow
<1>3. \A k \in 0..n : g[k] = IF k = 0 THEN Empty
                             ELSE Overlay(g[k - 1],
                                          NightLines(k, nextId + Cardinality(DOMAIN g[k - 1])))
  BY <1>2 DEF ChargedBy
<1>4. \A k \in 1..n, first \in Nat : \E m : Batch(NightLines(k, first), first, m)
  <2>1. \A k \in 1..n : NightRow[ns[k]].amount \in Int
    BY NightsAssumption
  <2> QED BY <2>1, ChargeBatch
<1> HIDE DEF n, NightLines
<1>5. ASSUME NEW L, Ok(L), NEW k \in 1..n
      PROVE  Ok(Overlay(L, NightLines(k, nextId + Cardinality(DOMAIN L))))
  <2>1. PICK m : Batch(L, nextId, m)
    BY <1>5
  <2>2. Cardinality(DOMAIN L) = m
    BY <2>1, BatchSize
  <2>3. nextId + m \in Nat
    BY <2>1 DEF Batch
  <2>4. PICK j : Batch(NightLines(k, nextId + m), nextId + m, j)
    BY <1>4, <2>3
  <2>5. Batch(Overlay(L, NightLines(k, nextId + m)), nextId, m + j)
    BY <2>1, <2>4, BatchAfter
  <2> QED BY <2>2, <2>5
<1> DEFINE Bad == {m \in 0..n : ~Ok(g[m])}
<1>6. Bad = {}
  <2> SUFFICES ASSUME Bad # {} PROVE FALSE
    OBVIOUS
  <2>1. PICK m \in Bad : \A k \in Bad : m <= k
    <3>1. Bad \in SUBSET Nat
      BY <1>1
    <3> HIDE DEF Bad
    <3> QED BY <3>1, NatLeast
  <2>2. m # 0
    <3>1. Ok(Empty)
      BY EmptyBatch
    <3> HIDE DEF Ok
    <3> QED BY <1>1, <1>3, <2>1, <3>1
  <2>3. m \in 1..n /\ m - 1 \in 0..n /\ Ok(g[m - 1])
    BY <1>1, <2>1, <2>2
  <2>4. Ok(g[m])
    <3> HIDE DEF Ok
    <3> QED BY <1>1, <1>3, <1>5, <2>2, <2>3
  <2> QED BY <2>1, <2>4
<1>7. n \in 0..n /\ n \notin Bad
  BY <1>1, <1>6
<1> QED BY <1>2, <1>7

(* The due nights, each once, in some order.                               *)
LEMMA DueOrder ==
  ASSUME NEW d
  PROVE  LET ns == SetToSeq(DueNights(d)) IN
         /\ Len(ns) \in Nat
         /\ \A i, j \in 1..Len(ns) : ns[i] = ns[j] => i = j
         /\ \A i \in 1..Len(ns) : ns[i] \in DueNights(d)
         /\ \A n \in DueNights(d) : \E i \in 1..Len(ns) : ns[i] = n
<1> DEFINE S == DueNights(d)
           c == Cardinality(S)
           ns == SetToSeq(S)
<1>1. IsFiniteSet(S)
  <2>1. S \in SUBSET Night
    BY DEF DueNights
  <2> HIDE DEF S
  <2> QED BY <2>1, NightsAssumption, FS_Subset
<1> HIDE DEF S
<1>2. c \in Nat /\ ExistsBijection(1..c, S)
  BY <1>1, FS_CardinalityType
<1>3. PICK h \in [1..c -> S] : IsInjective(h)
  BY <1>2 DEF ExistsBijection, Bijection, Injection
<1>4. ns \in [1..c -> S] /\ IsInjective(ns)
  BY <1>3 DEF SetToSeq
<1> HIDE DEF ns
<1>5. ns \in Injection(1..c, S)
  BY <1>4 DEF Injection
<1>6. Cardinality(1..c) = c
  <2>1. 1 \in Int /\ c \in Int
    BY <1>2
  <2>2. Cardinality(1..c) = IF 1 > c THEN 0 ELSE c - 1 + 1
    BY <2>1, FS_Interval
  <2> QED BY <1>2, <2>2
<1>7. ns \in Surjection(1..c, S)
  BY <1>1, <1>5, <1>6, FS_Injection
<1>8. \A n \in S : \E i \in 1..c : ns[i] = n
  BY <1>7 DEF Surjection
<1>9. Len(ns) = c /\ DOMAIN ns = 1..c
  BY <1>2, <1>4
<1> HIDE DEF c
<1>10. \A i, j \in 1..c : ns[i] = ns[j] => i = j
  BY <1>4, <1>9 DEF IsInjective
<1> QED BY <1>2, <1>4, <1>8, <1>9, <1>10 DEF S, ns

--------------------------------------------------------------------------------
(* What an open request will add has ids nobody else has, brings families  *)
(* as a whole, and numbers one invoice at most, perhaps by an old count.   *)
SoundBooks(w) ==
  /\ DOMAIN w.lines \subseteq Drawn \ DOMAIN lines
  /\ NewLines(w.lines)
  /\ VoidsWhole(w.voids)
  /\ DOMAIN w.invoices \subseteq Drawn \ DOMAIN invoices
  /\ \A i, j \in DOMAIN w.invoices : i = j
  /\ \A i \in DOMAIN w.invoices : w.invoices[i].number \in 1..(Cardinality(DOMAIN invoices) + 1)

BooksInvariant ==
  /\ tx = [s \in Session |-> tx[s]]
  /\ nextId \in Nat
  /\ rules \in RuleSets
  /\ DOMAIN lines \subseteq Drawn /\ DOMAIN invoices \subseteq Drawn
  /\ \A i \in DOMAIN lines : DOMAIN lines[i] = LineFields /\ lines[i].amount \in Int
  /\ WholeFamilies(lines)
  /\ NoOrphanTax
  /\ InvoiceNumbersConsecutive
  /\ \A s \in Session : tx[s] # None => SoundBooks(tx[s])
  /\ \A s, o \in Session :
       s # o /\ tx[s] # None /\ tx[o] # None =>
         /\ DOMAIN tx[s].lines \cap DOMAIN tx[o].lines = {}
         /\ DOMAIN tx[s].invoices \cap DOMAIN tx[o].invoices = {}

(* What a request decides, by the committed rows it reads and the n ids it *)
(* draws.                                                                  *)
SoundRequest(n, li, vo, inv) ==
  /\ n \in Nat
  /\ DOMAIN li \subseteq nextId..(nextId + n - 1)
  /\ NewLines(li)
  /\ VoidsWhole(vo)
  /\ DOMAIN inv \subseteq nextId..(nextId + n - 1)
  /\ \A i, j \in DOMAIN inv : i = j
  /\ \A i \in DOMAIN inv : inv[i].number = Cardinality(DOMAIN invoices) + 1

Books(s) == \E w, n : Request(s, w, n) /\ SoundRequest(n, w.lines, w.voids, w.invoices)

LEMMA AsksBooks ==
  ASSUME NEW s, NEW n, NEW st, NEW cb, NEW fo, NEW op, NEW li, NEW vo, NEW po, NEW inv,
         Asks(s, n, st, cb, fo, op, li, vo, po, inv), SoundRequest(n, li, vo, inv)
  PROVE  Books(s)
BY DEF Asks, Books

LEMMA VoidsNothing == VoidsWhole({})
BY DEF VoidsWhole

(* A request that adds one batch of lines, after d other ids.              *)
LEMMA LinesSound ==
  ASSUME nextId \in Nat, NEW d \in Nat, NEW m, NEW li, Batch(li, nextId + d, m)
  PROVE  SoundRequest(d + m, li, {}, Empty)
<1>1. m \in Nat /\ DOMAIN li = (nextId + d)..(nextId + d + m - 1) /\ NewLines(li)
  BY DEF Batch
<1>2. DOMAIN li \subseteq nextId..(nextId + (d + m) - 1)
  BY <1>1
<1> QED BY <1>1, <1>2, VoidsNothing, NoDomain DEF SoundRequest

LEMMA NoLinesSound ==
  ASSUME nextId \in Nat, NEW n \in Nat
  PROVE  SoundRequest(n, Empty, {}, Empty)
BY VoidsNothing, NoDomain DEF SoundRequest, NewLines, WholeFamilies

(* A charge takes all its tax lines with it, for they have no others under *)
(* them.                                                                   *)
LEMMA VoidSound ==
  ASSUME BooksInvariant, NEW i \in DOMAIN lines
  PROVE  SoundRequest(0, Empty, WithChildren(i), Empty)
<1>1. i # None
  BY NoneAssumption DEF BooksInvariant, Drawn
<1>2. ASSUME NEW j \in DOMAIN lines, lines[j].parent \in WithChildren(i)
      PROVE  j \in WithChildren(i)
  <2>1. CASE lines[j].parent = i
    BY <2>1 DEF WithChildren, Children
  <2>2. CASE lines[j].parent \in Children(i)
    <3>1. lines[lines[j].parent].parent = i /\ lines[j].parent \in DOMAIN lines
      BY <2>2 DEF Children
    <3>2. lines[j].parent # None
      BY <3>1, NoneAssumption DEF BooksInvariant, Drawn
    <3>3. lines[lines[j].parent].parent = None
      BY <3>2 DEF BooksInvariant, WholeFamilies
    <3> QED BY <1>1, <3>1, <3>3
  <2> QED BY <1>2, <2>1, <2>2 DEF WithChildren
<1>3. WithChildren(i) \subseteq DOMAIN lines
  BY DEF WithChildren, Children
<1>4. VoidsWhole(WithChildren(i))
  BY <1>2, <1>3 DEF VoidsWhole
<1> QED BY <1>4, NoDomain DEF SoundRequest, NewLines, WholeFamilies

LEMMA InvoiceSound ==
  ASSUME nextId \in Nat, NEW f
  PROVE  SoundRequest(1, Empty, {}, One(nextId, Invoice(f)))
<1> DEFINE v == Invoice(f)
           inv == One(nextId, v)
<1>1. v.number = Cardinality(DOMAIN invoices) + 1
  BY DEF Invoice
<1> HIDE DEF v
<1>2. DOMAIN inv = {nextId} /\ inv[nextId] = v
  BY DEF One
<1> HIDE DEF inv
<1>3. DOMAIN inv \subseteq nextId..(nextId + 1 - 1)
  BY <1>2
<1>4. SoundRequest(1, Empty, {}, inv)
  BY <1>1, <1>2, <1>3, VoidsNothing, NoDomain DEF SoundRequest, NewLines, WholeFamilies
<1> QED BY <1>4 DEF inv, v

LEMMA BillBooks ==
  ASSUME BooksInvariant, NEW s, Bill(s)
  PROVE  Books(s)
<1>1. nextId \in Nat /\ rules \in RuleSets
  BY DEF BooksInvariant
<1>2. ASSUME NEW x, OpenFolio(s, x) PROVE Books(s)
  <2>1. SoundRequest(1, Empty, {}, Empty)
    BY <1>1, NoLinesSound
  <2> QED BY <1>2, <2>1, OpenFolioAsks, AsksBooks
<1>3. ASSUME NEW f, NEW a \in Amount, NEW q \in {1, 2}, NEW c, PostCharge(s, f, a, q, c)
      PROVE  Books(s)
  <2> DEFINE li == ChargeLines(f, a, q, c, None, nextId)
  <2>1. Asks(s, Cardinality(DOMAIN li), Empty, Empty, Empty, Empty, li, {}, {}, Empty)
    BY <1>3, PostChargeAsks
  <2>2. PICK m : Batch(li, nextId, m)
    BY <1>1, AmountsAssumption, ChargeBatch
  <2> HIDE DEF li
  <2>3. Cardinality(DOMAIN li) = m
    BY <1>1, <2>2, BatchSize
  <2>4. nextId + 0 = nextId /\ 0 + m = m
    BY <1>1, <2>2 DEF Batch
  <2>5. SoundRequest(m, li, {}, Empty)
    BY <1>1, <2>2, <2>4, LinesSound
  <2> QED BY <2>1, <2>3, <2>5, AsksBooks
<1>4. ASSUME NEW f, NEW a \in Amount, PostPayment(s, f, a) PROVE Books(s)
  <2> DEFINE li == One(nextId, Line(f, "payment", -a, 0, None, None))
  <2>1. Asks(s, 1, Empty, Empty, Empty, Empty, li, {}, {}, Empty)
    BY <1>4, PostPaymentAsks
  <2>2. Batch(li, nextId, 1)
    <3>1. -a \in Int
      BY AmountsAssumption
    <3> QED BY <1>1, <3>1, PaymentBatch
  <2> HIDE DEF li
  <2>3. nextId + 0 = nextId /\ 0 + 1 = 1
    BY <1>1
  <2>4. SoundRequest(1, li, {}, Empty)
    BY <1>1, <2>2, <2>3, LinesSound
  <2> QED BY <2>1, <2>4, AsksBooks
<1>5. ASSUME NEW f, CloseFolio(s, f) PROVE Books(s)
  <2>1. SoundRequest(0, Empty, {}, Empty)
    BY <1>1, NoLinesSound
  <2> QED BY <1>5, <2>1, CloseFolioAsks, AsksBooks
<1>6. ASSUME NEW f, GenerateInvoice(s, f) PROVE Books(s)
  BY <1>1, <1>6, GenerateInvoiceAsks, InvoiceSound, AsksBooks
<1>7. ASSUME NEW i \in DOMAIN lines, VoidLine(s, i) PROVE Books(s)
  BY <1>7, VoidLineAsks, VoidSound, AsksBooks
<1> QED
  BY <1>2, <1>3, <1>4, <1>5, <1>6, <1>7 DEF Bill

LEMMA OperateBooks ==
  ASSUME BooksInvariant, NEW s, Operate(s)
  PROVE  Books(s)
<1>1. nextId \in Nat /\ rules \in RuleSets
  BY DEF BooksInvariant
<1>2. SoundRequest(0, Empty, {}, Empty)
  BY <1>1, NoLinesSound
<1>3. ASSUME NEW x, NEW u \in UpgradeAmount, CheckIn(s, x, u) PROVE Books(s)
  <2> DEFINE li == UpgradeLines(x, u)
             d == IF HasFolio(x) THEN 0 ELSE 1
             fo == IF HasFolio(x) THEN Empty ELSE One(nextId, NewFolio(x, nextId))
  <2>1. Asks(s, d + Cardinality(DOMAIN li), One(x, "in_house"), Empty, fo, Empty, li, {}, {}, Empty)
    BY <1>3, CheckInAsks
  <2>2. d \in Nat
    OBVIOUS
  <2>3. \E m : Batch(li, nextId + d, m)
    <3>1. CASE u = 0
      <4>1. li = Empty
        BY <3>1 DEF UpgradeLines
      <4>2. nextId + d \in Nat
        BY <1>1
      <4> HIDE DEF li, d
      <4> QED BY <4>1, <4>2, EmptyBatch
    <3>2. CASE u # 0
      <4> DEFINE f == IF HasFolio(x) THEN FolioOf(x) ELSE nextId
      <4>1. li = ChargeLines(f, u, 1, "upgrade", "upgrade", nextId + d)
        BY <3>2 DEF UpgradeLines
      <4>2. nextId + d \in Nat
        BY <1>1
      <4>3. u \in Int /\ 1 \in Int
        BY AmountsAssumption
      <4> HIDE DEF f, li, d
      <4> QED BY <1>1, <4>1, <4>2, <4>3, ChargeBatch
    <3> QED BY <3>1, <3>2
  <2> HIDE DEF li, d, fo
  <2>4. PICK m : Batch(li, nextId + d, m)
    BY <2>3
  <2>5. nextId + d \in Nat
    BY <1>1, <2>2
  <2>6. Cardinality(DOMAIN li) = m
    BY <2>4, <2>5, BatchSize
  <2>7. SoundRequest(d + m, li, {}, Empty)
    BY <1>1, <2>2, <2>4, LinesSound
  <2> QED BY <2>1, <2>6, <2>7, AsksBooks
<1>4. ASSUME NEW x, UndoCheckIn(s, x) PROVE Books(s)
  BY <1>2, <1>4, UndoCheckInAsks, AsksBooks
<1>5. ASSUME NEW x, NEW allow, CheckOut(s, x, allow) PROVE Books(s)
  BY <1>2, <1>5, CheckOutAsks, AsksBooks
<1>6. ASSUME NEW x, UndoCheckOut(s, x) PROVE Books(s)
  BY <1>2, <1>6, UndoCheckOutAsks, AsksBooks
<1>7. ASSUME NEW d, NightAudit(s, d) PROVE Books(s)
  <2> DEFINE li == NightCharges(SetToSeq(DueNights(d)))
             st == [x \in Stale(d + 1) |-> "no_show"]
  <2>1. Asks(s, Cardinality(DOMAIN li), st, Empty, Empty, Empty, li, {}, DueNights(d), Empty)
    BY <1>7, NightAuditAsks
  <2>2. \E m : Batch(li, nextId, m)
    <3> DEFINE ns == SetToSeq(DueNights(d))
    <3>1. Len(ns) \in Nat /\ \A k \in 1..Len(ns) : ns[k] \in DueNights(d)
      BY DueOrder
    <3>2. DueNights(d) \subseteq Night
      BY DEF DueNights
    <3> HIDE DEF ns
    <3> QED BY <1>1, <3>1, <3>2, AuditBatch DEF ns
  <2> HIDE DEF li, st
  <2>3. PICK m : Batch(li, nextId, m)
    BY <2>2
  <2>4. Cardinality(DOMAIN li) = m
    BY <1>1, <2>3, BatchSize
  <2>5. nextId + 0 = nextId /\ 0 + m = m
    BY <1>1, <2>3 DEF Batch
  <2>6. SoundRequest(m, li, {}, Empty)
    BY <1>1, <2>3, <2>5, LinesSound
  <2> QED BY <2>1, <2>4, <2>6, AsksBooks
<1> QED
  BY <1>3, <1>4, <1>5, <1>6, <1>7 DEF Operate

--------------------------------------------------------------------------------
(* Each step keeps the books.                                              *)

LEMMA DrawnFinite ==
  ASSUME nextId \in Nat, NEW S, S \subseteq Drawn
  PROVE  IsFiniteSet(S) /\ Cardinality(S) \in Nat
<1>1. Drawn = 0..(nextId - 1) /\ 0 \in Int /\ nextId - 1 \in Int
  BY DEF Drawn
<1>2. IsFiniteSet(Drawn)
  BY <1>1, FS_Interval
<1>3. IsFiniteSet(S)
  BY <1>2, FS_Subset
<1> QED BY <1>3, FS_CardinalityType

LEMMA RequestKeepsBooks ==
  ASSUME BooksInvariant, NEW s \in Session, Books(s)
  PROVE  BooksInvariant'
<1>1. PICK w, n : Request(s, w, n) /\ SoundRequest(n, w.lines, w.voids, w.invoices)
  BY DEF Books
<1>2. /\ tx[s] = None /\ tx' = [tx EXCEPT ![s] = w] /\ nextId' = nextId + n
      /\ lines' = lines /\ invoices' = invoices /\ rules' = rules
  BY <1>1 DEF Request, rows
<1>3. /\ tx' = [o \in Session |-> tx'[o]]
      /\ \A o \in Session : tx'[o] = IF o = s THEN w ELSE tx[o]
  BY <1>2 DEF BooksInvariant
<1>4. nextId \in Nat /\ n \in Nat /\ nextId' \in Nat
  BY <1>1, <1>2 DEF BooksInvariant, SoundRequest
<1>5. /\ Drawn' = {i \in Nat : i < nextId + n}
      /\ Drawn \subseteq Drawn'
      /\ nextId..(nextId + n - 1) \subseteq Drawn' \ Drawn
  BY <1>2, <1>4 DEF Drawn
<1> DEFINE new == nextId..(nextId + n - 1)
<1>6. /\ DOMAIN w.lines \subseteq new /\ DOMAIN w.invoices \subseteq new
      /\ new \subseteq Drawn' \ Drawn
  BY <1>1, <1>5 DEF SoundRequest
<1> HIDE DEF new
<1>7. DOMAIN lines \subseteq Drawn /\ DOMAIN invoices \subseteq Drawn
  BY DEF BooksInvariant
<1>8. SoundBooks(w)'
  <2>1. /\ DOMAIN w.lines \subseteq Drawn' \ DOMAIN lines'
        /\ DOMAIN w.invoices \subseteq Drawn' \ DOMAIN invoices'
    BY <1>2, <1>6, <1>7
  <2>2. VoidsWhole(w.voids)'
    BY <1>1, <1>2 DEF SoundRequest, VoidsWhole
  <2>3. NewLines(w.lines) /\ \A i, j \in DOMAIN w.invoices : i = j
    BY <1>1 DEF SoundRequest
  <2>4. Cardinality(DOMAIN invoices) \in Nat
    BY <1>4, <1>7, DrawnFinite
  <2>5. \A i \in DOMAIN w.invoices :
          w.invoices[i].number \in 1..(Cardinality(DOMAIN invoices') + 1)
    BY <1>1, <1>2, <2>4 DEF SoundRequest
  <2> QED BY <2>1, <2>2, <2>3, <2>5 DEF SoundBooks
<1>9. \A o \in Session : o # s /\ tx[o] # None => SoundBooks(tx[o])'
  <2> SUFFICES ASSUME NEW o \in Session, o # s, tx[o] # None PROVE SoundBooks(tx[o])'
    OBVIOUS
  <2>1. tx'[o] = tx[o] /\ SoundBooks(tx[o])
    BY <1>3 DEF BooksInvariant
  <2>2. VoidsWhole(tx[o].voids) => VoidsWhole(tx[o].voids)'
    BY <1>2, <2>1 DEF VoidsWhole
  <2> QED BY <1>2, <1>5, <2>1, <2>2 DEF SoundBooks
<1>10. \A o \in Session : tx'[o] # None => SoundBooks(tx[o])'
  BY <1>3, <1>8, <1>9
<1>11. ASSUME NEW o \in Session, NEW p \in Session, o # p, tx'[o] # None, tx'[p] # None
       PROVE  /\ DOMAIN tx'[o].lines \cap DOMAIN tx'[p].lines = {}
              /\ DOMAIN tx'[o].invoices \cap DOMAIN tx'[p].invoices = {}
  <2>1. \A q \in Session : q # s /\ tx[q] # None =>
          DOMAIN tx[q].lines \subseteq Drawn /\ DOMAIN tx[q].invoices \subseteq Drawn
    BY DEF BooksInvariant, SoundBooks
  <2>2. CASE o = s
    BY <1>3, <1>6, <1>11, <2>1, <2>2
  <2>3. CASE p = s
    BY <1>3, <1>6, <1>11, <2>1, <2>3
  <2>4. CASE o # s /\ p # s
    BY <1>3, <1>11, <2>4 DEF BooksInvariant
  <2> QED BY <2>2, <2>3, <2>4
<1>12. /\ (rules \in RuleSets)'
       /\ (DOMAIN lines \subseteq Drawn)' /\ (DOMAIN invoices \subseteq Drawn)'
  BY <1>2, <1>5, <1>7 DEF BooksInvariant
<1>13. (\A i \in DOMAIN lines : DOMAIN lines[i] = LineFields /\ lines[i].amount \in Int)' /\ WholeFamilies(lines)'
  BY <1>2 DEF BooksInvariant, WholeFamilies
<1>14. NoOrphanTax' /\ InvoiceNumbersConsecutive'
  BY <1>2 DEF BooksInvariant, NoOrphanTax, InvoiceNumbersConsecutive
<1> QED BY <1>3, <1>4, <1>10, <1>11, <1>12, <1>13, <1>14 DEF BooksInvariant

(* The lines after a commit: the old and the new ones, some of the old     *)
(* ones void.                                                              *)
LEMMA CommitLines ==
  ASSUME BooksInvariant, NEW s \in Session, Commit(s)
  PROVE  LET w == tx[s] IN
         /\ DOMAIN lines' = DOMAIN lines \cup DOMAIN w.lines
         /\ \A i \in DOMAIN lines' :
              LET v == IF i \in DOMAIN w.lines THEN w.lines[i] ELSE lines[i] IN
              /\ DOMAIN lines'[i] = LineFields
              /\ lines'[i].folio = v.folio /\ lines'[i].kind = v.kind
              /\ lines'[i].amount = v.amount /\ lines'[i].source = v.source
              /\ lines'[i].parent = v.parent
              /\ (lines'[i].void <=> (i \in w.voids \/ v.void))
<1> DEFINE w == tx[s]
           all == Overlay(lines, w.lines)
<1>1. /\ SoundBooks(w)
      /\ lines' = [i \in DOMAIN all |->
                     IF i \in w.voids THEN [all[i] EXCEPT !.void = TRUE] ELSE all[i]]
  BY DEF Commit, BooksInvariant
<1>2. /\ DOMAIN all = DOMAIN lines \cup DOMAIN w.lines
      /\ \A i \in DOMAIN all : all[i] = IF i \in DOMAIN w.lines THEN w.lines[i] ELSE lines[i]
  BY DEF Overlay
<1> HIDE DEF w, all
<1>3. \A i \in DOMAIN all : DOMAIN all[i] = LineFields
  BY <1>1, <1>2 DEF SoundBooks, NewLines, BooksInvariant
<1>4. DOMAIN lines' = DOMAIN lines \cup DOMAIN w.lines
  BY <1>1, <1>2
<1>5. ASSUME NEW i \in DOMAIN lines'
      PROVE  /\ DOMAIN lines'[i] = LineFields
             /\ lines'[i].folio = all[i].folio /\ lines'[i].kind = all[i].kind
             /\ lines'[i].amount = all[i].amount /\ lines'[i].source = all[i].source
             /\ lines'[i].parent = all[i].parent
             /\ (lines'[i].void <=> (i \in w.voids \/ all[i].void))
  <2>1. i \in DOMAIN all /\ DOMAIN all[i] = LineFields
    BY <1>2, <1>3, <1>4
  <2>2. {"void", "folio", "kind", "amount", "source", "parent"} \subseteq LineFields
    BY DEF LineFields
  <2>3. CASE i \in w.voids
    <3>1. lines'[i] = [all[i] EXCEPT !.void = TRUE]
      BY <1>1, <2>1, <2>3
    <3> QED BY <2>1, <2>2, <2>3, <3>1
  <2>4. CASE i \notin w.voids
    <3>1. lines'[i] = all[i]
      BY <1>1, <2>1, <2>4
    <3> QED BY <2>1, <2>4, <3>1
  <2> QED BY <2>3, <2>4
<1>6. ASSUME NEW i \in DOMAIN lines'
      PROVE  all[i] = IF i \in DOMAIN w.lines THEN w.lines[i] ELSE lines[i]
  BY <1>2, <1>4
<1> QED BY <1>4, <1>5, <1>6 DEF w

LEMMA CommitKeepsBooks ==
  ASSUME BooksInvariant, NEW s \in Session, Commit(s)
  PROVE  BooksInvariant'
<1> DEFINE w == tx[s]
           c == Cardinality(DOMAIN invoices)
<1>1. /\ w # None /\ SoundBooks(w)
      /\ tx' = [tx EXCEPT ![s] = None]
      /\ \A i \in DOMAIN w.invoices, j \in DOMAIN invoices :
           invoices[j].number # w.invoices[i].number
      /\ invoices' = Overlay(invoices, w.invoices)
      /\ rules' = rules /\ nextId' = nextId
  BY DEF Commit, Clashes, BooksInvariant
<1>2. /\ DOMAIN lines' = DOMAIN lines \cup DOMAIN w.lines
      /\ \A i \in DOMAIN lines' :
           LET v == IF i \in DOMAIN w.lines THEN w.lines[i] ELSE lines[i] IN
           /\ DOMAIN lines'[i] = LineFields
           /\ lines'[i].amount = v.amount /\ lines'[i].parent = v.parent
           /\ (lines'[i].void <=> (i \in w.voids \/ v.void))
  BY CommitLines
<1>3. /\ DOMAIN invoices' = DOMAIN invoices \cup DOMAIN w.invoices
      /\ \A i \in DOMAIN invoices' :
           invoices'[i] = IF i \in DOMAIN w.invoices THEN w.invoices[i] ELSE invoices[i]
  BY <1>1 DEF Overlay
<1>4. \A o \in Session : o # s /\ tx[o] # None =>
        /\ DOMAIN tx[o].lines \cap DOMAIN w.lines = {}
        /\ DOMAIN tx[o].invoices \cap DOMAIN w.invoices = {}
  BY <1>1 DEF BooksInvariant
<1> HIDE DEF w
<1>5. /\ nextId \in Nat /\ Drawn' = Drawn
      /\ DOMAIN lines \subseteq Drawn /\ DOMAIN invoices \subseteq Drawn
  BY <1>1 DEF BooksInvariant, Drawn
<1>6. /\ DOMAIN w.lines \subseteq Drawn \ DOMAIN lines
      /\ DOMAIN w.invoices \subseteq Drawn \ DOMAIN invoices
      /\ NewLines(w.lines) /\ VoidsWhole(w.voids)
  BY <1>1 DEF SoundBooks
<1>7. /\ tx' = [o \in Session |-> tx'[o]]
      /\ \A o \in Session : tx'[o] = IF o = s THEN None ELSE tx[o]
  BY <1>1 DEF BooksInvariant
<1>8. c \in Nat /\ IsFiniteSet(DOMAIN invoices)
  BY <1>5, DrawnFinite
<1>9. /\ {invoices'[i].number : i \in DOMAIN invoices'} = 1..Cardinality(DOMAIN invoices')
      /\ c <= Cardinality(DOMAIN invoices') /\ Cardinality(DOMAIN invoices') \in Nat
  <2>1. {invoices[i].number : i \in DOMAIN invoices} = 1..c
    BY DEF BooksInvariant, InvoiceNumbersConsecutive
  <2>2. CASE DOMAIN w.invoices = {}
    <3>1. DOMAIN invoices' = DOMAIN invoices
      BY <1>3, <2>2
    <3>2. \A i \in DOMAIN invoices : invoices'[i] = invoices[i]
      BY <1>3, <2>2
    <3> QED BY <1>8, <2>1, <3>1, <3>2
  <2>3. CASE DOMAIN w.invoices # {}
    <3>1. PICK i : DOMAIN w.invoices = {i}
      BY <1>1, <2>3 DEF SoundBooks
    <3>2. DOMAIN invoices' = DOMAIN invoices \cup {i} /\ i \notin DOMAIN invoices
      BY <1>3, <1>6, <3>1
    <3>3. Cardinality(DOMAIN invoices') = c + 1
      BY <1>8, <3>2, FS_AddElement
    <3>4. /\ invoices'[i] = w.invoices[i]
          /\ \A j \in DOMAIN invoices : invoices'[j] = invoices[j]
      BY <1>3, <3>1, <3>2
    <3>5. w.invoices[i].number \in 1..(c + 1)
      BY <1>1, <3>1 DEF SoundBooks
    <3>6. w.invoices[i].number \notin 1..c
      BY <1>1, <2>1, <3>1
    <3>7. w.invoices[i].number = c + 1
      BY <1>8, <3>5, <3>6
    <3>8. {invoices'[j].number : j \in DOMAIN invoices'}
            = {invoices[j].number : j \in DOMAIN invoices} \cup {c + 1}
      BY <3>2, <3>4, <3>7
    <3>9. 1..c \cup {c + 1} = 1..(c + 1)
      BY <1>8
    <3> QED BY <1>8, <2>1, <3>3, <3>8, <3>9
  <2> QED BY <2>2, <2>3
<1> HIDE DEF c
<1>10. WholeFamilies(lines)'
  <2> SUFFICES ASSUME NEW i \in DOMAIN lines', lines'[i].parent # None
               PROVE  /\ lines'[i].parent \in DOMAIN lines'
                      /\ lines'[lines'[i].parent].parent = None
    BY DEF WholeFamilies
  <2>1. CASE i \in DOMAIN w.lines
    BY <1>2, <1>6, <2>1 DEF NewLines, WholeFamilies
  <2>2. CASE i \notin DOMAIN w.lines
    BY <1>2, <1>6, <2>2 DEF BooksInvariant, WholeFamilies
  <2> QED BY <2>1, <2>2
<1>11. NoOrphanTax'
  <2> SUFFICES ASSUME NEW i \in DOMAIN lines', lines'[i].parent # None,
                      lines'[lines'[i].parent].void
               PROVE  lines'[i].void
    BY <1>10 DEF NoOrphanTax, WholeFamilies
  <2> DEFINE p == lines'[i].parent
  <2>1. CASE i \in DOMAIN w.lines
    <3>1. p \in DOMAIN w.lines /\ ~w.lines[p].void
      BY <1>2, <1>6, <2>1 DEF NewLines, WholeFamilies
    <3>2. p \in DOMAIN lines' /\ p \notin w.voids
      BY <1>2, <1>6, <3>1 DEF VoidsWhole
    <3> QED BY <1>2, <3>1, <3>2
  <2>2. CASE i \notin DOMAIN w.lines
    <3>1. i \in DOMAIN lines /\ p = lines[i].parent
      BY <1>2, <2>2
    <3>2. p \in DOMAIN lines /\ (lines[p].void => lines[i].void)
      BY <3>1 DEF BooksInvariant, NoOrphanTax
    <3>3. p \in DOMAIN lines' /\ p \notin DOMAIN w.lines
      BY <1>2, <1>6, <3>2
    <3>4. p \in w.voids \/ lines[p].void
      BY <1>2, <3>3
    <3>5. p \in w.voids => i \in w.voids
      BY <1>6, <3>1 DEF VoidsWhole
    <3> QED BY <1>2, <2>2, <3>2, <3>4, <3>5
  <2> QED BY <2>1, <2>2
<1>12. ASSUME NEW o \in Session, tx'[o] # None
       PROVE  SoundBooks(tx[o])'
  <2>1. o # s /\ tx'[o] = tx[o] /\ SoundBooks(tx[o])
    BY <1>7, <1>12 DEF BooksInvariant
  <2>2. /\ DOMAIN tx[o].lines \cap DOMAIN w.lines = {}
        /\ DOMAIN tx[o].invoices \cap DOMAIN w.invoices = {}
    BY <1>4, <1>7, <1>12, <2>1
  <2>3. /\ DOMAIN tx'[o].lines \subseteq Drawn' \ DOMAIN lines'
        /\ DOMAIN tx'[o].invoices \subseteq Drawn' \ DOMAIN invoices'
    BY <1>2, <1>3, <1>5, <2>1, <2>2 DEF SoundBooks
  <2>4. VoidsWhole(tx[o].voids)'
    <3>1. tx[o].voids \subseteq DOMAIN lines /\ tx'[o].voids = tx[o].voids
      BY <2>1 DEF SoundBooks, VoidsWhole
    <3>2. ASSUME NEW j \in DOMAIN lines', lines'[j].parent \in tx[o].voids
          PROVE  j \in tx[o].voids
      <4>1. lines'[j].parent \in DOMAIN lines
        BY <3>1, <3>2
      <4>2. lines'[j].parent # None /\ lines'[j].parent \notin DOMAIN w.lines
        BY <1>5, <1>6, <4>1, NoneAssumption DEF Drawn
      <4>3. j \notin DOMAIN w.lines
        BY <1>2, <1>6, <4>2 DEF NewLines, WholeFamilies
      <4>4. j \in DOMAIN lines /\ lines[j].parent = lines'[j].parent
        BY <1>2, <4>3
      <4> QED BY <2>1, <3>2, <4>4 DEF SoundBooks, VoidsWhole
    <3> QED BY <1>2, <3>1, <3>2 DEF VoidsWhole
  <2>5. \A i \in DOMAIN tx'[o].invoices :
          tx'[o].invoices[i].number \in 1..(Cardinality(DOMAIN invoices') + 1)
    <3>1. \A i \in DOMAIN tx'[o].invoices : tx'[o].invoices[i].number \in 1..(c + 1)
      BY <2>1 DEF SoundBooks, c
    <3> QED BY <1>8, <1>9, <3>1
  <2>6. NewLines(tx'[o].lines) /\ \A i, j \in DOMAIN tx'[o].invoices : i = j
    BY <2>1 DEF SoundBooks
  <2> QED BY <2>3, <2>4, <2>5, <2>6 DEF SoundBooks
<1>13. \A o, p \in Session :
         o # p /\ tx'[o] # None /\ tx'[p] # None =>
           /\ DOMAIN tx'[o].lines \cap DOMAIN tx'[p].lines = {}
           /\ DOMAIN tx'[o].invoices \cap DOMAIN tx'[p].invoices = {}
  BY <1>7 DEF BooksInvariant
<1>14. nextId' \in Nat /\ rules' \in RuleSets
  BY <1>1 DEF BooksInvariant
<1>15. DOMAIN lines' \subseteq Drawn' /\ DOMAIN invoices' \subseteq Drawn'
  BY <1>2, <1>3, <1>5, <1>6
<1>16. InvoiceNumbersConsecutive'
  BY <1>9 DEF InvoiceNumbersConsecutive
<1>17. \A i \in DOMAIN lines' : lines'[i].amount \in Int
  BY <1>2, <1>6 DEF NewLines, BooksInvariant
<1> QED
  BY <1>2, <1>7, <1>10, <1>11, <1>12, <1>13, <1>14, <1>15, <1>16, <1>17 DEF BooksInvariant

LEMMA OthersKeepBooks ==
  ASSUME BooksInvariant,
         \/ UNCHANGED vars
         \/ \E s \in Session : Fail(s)
         \/ \E r \in RuleSets : ChangeRules(r)
  PROVE  BooksInvariant'
<1>1. lines' = lines /\ invoices' = invoices /\ nextId' = nextId /\ rules' \in RuleSets
  BY DEF vars, rows, Fail, ChangeRules, BooksInvariant
<1>2. \/ tx' = tx
      \/ \E s \in Session : tx' = [tx EXCEPT ![s] = None]
  BY DEF vars, Fail, ChangeRules
<1>3. /\ tx' = [o \in Session |-> tx'[o]]
      /\ \A o \in Session : tx'[o] = None \/ tx'[o] = tx[o]
  BY <1>2 DEF BooksInvariant
<1>4. Drawn' = Drawn
  BY <1>1 DEF Drawn
<1>5. ASSUME NEW o \in Session, tx'[o] # None
      PROVE  SoundBooks(tx[o])'
  <2>1. tx'[o] = tx[o] /\ SoundBooks(tx[o])
    BY <1>3, <1>5 DEF BooksInvariant
  <2>2. VoidsWhole(tx[o].voids)'
    BY <1>1, <2>1 DEF SoundBooks, VoidsWhole
  <2> QED BY <1>1, <1>4, <2>1, <2>2 DEF SoundBooks
<1>6. \A o, p \in Session :
        o # p /\ tx'[o] # None /\ tx'[p] # None =>
          /\ DOMAIN tx'[o].lines \cap DOMAIN tx'[p].lines = {}
          /\ DOMAIN tx'[o].invoices \cap DOMAIN tx'[p].invoices = {}
  BY <1>3 DEF BooksInvariant
<1>7. NoOrphanTax' /\ InvoiceNumbersConsecutive' /\ WholeFamilies(lines)'
  BY <1>1 DEF BooksInvariant, NoOrphanTax, InvoiceNumbersConsecutive, WholeFamilies
<1> QED
  BY <1>1, <1>3, <1>4, <1>5, <1>6, <1>7 DEF BooksInvariant

LEMMA NextKeepsBooks == BooksInvariant /\ [Next]_vars => BooksInvariant'
<1> SUFFICES ASSUME BooksInvariant, [Next]_vars PROVE BooksInvariant'
  OBVIOUS
<1>1. CASE \E s \in Session : Bill(s) \/ Operate(s)
  BY <1>1, BillBooks, OperateBooks, RequestKeepsBooks
<1>2. CASE \E s \in Session : Commit(s)
  BY <1>2, CommitKeepsBooks
<1> QED
  BY <1>1, <1>2, OthersKeepBooks DEF Next

LEMMA InitBooks == Init => BooksInvariant
<1> SUFFICES ASSUME Init PROVE BooksInvariant
  OBVIOUS
<1>1. /\ DOMAIN lines = {} /\ DOMAIN invoices = {} /\ nextId = 1 /\ rules \in RuleSets
      /\ tx = [s \in Session |-> None]
  BY NoDomain DEF Init
<1>2. {invoices[i].number : i \in DOMAIN invoices} = 1..Cardinality(DOMAIN invoices)
  <2>1. Cardinality(DOMAIN invoices) = 0
    BY <1>1, FS_EmptySet
  <2> QED BY <1>1, <2>1
<1> QED
  BY <1>1, <1>2 DEF BooksInvariant, WholeFamilies, NoOrphanTax, InvoiceNumbersConsecutive

(* However many requests overlap, and whatever the tax rules were when a   *)
(* charge was posted: a tax line has its charge, and is void when its      *)
(* charge is (billing/service post_charge, void_line).                     *)
THEOREM TaxFollowsCharge == Spec => []NoOrphanTax
<1>1. BooksInvariant => NoOrphanTax
  BY DEF BooksInvariant
<1> QED BY <1>1, InitBooks, NextKeepsBooks, PTL DEF Spec

(* The numbers of the invoices are 1, 2, 3, ... at all times, though every *)
(* request counts without a lock and may count too few (billing/service    *)
(* generate_invoice, billing/models Invoice.number).                       *)
THEOREM InvoicesNumbered == Spec => []InvoiceNumbersConsecutive
<1>1. BooksInvariant => InvoiceNumbersConsecutive
  BY DEF BooksInvariant
<1> QED BY <1>1, InitBooks, NextKeepsBooks, PTL DEF Spec

--------------------------------------------------------------------------------
(* One request at a time: what a request read is still so when it commits. *)

OneAtATime == \A s, o \in Session : s = o

(* The balance of a folio depends on its active lines and their amounts,   *)
(* and on nothing else.                                                    *)
AmountsOf(S) == [i \in S |-> lines[i].amount]
Amounts(f) == AmountsOf(Active(f))

SumAmounts(S) == MapThenSumSet(AmountOf, S)

LEMMA AmountsTotal == \A S : SumAmounts(S) = Total(AmountsOf(S))
<1> SUFFICES ASSUME NEW S PROVE SumAmounts(S) = Total(AmountsOf(S))
  OBVIOUS
<1> DEFINE A == AmountsOf(S)
           Here(sum) == [s \in SUBSET S |->
                           IF s = {} THEN 0 ELSE AmountOf(Pick(s)) + sum[s \ {Pick(s)}]]
           There(sum) == [s \in SUBSET S |->
                            IF s = {} THEN 0 ELSE A[Pick(s)] + sum[s \ {Pick(s)}]]
<1>1. SumAmounts(S) = (CHOOSE sum : sum = Here(sum))[S]
  BY DEF SumAmounts, MapThenSumSet, MapThenFoldSet, Pick
<1>2. DOMAIN A = S
  BY DEF AmountsOf
<1>3. Total(A) = (CHOOSE sum : sum = There(sum))[S]
  <2> HIDE DEF A
  <2> QED BY <1>2 DEF Total, MapThenSumSet, MapThenFoldSet, Pick
<1>4. ASSUME NEW sum PROVE Here(sum) = There(sum)
  <2>1. ASSUME NEW s \in SUBSET S, s # {} PROVE AmountOf(Pick(s)) = A[Pick(s)]
    <3>1. Pick(s) \in S
      BY <2>1 DEF Pick
    <3> QED BY <3>1 DEF AmountOf, AmountsOf
  <2> HIDE DEF A
  <2> QED BY <2>1
<1> HIDE DEF Here, There
<1>5. (CHOOSE sum : sum = Here(sum)) = (CHOOSE sum : sum = There(sum))
  BY <1>4, Zenon
<1> QED BY <1>1, <1>3, <1>5

LEMMA BalanceIsTotal == \A f : Balance(f) = Total(Amounts(f))
<1>1. \A f : Balance(f) = SumAmounts(Active(f))
  BY DEF Balance, SumAmounts
<1> QED BY <1>1, AmountsTotal DEF Amounts

LEMMA NextBalanceIsTotal == (\A f : Balance(f) = Total(Amounts(f)))'
BY BalanceIsTotal, PTL

(* A step that leaves the active lines and their amounts alone leaves the  *)
(* balance.                                                                *)
LEMMA BalanceStays ==
  ASSUME NEW f, Amounts(f)' = Amounts(f)
  PROVE  Balance(f)' = Balance(f)
<1>1. Balance(f)' = Total(Amounts(f)')
  BY NextBalanceIsTotal
<1> QED BY <1>1, BalanceIsTotal

--------------------------------------------------------------------------------
(* What a request may do to folios and nights.                             *)

(* The line v is the charge for night n.                                   *)
Charges(v, n) == v.kind = "charge" /\ v.source = n

SameFolio(L) ==
  \A i \in DOMAIN L : L[i].parent # None =>
    L[i].parent \in DOMAIN L /\ L[L[i].parent].folio = L[i].folio

(* Lines come and go on open folios only, and a folio is closed with a     *)
(* zero balance, by a request that changes no line.                        *)
Settles(fo, op, li, vo) ==
  /\ \A i \in DOMAIN li :
       li[i].folio \in DOMAIN folios \ DOMAIN fo => folios[li[i].folio].open
  /\ \A i \in vo : folios[lines[i].folio].open
  /\ \A f \in DOMAIN fo : fo[f].open
  /\ \A f \in DOMAIN op : op[f] \/ (Balance(f) = 0 /\ DOMAIN li = {} /\ vo = {})

(* Each night flagged has one charge, each other night none.               *)
ChargesOnce(L, P) ==
  /\ \A n \in Night : n \in P <=> \E i \in DOMAIN L : Charges(L[i], n)
  /\ \A n \in Night : \A i, j \in DOMAIN L : Charges(L[i], n) /\ Charges(L[j], n) => i = j

Careful(fo, op, li, vo, po) ==
  /\ Settles(fo, op, li, vo)
  /\ SameFolio(li)
  /\ ChargesOnce(li, po)
  /\ po \cap posted = {}

Considered(s) ==
  \E w, n : Request(s, w, n) /\ Careful(w.folios, w.open, w.lines, w.voids, w.posted)

LEMMA AsksConsidered ==
  ASSUME NEW s, NEW n, NEW st, NEW cb, NEW fo, NEW op, NEW li, NEW vo, NEW po, NEW inv,
         Asks(s, n, st, cb, fo, op, li, vo, po, inv), Careful(fo, op, li, vo, po)
  PROVE  Considered(s)
BY DEF Asks, Considered

LEMMA NothingCareful == Careful(Empty, Empty, Empty, {}, {})
BY NoDomain DEF Careful, Settles, SameFolio, ChargesOnce

(* The charge is the first line, and all are on its folio.                 *)
LEMMA ChargeFields ==
  ASSUME rules \in RuleSets, NEW first \in Nat, NEW f, NEW a \in Int, NEW q \in Int,
         NEW c, NEW source
  PROVE  LET L == ChargeLines(f, a, q, c, source, first) IN
         /\ first \in DOMAIN L
         /\ \A i \in DOMAIN L :
              /\ L[i].folio = f
              /\ L[i].parent = IF i = first THEN None ELSE first
              /\ L[i].kind = IF i = first THEN "charge" ELSE "tax"
         /\ L[first].source = source
         /\ SameFolio(L)
<1> DEFINE t == TaxesOf(rules, a * q, q, c)
           n == Len(t.added)
           L == ChargeLines(f, a, q, c, source, first)
<1>1. n \in Nat
  <2>1. rules \in Seq(Rule) /\ a * q \in Int
    BY RulesAssumption
  <2>2. t.added \in Seq(Int)
    BY <2>1, TaxLines
  <2> HIDE DEF t
  <2> QED BY <2>2
<1>2. /\ DOMAIN L = first..(first + n)
      /\ \A i \in DOMAIN L :
           L[i] = IF i = first THEN Line(f, "charge", a * q, t.component, None, source)
                  ELSE Line(f, "tax", t.added[i - first], 0, first, source)
  BY DEF ChargeLines
<1> HIDE DEF t, n, L
<1>3. first \in DOMAIN L
  BY <1>1, <1>2
<1>4. \A i \in DOMAIN L :
        /\ L[i].folio = f /\ L[i].source = source
        /\ L[i].parent = IF i = first THEN None ELSE first
        /\ L[i].kind = IF i = first THEN "charge" ELSE "tax"
  BY <1>2 DEF Line
<1>5. SameFolio(L)
  BY <1>3, <1>4 DEF SameFolio
<1> QED BY <1>3, <1>4, <1>5 DEF L

(* The lines of an audit: every one on the folio of its night, and one     *)
(* charge for each night.                                                  *)
Audited(L, ns, k) ==
  /\ SameFolio(L)
  /\ \A i \in DOMAIN L : \E j \in 1..k : L[i].folio = FolioOf(NightRow[ns[j]].res)
  /\ \A i \in DOMAIN L : L[i].kind = "charge" => \E j \in 1..k : L[i].source = ns[j]
  /\ \A j \in 1..k : \E i \in DOMAIN L : Charges(L[i], ns[j])
  /\ \A i, h \in DOMAIN L :
       L[i].kind = "charge" /\ L[h].kind = "charge" /\ L[i].source = L[h].source => i = h

LEMMA AuditedOnce ==
  ASSUME rules \in RuleSets, nextId \in Nat, NEW ns, Len(ns) \in Nat,
         \A k \in 1..Len(ns) : ns[k] \in Night,
         \A i, j \in 1..Len(ns) : ns[i] = ns[j] => i = j
  PROVE  Audited(NightCharges(ns), ns, Len(ns))
<1> DEFINE n == Len(ns)
           NightLines(k, first) ==
             ChargeLines(FolioOf(NightRow[ns[k]].res), NightRow[ns[k]].amount, 1, "room", ns[k],
                         first)
           Ok(L, k) == (\E m : Batch(L, nextId, m)) /\ Audited(L, ns, k)
<1>1. n \in Nat /\ \A i, j \in 1..n : ns[i] = ns[j] => i = j
  OBVIOUS
<1>2. PICK g : ChargedBy(g, ns, n) /\ NightCharges(ns) = g[n]
  BY ChargesFollow
<1>3. \A k \in 0..n : g[k] = IF k = 0 THEN Empty
                             ELSE Overlay(g[k - 1],
                                          NightLines(k, nextId + Cardinality(DOMAIN g[k - 1])))
  BY <1>2 DEF ChargedBy
<1>4. \A k \in 1..n, first \in Nat :
        /\ \E m : Batch(NightLines(k, first), first, m)
        /\ first \in DOMAIN NightLines(k, first)
        /\ \A i \in DOMAIN NightLines(k, first) :
             /\ NightLines(k, first)[i].folio = FolioOf(NightRow[ns[k]].res)
             /\ NightLines(k, first)[i].kind = IF i = first THEN "charge" ELSE "tax"
        /\ NightLines(k, first)[first].source = ns[k]
        /\ SameFolio(NightLines(k, first))
  <2>1. \A k \in 1..n : NightRow[ns[k]].amount \in Int
    BY NightsAssumption
  <2>2. \A k \in 1..n, first \in Nat : \E m : Batch(NightLines(k, first), first, m)
    BY <2>1, ChargeBatch
  <2>3. ASSUME NEW k \in 1..n, NEW first \in Nat
        PROVE  /\ first \in DOMAIN NightLines(k, first)
               /\ \A i \in DOMAIN NightLines(k, first) :
                    /\ NightLines(k, first)[i].folio = FolioOf(NightRow[ns[k]].res)
                    /\ NightLines(k, first)[i].kind = IF i = first THEN "charge" ELSE "tax"
               /\ NightLines(k, first)[first].source = ns[k]
               /\ SameFolio(NightLines(k, first))
    <3> DEFINE f == FolioOf(NightRow[ns[k]].res)
               a == NightRow[ns[k]].amount
               L == ChargeLines(f, a, 1, "room", ns[k], first)
    <3>1. a \in Int /\ 1 \in Int
      BY <2>1
    <3> HIDE DEF f, a
    <3>2. /\ first \in DOMAIN L /\ L[first].source = ns[k] /\ SameFolio(L)
          /\ \A i \in DOMAIN L :
               L[i].folio = f /\ L[i].kind = IF i = first THEN "charge" ELSE "tax"
      BY <3>1, ChargeFields
    <3>3. NightLines(k, first) = L
      BY DEF f, a
    <3> HIDE DEF L
    <3> QED BY <3>2, <3>3 DEF f
  <2> HIDE DEF NightLines
  <2> QED BY <2>2, <2>3
<1> HIDE DEF n, NightLines
<1>5. ASSUME NEW k \in 1..n, NEW L, Ok(L, k - 1)
      PROVE  Ok(Overlay(L, NightLines(k, nextId + Cardinality(DOMAIN L))), k)
  <2>1. PICK m : Batch(L, nextId, m)
    BY <1>5
  <2>2. Cardinality(DOMAIN L) = m
    BY <2>1, BatchSize
  <2>3. nextId + m \in Nat /\ m \in Nat
    BY <2>1 DEF Batch
  <2> DEFINE first == nextId + m
             K == NightLines(k, first)
             O == Overlay(L, K)
  <2>4. PICK p : Batch(K, first, p)
    BY <1>4, <2>3
  <2>5. Batch(O, nextId, m + p)
    BY <2>1, <2>4, BatchAfter
  <2>6. /\ first \in DOMAIN K
        /\ \A i \in DOMAIN K :
             /\ K[i].folio = FolioOf(NightRow[ns[k]].res)
             /\ K[i].kind = IF i = first THEN "charge" ELSE "tax"
        /\ K[first].source = ns[k]
        /\ SameFolio(K)
    BY <1>4, <2>3
  <2>7. DOMAIN L = nextId..(first - 1) /\ DOMAIN K = first..(first + p - 1) /\ p \in Nat
    BY <2>1, <2>4 DEF Batch
  <2>8. DOMAIN L \cap DOMAIN K = {}
    BY <2>3, <2>7
  <2>9. /\ DOMAIN O = DOMAIN L \cup DOMAIN K
        /\ \A i \in DOMAIN L : O[i] = L[i]
        /\ \A i \in DOMAIN K : O[i] = K[i]
    BY <2>8 DEF Overlay
  <2>10. Audited(L, ns, k - 1) /\ k \in Nat /\ 1..k = 1..(k - 1) \cup {k}
    BY <1>1, <1>5
  <2> HIDE DEF first, K, O
  <2>11. SameFolio(O)
    <3>1. ASSUME NEW i \in DOMAIN O, O[i].parent # None
          PROVE  O[i].parent \in DOMAIN O /\ O[O[i].parent].folio = O[i].folio
      <4>1. CASE i \in DOMAIN L
        <5>1. SameFolio(L) /\ O[i] = L[i]
          BY <2>9, <2>10, <4>1 DEF Audited
        <5>2. L[i].parent \in DOMAIN L /\ L[L[i].parent].folio = L[i].folio
          BY <3>1, <4>1, <5>1 DEF SameFolio
        <5> QED BY <2>9, <5>1, <5>2
      <4>2. CASE i \in DOMAIN K
        <5>1. SameFolio(K) /\ O[i] = K[i]
          BY <2>6, <2>9, <4>2
        <5>2. K[i].parent \in DOMAIN K /\ K[K[i].parent].folio = K[i].folio
          BY <3>1, <4>2, <5>1 DEF SameFolio
        <5> QED BY <2>9, <5>1, <5>2
      <4> QED BY <2>9, <4>1, <4>2
    <3> QED BY <3>1 DEF SameFolio
  <2>12. ASSUME NEW i \in DOMAIN O
         PROVE  \E j \in 1..k : O[i].folio = FolioOf(NightRow[ns[j]].res)
    <3>1. CASE i \in DOMAIN L
      <4>1. PICK j \in 1..(k - 1) : L[i].folio = FolioOf(NightRow[ns[j]].res)
        BY <2>10, <3>1 DEF Audited
      <4>2. j \in 1..k
        BY <2>10
      <4> QED BY <2>9, <3>1, <4>1, <4>2
    <3>2. CASE i \in DOMAIN K
      BY <2>6, <2>9, <2>10, <3>2
    <3> QED BY <2>9, <3>1, <3>2
  <2>13. ASSUME NEW i \in DOMAIN O, O[i].kind = "charge"
         PROVE  \E j \in 1..k : O[i].source = ns[j]
    <3>1. CASE i \in DOMAIN L
      <4>1. PICK j \in 1..(k - 1) : L[i].source = ns[j]
        BY <2>9, <2>10, <2>13, <3>1 DEF Audited
      <4> QED BY <2>9, <2>10, <3>1, <4>1
    <3>2. CASE i \in DOMAIN K
      BY <2>6, <2>9, <2>10, <2>13, <3>2
    <3> QED BY <2>9, <3>1, <3>2
  <2>14. ASSUME NEW j \in 1..k
         PROVE  \E i \in DOMAIN O : Charges(O[i], ns[j])
    <3>1. CASE j \in 1..(k - 1)
      <4>1. PICK i \in DOMAIN L : Charges(L[i], ns[j])
        BY <2>10, <3>1 DEF Audited
      <4> QED BY <2>9, <4>1
    <3>2. CASE j = k
      BY <2>6, <2>9, <3>2 DEF Charges
    <3> QED BY <2>10, <3>1, <3>2
  <2>15. ASSUME NEW i \in DOMAIN O, NEW h \in DOMAIN O,
                O[i].kind = "charge", O[h].kind = "charge", O[i].source = O[h].source
         PROVE  i = h
    <3>1. \A j \in 1..(k - 1) : ns[j] # ns[k]
      BY <1>1, <1>5
    <3>2. \A x \in DOMAIN L : L[x].kind = "charge" => L[x].source # ns[k]
      BY <2>10, <3>1 DEF Audited
    <3>3. CASE i \in DOMAIN K
      BY <2>6, <2>9, <2>15, <3>2, <3>3
    <3>4. CASE h \in DOMAIN K
      BY <2>6, <2>9, <2>15, <3>2, <3>4
    <3>5. CASE i \in DOMAIN L /\ h \in DOMAIN L
      BY <2>9, <2>10, <2>15, <3>5 DEF Audited
    <3> QED BY <2>9, <3>3, <3>4, <3>5
  <2>16. Audited(O, ns, k)
    BY <2>11, <2>12, <2>13, <2>14, <2>15 DEF Audited
  <2> QED BY <2>2, <2>5, <2>16 DEF O, K, first
<1> DEFINE Bad == {m \in 0..n : ~Ok(g[m], m)}
<1>6. Bad = {}
  <2> SUFFICES ASSUME Bad # {} PROVE FALSE
    OBVIOUS
  <2>1. PICK m \in Bad : \A k \in Bad : m <= k
    <3>1. Bad \in SUBSET Nat
      BY <1>1
    <3> HIDE DEF Bad
    <3> QED BY <3>1, NatLeast
  <2>2. m # 0
    <3>1. \E j : Batch(Empty, nextId, j)
      BY EmptyBatch
    <3>2. Audited(Empty, ns, 0)
      BY NoDomain DEF Audited, SameFolio
    <3>3. Ok(Empty, 0)
      BY <3>1, <3>2
    <3> HIDE DEF Ok
    <3> QED BY <1>1, <1>3, <2>1, <3>3
  <2>3. m \in 1..n /\ m - 1 \in 0..n /\ Ok(g[m - 1], m - 1)
    BY <1>1, <2>1, <2>2
  <2>4. Ok(g[m], m)
    <3> HIDE DEF Ok
    <3> QED BY <1>1, <1>3, <1>5, <2>2, <2>3
  <2> QED BY <2>1, <2>4
<1>7. n \in 0..n
  BY <1>1
<1>8. n \notin Bad
  <2> HIDE DEF Bad
  <2> QED BY <1>6
<1>9. Ok(g[n], n)
  <2> HIDE DEF Ok
  <2> QED BY <1>7, <1>8
<1> QED BY <1>2, <1>9 DEF n

--------------------------------------------------------------------------------
(* Each request is careful, by the rows it reads.                          *)

SettledInvariant ==
  /\ SameFolio(lines)
  /\ ClosedIsSettled
  /\ ChargesOnce(lines, posted)
  /\ \A s \in Session : tx[s] # None =>
       Careful(tx[s].folios, tx[s].open, tx[s].lines, tx[s].voids, tx[s].posted)

(* A charge on an open folio that is for no night.                         *)
LEMMA ChargeCareful ==
  ASSUME rules \in RuleSets, NEW first \in Nat, NEW fo, NEW f, NEW a \in Int, NEW q \in Int,
         NEW c, NEW source \in {None, "upgrade"},
         f \in DOMAIN folios \ DOMAIN fo => folios[f].open,
         \A g \in DOMAIN fo : fo[g].open
  PROVE  Careful(fo, Empty, ChargeLines(f, a, q, c, source, first), {}, {})
<1> DEFINE L == ChargeLines(f, a, q, c, source, first)
<1>1. /\ first \in DOMAIN L
      /\ \A i \in DOMAIN L :
           /\ L[i].folio = f
           /\ L[i].kind = IF i = first THEN "charge" ELSE "tax"
      /\ L[first].source = source
      /\ SameFolio(L)
  BY ChargeFields
<1> HIDE DEF L
<1>2. \A i \in DOMAIN L, n \in Night : ~Charges(L[i], n)
  BY <1>1, SourcesAssumption DEF Charges
<1>3. ChargesOnce(L, {})
  BY <1>2 DEF ChargesOnce
<1>4. Settles(fo, Empty, L, {})
  BY <1>1, NoDomain DEF Settles
<1>5. Careful(fo, Empty, L, {}, {})
  BY <1>1, <1>3, <1>4 DEF Careful
<1> QED BY <1>5 DEF L

LEMMA PaymentCareful ==
  ASSUME NEW f, folios[f].open, NEW a
  PROVE  Careful(Empty, Empty, One(nextId, Line(f, "payment", a, 0, None, None)), {}, {})
<1> DEFINE p == Line(f, "payment", a, 0, None, None)
           L == One(nextId, p)
<1>1. p.folio = f /\ p.kind = "payment" /\ p.parent = None
  BY DEF Line
<1> HIDE DEF p
<1>2. DOMAIN L = {nextId} /\ L[nextId] = p
  BY DEF One
<1> HIDE DEF L
<1>3. SameFolio(L) /\ ChargesOnce(L, {})
  BY <1>1, <1>2 DEF SameFolio, ChargesOnce, Charges
<1>4. Settles(Empty, Empty, L, {})
  BY <1>1, <1>2, NoDomain DEF Settles
<1>5. Careful(Empty, Empty, L, {}, {})
  BY <1>3, <1>4 DEF Careful
<1> QED BY <1>5 DEF L, p

(* A charge and its tax lines are on one folio.                            *)
LEMMA VoidCareful ==
  ASSUME BooksInvariant, SettledInvariant, NEW i \in DOMAIN lines, folios[lines[i].folio].open
  PROVE  Careful(Empty, Empty, Empty, WithChildren(i), {})
<1>1. i # None
  BY NoneAssumption DEF BooksInvariant, Drawn
<1>2. \A j \in WithChildren(i) : lines[j].folio = lines[i].folio
  BY <1>1 DEF WithChildren, Children, SettledInvariant, SameFolio
<1>3. Settles(Empty, Empty, Empty, WithChildren(i))
  BY <1>2, NoDomain DEF Settles
<1>4. SameFolio(Empty) /\ ChargesOnce(Empty, {})
  BY NoDomain DEF SameFolio, ChargesOnce
<1> QED BY <1>3, <1>4 DEF Careful

LEMMA OpensCareful ==
  ASSUME NEW x, NEW f
  PROVE  /\ Careful(One(f, NewFolio(x, f)), Empty, Empty, {}, {})
         /\ \A g \in DOMAIN One(f, NewFolio(x, f)) : One(f, NewFolio(x, f))[g].open
         /\ DOMAIN One(f, NewFolio(x, f)) = {f}
<1> DEFINE v == NewFolio(x, f)
           fo == One(f, v)
<1>1. v.open
  BY DEF NewFolio
<1> HIDE DEF v
<1>2. DOMAIN fo = {f} /\ fo[f] = v
  BY DEF One
<1> HIDE DEF fo
<1>3. \A g \in DOMAIN fo : fo[g].open
  BY <1>1, <1>2
<1>4. Careful(fo, Empty, Empty, {}, {})
  BY <1>3, NoDomain DEF Careful, Settles, SameFolio, ChargesOnce
<1> QED BY <1>2, <1>3, <1>4 DEF fo, v

LEMMA SwitchCareful ==
  ASSUME NEW f, NEW open \in BOOLEAN, open \/ Balance(f) = 0
  PROVE  Careful(Empty, One(f, open), Empty, {}, {})
<1> DEFINE op == One(f, open)
<1>1. DOMAIN op = {f} /\ op[f] = open
  BY DEF One
<1> HIDE DEF op
<1>2. Careful(Empty, op, Empty, {}, {})
  BY <1>1, NoDomain DEF Careful, Settles, SameFolio, ChargesOnce
<1> QED BY <1>2 DEF op

LEMMA BillConsidered ==
  ASSUME BooksInvariant, SettledInvariant, NEW s, Bill(s)
  PROVE  Considered(s)
<1>1. nextId \in Nat /\ rules \in RuleSets
  BY DEF BooksInvariant
<1>2. ASSUME NEW x, OpenFolio(s, x) PROVE Considered(s)
  BY <1>2, OpenFolioAsks, OpensCareful, AsksConsidered
<1>3. ASSUME NEW f, NEW a \in Amount, NEW q \in {1, 2}, NEW c, PostCharge(s, f, a, q, c)
      PROVE  Considered(s)
  <2> DEFINE li == ChargeLines(f, a, q, c, None, nextId)
  <2>1. Asks(s, Cardinality(DOMAIN li), Empty, Empty, Empty, Empty, li, {}, {}, Empty)
    BY <1>3, PostChargeAsks
  <2>2. folios[f].open
    BY <1>3 DEF PostCharge
  <2>3. Careful(Empty, Empty, li, {}, {})
    <3>1. a \in Int /\ q \in Int
      BY AmountsAssumption
    <3> QED BY <1>1, <2>2, <3>1, ChargeCareful, NoDomain
  <2> HIDE DEF li
  <2> QED BY <2>1, <2>3, AsksConsidered
<1>4. ASSUME NEW f, NEW a, PostPayment(s, f, a) PROVE Considered(s)
  <2> DEFINE li == One(nextId, Line(f, "payment", -a, 0, None, None))
  <2>1. Asks(s, 1, Empty, Empty, Empty, Empty, li, {}, {}, Empty)
    BY <1>4, PostPaymentAsks
  <2>2. folios[f].open
    BY <1>4 DEF PostPayment
  <2>3. Careful(Empty, Empty, li, {}, {})
    BY <2>2, PaymentCareful
  <2> HIDE DEF li
  <2> QED BY <2>1, <2>3, AsksConsidered
<1>5. ASSUME NEW f, CloseFolio(s, f) PROVE Considered(s)
  <2>1. Balance(f) = 0
    BY <1>5 DEF CloseFolio
  <2>2. Careful(Empty, One(f, FALSE), Empty, {}, {})
    BY <2>1, SwitchCareful
  <2> QED BY <1>5, <2>2, CloseFolioAsks, AsksConsidered
<1>6. ASSUME NEW f, GenerateInvoice(s, f) PROVE Considered(s)
  BY <1>6, GenerateInvoiceAsks, NothingCareful, AsksConsidered
<1>7. ASSUME NEW i \in DOMAIN lines, VoidLine(s, i) PROVE Considered(s)
  <2>1. folios[lines[i].folio].open
    BY <1>7 DEF VoidLine
  <2> QED BY <1>7, <2>1, VoidLineAsks, VoidCareful, AsksConsidered
<1> QED
  BY <1>2, <1>3, <1>4, <1>5, <1>6, <1>7 DEF Bill

LEMMA CheckInConsidered ==
  ASSUME BooksInvariant, NEW s, NEW x, NEW u \in UpgradeAmount, CheckIn(s, x, u)
  PROVE  Considered(s)
<1> DEFINE li == UpgradeLines(x, u)
           fo == IF HasFolio(x) THEN Empty ELSE One(nextId, NewFolio(x, nextId))
           n == (IF HasFolio(x) THEN 0 ELSE 1) + Cardinality(DOMAIN li)
<1>1. Asks(s, n, One(x, "in_house"), Empty, fo, Empty, li, {}, {}, Empty)
  BY CheckInAsks
<1>2. nextId \in Nat /\ rules \in RuleSets
  BY DEF BooksInvariant
<1>3. u \in Int /\ 1 \in Int
  BY AmountsAssumption
<1>4. Careful(fo, Empty, li, {}, {})
  <2>1. CASE u = 0
    <3>1. li = Empty
      BY <2>1 DEF UpgradeLines
    <3>2. Careful(fo, Empty, Empty, {}, {})
      BY NothingCareful, OpensCareful
    <3> HIDE DEF li, fo
    <3> QED BY <3>1, <3>2
  <2>2. CASE u # 0 /\ HasFolio(x)
    <3>1. /\ li = ChargeLines(FolioOf(x), u, 1, "upgrade", "upgrade", nextId + 0)
          /\ fo = Empty /\ folios[FolioOf(x)].open /\ nextId + 0 \in Nat
      BY <1>2, <2>2 DEF UpgradeLines, CheckIn
    <3> HIDE DEF li, fo
    <3> QED BY <1>2, <1>3, <3>1, ChargeCareful, NoDomain
  <2>3. CASE u # 0 /\ ~HasFolio(x)
    <3>1. /\ li = ChargeLines(nextId, u, 1, "upgrade", "upgrade", nextId + 1)
          /\ fo = One(nextId, NewFolio(x, nextId)) /\ nextId + 1 \in Nat
      BY <1>2, <2>3 DEF UpgradeLines
    <3>2. DOMAIN fo = {nextId} /\ \A g \in DOMAIN fo : fo[g].open
      BY <3>1, OpensCareful
    <3> HIDE DEF li, fo
    <3> QED BY <1>2, <1>3, <3>1, <3>2, ChargeCareful
  <2> QED BY <2>1, <2>2, <2>3
<1> HIDE DEF li, fo, n
<1> QED BY <1>1, <1>4, AsksConsidered

(* The nights charged are due, on open folios, and each has its charge.    *)
LEMMA NightAuditConsidered ==
  ASSUME BooksInvariant, NEW s, NEW d, NightAudit(s, d)
  PROVE  Considered(s)
<1> DEFINE po == DueNights(d)
           ns == SetToSeq(po)
           li == NightCharges(ns)
           st == [x \in Stale(d + 1) |-> "no_show"]
<1>1. Asks(s, Cardinality(DOMAIN li), st, Empty, Empty, Empty, li, {}, po, Empty)
  BY NightAuditAsks
<1>2. /\ \A n \in po : folios[FolioOf(NightRow[n].res)].open
      /\ po \subseteq Night \ posted
  BY DEF NightAudit, DueNights
<1>3. /\ Len(ns) \in Nat
      /\ \A i, j \in 1..Len(ns) : ns[i] = ns[j] => i = j
      /\ \A i \in 1..Len(ns) : ns[i] \in po
      /\ \A n \in po : \E i \in 1..Len(ns) : ns[i] = n
  BY DueOrder
<1>4. Audited(li, ns, Len(ns))
  <2>1. nextId \in Nat /\ rules \in RuleSets
    BY DEF BooksInvariant
  <2>2. \A i \in 1..Len(ns) : ns[i] \in Night
    BY <1>2, <1>3
  <2> HIDE DEF ns
  <2> QED BY <1>3, <2>1, <2>2, AuditedOnce
<1> HIDE DEF po, ns, li, st
<1>5. Settles(Empty, Empty, li, {})
  BY <1>2, <1>3, <1>4, NoDomain DEF Settles, Audited
<1>6. ChargesOnce(li, po)
  <2>1. ASSUME NEW n \in Night, n \in po PROVE \E i \in DOMAIN li : Charges(li[i], n)
    BY <1>3, <1>4, <2>1 DEF Audited
  <2>2. ASSUME NEW n \in Night, NEW i \in DOMAIN li, Charges(li[i], n) PROVE n \in po
    BY <1>3, <1>4, <2>2 DEF Audited, Charges
  <2>3. ASSUME NEW n \in Night, NEW i \in DOMAIN li, NEW j \in DOMAIN li,
               Charges(li[i], n), Charges(li[j], n)
        PROVE  i = j
    BY <1>4, <2>3 DEF Audited, Charges
  <2> QED BY <2>1, <2>2, <2>3 DEF ChargesOnce
<1>7. Careful(Empty, Empty, li, {}, po)
  BY <1>2, <1>4, <1>5, <1>6 DEF Careful, Audited
<1> QED BY <1>1, <1>7, AsksConsidered

LEMMA OperateConsidered ==
  ASSUME BooksInvariant, NEW s, Operate(s)
  PROVE  Considered(s)
<1>1. ASSUME NEW x, NEW u \in UpgradeAmount, CheckIn(s, x, u) PROVE Considered(s)
  BY <1>1, CheckInConsidered
<1>2. ASSUME NEW x, UndoCheckIn(s, x) PROVE Considered(s)
  BY <1>2, UndoCheckInAsks, NothingCareful, AsksConsidered
<1>3. ASSUME NEW x, NEW allow, CheckOut(s, x, allow) PROVE Considered(s)
  <2> DEFINE settled == Balance(FolioOf(x)) = 0
             op == IF settled THEN One(FolioOf(x), FALSE) ELSE Empty
  <2>1. Asks(s, 0, One(x, "checked_out"), One(x, settled), Empty, op, Empty, {}, {}, Empty)
    BY <1>3, CheckOutAsks
  <2>2. Careful(Empty, op, Empty, {}, {})
    BY NothingCareful, SwitchCareful
  <2> HIDE DEF op, settled
  <2> QED BY <2>1, <2>2, AsksConsidered
<1>4. ASSUME NEW x, UndoCheckOut(s, x) PROVE Considered(s)
  <2> DEFINE op == IF closedByCheckOut[x] /\ ~folios[FolioOf(x)].open
                     THEN One(FolioOf(x), TRUE) ELSE Empty
  <2>1. Asks(s, 0, One(x, "in_house"), Empty, Empty, op, Empty, {}, {}, Empty)
    BY <1>4, UndoCheckOutAsks
  <2>2. Careful(Empty, op, Empty, {}, {})
    BY NothingCareful, SwitchCareful
  <2> HIDE DEF op
  <2> QED BY <2>1, <2>2, AsksConsidered
<1>5. ASSUME NEW d, NightAudit(s, d) PROVE Considered(s)
  BY <1>5, NightAuditConsidered
<1> QED
  BY <1>1, <1>2, <1>3, <1>4, <1>5 DEF Operate

--------------------------------------------------------------------------------
(* Each step, when there is one session.                                   *)

LEMMA SameLinesSameBalance ==
  ASSUME lines' = lines
  PROVE  \A f : Balance(f)' = Balance(f)
<1> SUFFICES ASSUME NEW f PROVE Balance(f)' = Balance(f)
  OBVIOUS
<1>1. Amounts(f)' = Amounts(f)
  BY DEF Amounts, AmountsOf, Active
<1> QED BY <1>1, BalanceStays

(* What was careful stays so while the rows it read do.                    *)
LEMMA CarefulStays ==
  ASSUME NEW fo, NEW op, NEW li, NEW vo, NEW po, Careful(fo, op, li, vo, po),
         lines' = lines, folios' = folios, posted' = posted
  PROVE  Careful(fo, op, li, vo, po)'
<1>1. \A f : Balance(f)' = Balance(f)
  BY SameLinesSameBalance
<1>2. Settles(fo, op, li, vo)'
  BY <1>1 DEF Careful, Settles
<1>3. SameFolio(li)' /\ ChargesOnce(li, po)'
  BY DEF Careful, SameFolio, ChargesOnce, Charges
<1> QED BY <1>2, <1>3 DEF Careful

LEMMA RowsStaySettled ==
  ASSUME SettledInvariant, lines' = lines, folios' = folios, posted' = posted
  PROVE  SameFolio(lines)' /\ ClosedIsSettled' /\ ChargesOnce(lines, posted)'
<1>1. \A f : Balance(f)' = Balance(f)
  BY SameLinesSameBalance
<1>2. ClosedIsSettled'
  BY <1>1 DEF SettledInvariant, ClosedIsSettled
<1> QED BY <1>2 DEF SettledInvariant, SameFolio, ChargesOnce, Charges

LEMMA RequestKeepsSettled ==
  ASSUME OneAtATime, BooksInvariant, SettledInvariant, NEW s \in Session, Considered(s)
  PROVE  SettledInvariant'
<1>1. PICK w, n : /\ Request(s, w, n)
                  /\ Careful(w.folios, w.open, w.lines, w.voids, w.posted)
  BY DEF Considered
<1>2. /\ tx' = [tx EXCEPT ![s] = w]
      /\ lines' = lines /\ folios' = folios /\ posted' = posted
  BY <1>1 DEF Request, rows
<1>3. \A o \in Session : tx'[o] = w
  BY <1>2 DEF BooksInvariant, OneAtATime
<1>4. Careful(w.folios, w.open, w.lines, w.voids, w.posted)'
  BY <1>1, <1>2, CarefulStays
<1>5. SameFolio(lines)' /\ ClosedIsSettled' /\ ChargesOnce(lines, posted)'
  BY <1>2, RowsStaySettled
<1>6. ASSUME NEW o \in Session
      PROVE  Careful(tx[o].folios, tx[o].open, tx[o].lines, tx[o].voids, tx[o].posted)'
  BY <1>3, <1>4
<1> QED BY <1>5, <1>6 DEF SettledInvariant

(* A closed folio was closed before and is touched by nothing, or is       *)
(* closed by a request that found it settled and changes no line.          *)
LEMMA CommitSettles ==
  ASSUME BooksInvariant, SettledInvariant, NEW s \in Session, Commit(s)
  PROVE  ClosedIsSettled'
<1> DEFINE w == tx[s]
           known == Overlay(folios, w.folios)
<1>1. /\ SoundBooks(w) /\ Settles(w.folios, w.open, w.lines, w.voids)
      /\ folios' = [f \in DOMAIN known |->
                      IF f \in DOMAIN w.open THEN [known[f] EXCEPT !.open = w.open[f]]
                      ELSE known[f]]
  BY DEF Commit, BooksInvariant, SettledInvariant, Careful
<1>2. /\ DOMAIN lines' = DOMAIN lines \cup DOMAIN w.lines
      /\ \A i \in DOMAIN lines' :
           LET v == IF i \in DOMAIN w.lines THEN w.lines[i] ELSE lines[i] IN
           /\ lines'[i].folio = v.folio /\ lines'[i].amount = v.amount
           /\ (lines'[i].void <=> (i \in w.voids \/ v.void))
  BY CommitLines
<1>3. /\ DOMAIN known = DOMAIN folios \cup DOMAIN w.folios
      /\ \A f \in DOMAIN known :
           known[f] = IF f \in DOMAIN w.folios THEN w.folios[f] ELSE folios[f]
  BY DEF Overlay
<1> HIDE DEF w, known
<1>4. DOMAIN w.lines \cap DOMAIN lines = {}
  BY <1>1 DEF SoundBooks
<1> SUFFICES ASSUME NEW f \in DOMAIN folios', ~folios'[f].open
             PROVE  Balance(f)' = 0
  BY DEF ClosedIsSettled
<1>5. f \in DOMAIN known
  BY <1>1
<1>6. CASE f \in DOMAIN w.open
  <2>1. folios'[f] = [known[f] EXCEPT !.open = w.open[f]]
    BY <1>1, <1>5, <1>6
  <2>2. "open" \in DOMAIN known[f] => folios'[f].open = w.open[f]
    BY <2>1
  <2>3. Balance(f) = 0 /\ DOMAIN w.lines = {} /\ w.voids = {}
    BY <1>1, <1>6, <2>2 DEF Settles
  <2>4. DOMAIN lines' = DOMAIN lines
    BY <1>2, <2>3
  <2>5. \A i \in DOMAIN lines :
          /\ lines'[i].folio = lines[i].folio /\ lines'[i].amount = lines[i].amount
          /\ (lines'[i].void <=> lines[i].void)
    BY <1>2, <2>3, <2>4
  <2>6. Active(f)' = Active(f)
    BY <2>4, <2>5 DEF Active
  <2>7. Amounts(f)' = Amounts(f)
    BY <2>5, <2>6 DEF Amounts, AmountsOf, Active
  <2> QED BY <2>3, <2>7, BalanceStays
<1>7. CASE f \notin DOMAIN w.open
  <2>1. folios'[f] = known[f]
    BY <1>1, <1>5, <1>7
  <2>2. f \notin DOMAIN w.folios
    BY <1>1, <1>3, <1>5, <2>1 DEF Settles
  <2>3. f \in DOMAIN folios /\ ~folios[f].open
    BY <1>3, <1>5, <2>1, <2>2
  <2>4. Balance(f) = 0
    BY <2>3 DEF SettledInvariant, ClosedIsSettled
  <2>5. \A i \in DOMAIN w.lines : w.lines[i].folio # f
    BY <1>1, <2>2, <2>3 DEF Settles
  <2>6. \A i \in DOMAIN lines : lines[i].folio = f => i \notin w.voids
    BY <1>1, <2>3 DEF Settles
  <2>7. \A i \in DOMAIN lines :
          /\ i \in DOMAIN lines'
          /\ lines'[i].folio = lines[i].folio /\ lines'[i].amount = lines[i].amount
          /\ (lines'[i].void <=> (i \in w.voids \/ lines[i].void))
    BY <1>2, <1>4
  <2>8. \A i \in DOMAIN lines' : lines'[i].folio = f => i \in DOMAIN lines
    BY <1>2, <2>5
  <2>9. Active(f)' = Active(f)
    BY <2>6, <2>7, <2>8 DEF Active
  <2>10. Amounts(f)' = Amounts(f)
    BY <2>7, <2>9 DEF Amounts, AmountsOf, Active
  <2> QED BY <2>4, <2>10, BalanceStays
<1> QED BY <1>6, <1>7

LEMMA CommitChargesOnce ==
  ASSUME BooksInvariant, SettledInvariant, NEW s \in Session, Commit(s)
  PROVE  SameFolio(lines)' /\ ChargesOnce(lines, posted)'
<1> DEFINE w == tx[s]
<1>1. /\ SoundBooks(w) /\ SameFolio(w.lines)
      /\ ChargesOnce(w.lines, w.posted) /\ w.posted \cap posted = {}
      /\ posted' = posted \cup w.posted
  BY DEF Commit, BooksInvariant, SettledInvariant, Careful
<1>2. /\ DOMAIN lines' = DOMAIN lines \cup DOMAIN w.lines
      /\ \A i \in DOMAIN lines' :
           LET v == IF i \in DOMAIN w.lines THEN w.lines[i] ELSE lines[i] IN
           /\ lines'[i].folio = v.folio /\ lines'[i].kind = v.kind
           /\ lines'[i].source = v.source /\ lines'[i].parent = v.parent
  BY CommitLines
<1> HIDE DEF w
<1>3. DOMAIN w.lines \cap DOMAIN lines = {}
  BY <1>1 DEF SoundBooks
<1>4. /\ \A i \in DOMAIN lines :
           /\ lines'[i].folio = lines[i].folio /\ lines'[i].parent = lines[i].parent
           /\ \A n : Charges(lines'[i], n) <=> Charges(lines[i], n)
      /\ \A i \in DOMAIN w.lines :
           /\ lines'[i].folio = w.lines[i].folio /\ lines'[i].parent = w.lines[i].parent
           /\ \A n : Charges(lines'[i], n) <=> Charges(w.lines[i], n)
  BY <1>2, <1>3 DEF Charges
<1>5. SameFolio(lines)'
  BY <1>1, <1>2, <1>4 DEF SameFolio, SettledInvariant
<1>6. ASSUME NEW n \in Night
      PROVE  n \in posted' <=> \E i \in DOMAIN lines' : Charges(lines'[i], n)
  <2>1. n \in posted <=> \E i \in DOMAIN lines : Charges(lines[i], n)
    BY DEF SettledInvariant, ChargesOnce
  <2>2. n \in w.posted <=> \E i \in DOMAIN w.lines : Charges(w.lines[i], n)
    BY <1>1 DEF ChargesOnce
  <2> QED BY <1>1, <1>2, <1>4, <2>1, <2>2
<1>7. ASSUME NEW n \in Night, NEW i \in DOMAIN lines', NEW j \in DOMAIN lines',
             Charges(lines'[i], n), Charges(lines'[j], n)
      PROVE  i = j
  <2>1. /\ i \in DOMAIN lines => n \in posted
        /\ j \in DOMAIN lines => n \in posted
    BY <1>4, <1>7 DEF SettledInvariant, ChargesOnce
  <2>2. /\ i \in DOMAIN w.lines => n \in w.posted
        /\ j \in DOMAIN w.lines => n \in w.posted
    BY <1>1, <1>4, <1>7 DEF ChargesOnce
  <2>3. CASE i \in DOMAIN lines /\ j \in DOMAIN lines
    BY <1>4, <1>7, <2>3 DEF SettledInvariant, ChargesOnce
  <2>4. CASE i \in DOMAIN w.lines /\ j \in DOMAIN w.lines
    BY <1>1, <1>4, <1>7, <2>4 DEF ChargesOnce
  <2> QED BY <1>1, <1>2, <2>1, <2>2, <2>3, <2>4
<1>8. ChargesOnce(lines, posted)'
  BY <1>6, <1>7 DEF ChargesOnce, Charges
<1> QED BY <1>5, <1>8

LEMMA NextKeepsSettled ==
  ASSUME OneAtATime, BooksInvariant, SettledInvariant, [Next]_vars
  PROVE  SettledInvariant'
<1>1. CASE \E s \in Session : Bill(s) \/ Operate(s)
  BY <1>1, BillConsidered, OperateConsidered, RequestKeepsSettled
<1>2. ASSUME NEW s \in Session, Commit(s) PROVE SettledInvariant'
  <2>1. \A o \in Session : tx'[o] = None
    BY <1>2 DEF Commit, OneAtATime, BooksInvariant
  <2> QED BY <1>2, <2>1, CommitSettles, CommitChargesOnce DEF SettledInvariant
<1>3. ASSUME NEW s \in Session, Fail(s) PROVE SettledInvariant'
  <2>1. \A o \in Session : tx'[o] = None
    BY <1>3 DEF Fail, OneAtATime, BooksInvariant
  <2>2. lines' = lines /\ folios' = folios /\ posted' = posted
    BY <1>3 DEF Fail, rows
  <2> QED BY <2>1, <2>2, RowsStaySettled DEF SettledInvariant
<1>4. CASE (\E r \in RuleSets : ChangeRules(r)) \/ UNCHANGED vars
  <2>1. lines' = lines /\ folios' = folios /\ posted' = posted /\ tx' = tx
    BY <1>4 DEF ChangeRules, vars
  <2>2. ASSUME NEW o \in Session, tx[o] # None
        PROVE  Careful(tx[o].folios, tx[o].open, tx[o].lines, tx[o].voids, tx[o].posted)'
    <3> DEFINE w == tx[o]
    <3>1. Careful(w.folios, w.open, w.lines, w.voids, w.posted)
      BY <2>2 DEF SettledInvariant
    <3>2. /\ tx'[o].folios = w.folios /\ tx'[o].open = w.open /\ tx'[o].lines = w.lines
          /\ tx'[o].voids = w.voids /\ tx'[o].posted = w.posted
      BY <2>1
    <3>3. \A fo, op, li, vo, po : Careful(fo, op, li, vo, po) => Careful(fo, op, li, vo, po)'
      BY <2>1, CarefulStays
    <3> QED BY <3>1, <3>2, <3>3
  <2>3. \A o \in Session : tx'[o] # None => tx[o] # None
    BY <2>1
  <2> QED BY <2>1, <2>2, <2>3, RowsStaySettled DEF SettledInvariant
<1> QED BY <1>1, <1>2, <1>3, <1>4 DEF Next

LEMMA InitSettled == Init => SettledInvariant
<1> SUFFICES ASSUME Init PROVE SettledInvariant
  OBVIOUS
<1>1. /\ DOMAIN lines = {} /\ DOMAIN folios = {} /\ posted = {}
      /\ tx = [s \in Session |-> None]
  BY NoDomain DEF Init
<1> QED
  BY <1>1 DEF SettledInvariant, SameFolio, ClosedIsSettled, ChargesOnce

LEMMA SettledAlways ==
  ASSUME OneAtATime
  PROVE  Spec => [](BooksInvariant /\ SettledInvariant)
<1>1. SettledInvariant /\ BooksInvariant /\ [Next]_vars => SettledInvariant'
  BY NextKeepsSettled
<1> QED BY <1>1, InitBooks, NextKeepsBooks, InitSettled, PTL DEF Spec

(* When requests do not overlap, a closed folio is settled: nothing is     *)
(* posted to it or voided on it after its balance was found to be zero     *)
(* (billing/service _require_open, close_folio; frontdesk check_out).      *)
THEOREM ClosedFoliosSettled == OneAtATime => (Spec => []ClosedIsSettled)
<1> SUFFICES ASSUME OneAtATime PROVE Spec => []ClosedIsSettled
  OBVIOUS
<1>1. SettledInvariant => ClosedIsSettled
  BY DEF SettledInvariant
<1>2. Spec => [](BooksInvariant /\ SettledInvariant)
  BY SettledAlways
<1> QED BY <1>1, <1>2, PTL

LEMMA SettledChargesOnce == ASSUME SettledInvariant PROVE NightChargedOnce
<1> SUFFICES ASSUME NEW n \in Night
             PROVE  Cardinality({i \in DOMAIN lines : lines[i].kind = "charge"
                                                      /\ lines[i].source = n})
                      = IF n \in posted THEN 1 ELSE 0
  BY DEF NightChargedOnce
<1> DEFINE C == {i \in DOMAIN lines : lines[i].kind = "charge" /\ lines[i].source = n}
<1>1. /\ n \in posted <=> C # {}
      /\ \A i, j \in C : i = j
  BY DEF SettledInvariant, ChargesOnce, Charges
<1> HIDE DEF C
<1>2. CASE n \in posted
  <2>1. PICK i : C = {i}
    BY <1>1, <1>2
  <2>2. Cardinality(C) = 1
    BY <2>1, FS_Singleton
  <2> QED BY <1>2, <2>2 DEF C
<1>3. CASE n \notin posted
  <2>1. Cardinality(C) = 0
    BY <1>1, <1>3, FS_EmptySet
  <2> QED BY <1>3, <2>1 DEF C
<1> QED BY <1>2, <1>3

(* When requests do not overlap, a room night is charged once if it is     *)
(* flagged posted, and not at all if it is not (frontdesk/service          *)
(* post_room_charges).                                                     *)
THEOREM NightsChargedOnce == OneAtATime => (Spec => []NightChargedOnce)
<1> SUFFICES ASSUME OneAtATime PROVE Spec => []NightChargedOnce
  OBVIOUS
<1>1. SettledInvariant => NightChargedOnce
  BY SettledChargesOnce
<1>2. Spec => [](BooksInvariant /\ SettledInvariant)
  BY SettledAlways
<1> QED BY <1>1, <1>2, PTL

--------------------------------------------------------------------------------
(* Invoices: their three sums, and what nobody changes before the commit.  *)

Agrees(v) == v.charged - v.paid = Balance(v.folio) /\ v.gst = GstMinor(v.folio)

AllAgree(inv) == \A i \in DOMAIN inv : Agrees(inv[i])

InvoicesSound == \A s \in Session : tx[s] # None => AllAgree(tx[s].invoices)

ComponentsOf(S) == [i \in S |-> lines[i].component]
SumComponents(S) == MapThenSumSet(ComponentOf, S)
GstTotal(f) == Total(ComponentsOf(Active(f))) + Total(AmountsOf(OfKind("tax", Active(f))))

LEMMA ComponentsTotal == \A S : SumComponents(S) = Total(ComponentsOf(S))
<1> SUFFICES ASSUME NEW S PROVE SumComponents(S) = Total(ComponentsOf(S))
  OBVIOUS
<1> DEFINE A == ComponentsOf(S)
           Here(sum) == [s \in SUBSET S |->
                           IF s = {} THEN 0 ELSE ComponentOf(Pick(s)) + sum[s \ {Pick(s)}]]
           There(sum) == [s \in SUBSET S |->
                            IF s = {} THEN 0 ELSE A[Pick(s)] + sum[s \ {Pick(s)}]]
<1>1. SumComponents(S) = (CHOOSE sum : sum = Here(sum))[S]
  BY DEF SumComponents, MapThenSumSet, MapThenFoldSet, Pick
<1>2. DOMAIN A = S
  BY DEF ComponentsOf
<1>3. Total(A) = (CHOOSE sum : sum = There(sum))[S]
  <2> HIDE DEF A
  <2> QED BY <1>2 DEF Total, MapThenSumSet, MapThenFoldSet, Pick
<1>4. ASSUME NEW sum PROVE Here(sum) = There(sum)
  <2>1. ASSUME NEW s \in SUBSET S, s # {} PROVE ComponentOf(Pick(s)) = A[Pick(s)]
    <3>1. Pick(s) \in S
      BY <2>1 DEF Pick
    <3> QED BY <3>1 DEF ComponentOf, ComponentsOf
  <2> HIDE DEF A
  <2> QED BY <2>1
<1> HIDE DEF Here, There
<1>5. (CHOOSE sum : sum = Here(sum)) = (CHOOSE sum : sum = There(sum))
  BY <1>4, Zenon
<1> QED BY <1>1, <1>3, <1>5

LEMMA GstIsTotal == \A f : GstMinor(f) = GstTotal(f)
<1>1. \A f : GstMinor(f) = SumComponents(Active(f)) + SumAmounts(OfKind("tax", Active(f)))
  BY DEF GstMinor, SumComponents, SumAmounts
<1> QED BY <1>1, AmountsTotal, ComponentsTotal DEF GstTotal

LEMMA NextGstIsTotal == (\A f : GstMinor(f) = GstTotal(f))'
BY GstIsTotal, PTL

(* While the lines stay, so does what an invoice would say.                *)
LEMMA AgreesStays ==
  ASSUME lines' = lines, NEW inv, AllAgree(inv)
  PROVE  AllAgree(inv)'
<1>1. \A f : Balance(f)' = Balance(f)
  BY SameLinesSameBalance
<1>2. ASSUME NEW f PROVE GstMinor(f)' = GstMinor(f)
  <2>1. /\ ComponentsOf(Active(f))' = ComponentsOf(Active(f))
        /\ AmountsOf(OfKind("tax", Active(f)))' = AmountsOf(OfKind("tax", Active(f)))
    BY DEF ComponentsOf, AmountsOf, OfKind, Active
  <2>2. GstMinor(f)' = Total(ComponentsOf(Active(f))')
                         + Total(AmountsOf(OfKind("tax", Active(f)))')
    BY NextGstIsTotal DEF GstTotal
  <2> QED BY <2>1, <2>2, GstIsTotal DEF GstTotal
<1> QED BY <1>1, <1>2 DEF AllAgree, Agrees

(* The charges and the payments are the two parts of the active lines.     *)
LEMMA InvoiceOfFolio ==
  ASSUME BooksInvariant, NEW f
  PROVE  Agrees(Invoice(f))
<1> DEFINE S == Active(f)
           P == OfKind("payment", S)
           A == AmountsOf(S)
<1>1. S \subseteq DOMAIN lines /\ P \subseteq S
  BY DEF Active, OfKind
<1>2. IsFiniteSet(S)
  <2>1. nextId \in Nat /\ S \subseteq Drawn
    BY <1>1 DEF BooksInvariant
  <2> QED BY <2>1, DrawnFinite
<1>3. A \in [S -> Int]
  BY <1>1 DEF AmountsOf, BooksInvariant
<1>4. \A T \in SUBSET S : AmountsOf(T) = Part(A, T)
  BY DEF AmountsOf, Part
<1>5. /\ Invoice(f).folio = f
      /\ Invoice(f).charged = SumAmounts(S \ P) /\ Invoice(f).paid = -SumAmounts(P)
      /\ Invoice(f).gst = GstMinor(f)
  BY DEF Invoice, SumAmounts, GstMinor
<1>6. Balance(f) = Total(A)
  BY BalanceIsTotal DEF Amounts
<1> HIDE DEF S, P, A
<1> DEFINE c == Total(Part(A, S \ P))
           p == Total(Part(A, P))
<1>7. Total(A) = c + p /\ c \in Int /\ p \in Int
  BY <1>1, <1>2, <1>3, TotalSplits
<1>8. SumAmounts(S \ P) = c /\ SumAmounts(P) = p
  BY <1>1, <1>4, AmountsTotal
<1> HIDE DEF c, p
<1>9. Invoice(f).charged - Invoice(f).paid = Balance(f)
  BY <1>5, <1>6, <1>7, <1>8
<1> QED BY <1>5, <1>9 DEF Agrees

Invoicing(s) == \E w, n : Request(s, w, n) /\ AllAgree(w.invoices)

LEMMA AsksInvoicing ==
  ASSUME NEW s, NEW n, NEW st, NEW cb, NEW fo, NEW op, NEW li, NEW vo, NEW po, NEW inv,
         Asks(s, n, st, cb, fo, op, li, vo, po, inv), AllAgree(inv)
  PROVE  Invoicing(s)
BY DEF Asks, Invoicing

LEMMA NoInvoices == AllAgree(Empty)
BY NoDomain DEF AllAgree

LEMMA BillInvoicing ==
  ASSUME BooksInvariant, NEW s, Bill(s)
  PROVE  Invoicing(s)
<1>1. ASSUME NEW x, OpenFolio(s, x) PROVE Invoicing(s)
  BY <1>1, OpenFolioAsks, NoInvoices, AsksInvoicing
<1>2. ASSUME NEW f, NEW a, NEW q, NEW c, PostCharge(s, f, a, q, c) PROVE Invoicing(s)
  BY <1>2, PostChargeAsks, NoInvoices, AsksInvoicing
<1>3. ASSUME NEW f, NEW a, PostPayment(s, f, a) PROVE Invoicing(s)
  BY <1>3, PostPaymentAsks, NoInvoices, AsksInvoicing
<1>4. ASSUME NEW f, CloseFolio(s, f) PROVE Invoicing(s)
  BY <1>4, CloseFolioAsks, NoInvoices, AsksInvoicing
<1>5. ASSUME NEW f, GenerateInvoice(s, f) PROVE Invoicing(s)
  <2> DEFINE inv == One(nextId, Invoice(f))
  <2>1. DOMAIN inv = {nextId} /\ inv[nextId] = Invoice(f)
    BY DEF One
  <2>2. Asks(s, 1, Empty, Empty, Empty, Empty, Empty, {}, {}, inv)
    BY <1>5, GenerateInvoiceAsks
  <2> HIDE DEF inv
  <2>3. AllAgree(inv)
    BY <2>1, InvoiceOfFolio DEF AllAgree
  <2> QED BY <2>2, <2>3, AsksInvoicing
<1>6. ASSUME NEW i, VoidLine(s, i) PROVE Invoicing(s)
  BY <1>6, VoidLineAsks, NoInvoices, AsksInvoicing
<1> QED
  BY <1>1, <1>2, <1>3, <1>4, <1>5, <1>6 DEF Bill

LEMMA OperateInvoicing ==
  ASSUME NEW s, Operate(s)
  PROVE  Invoicing(s)
<1>1. ASSUME NEW x, NEW u, CheckIn(s, x, u) PROVE Invoicing(s)
  BY <1>1, CheckInAsks, NoInvoices, AsksInvoicing
<1>2. ASSUME NEW x, UndoCheckIn(s, x) PROVE Invoicing(s)
  BY <1>2, UndoCheckInAsks, NoInvoices, AsksInvoicing
<1>3. ASSUME NEW x, NEW allow, CheckOut(s, x, allow) PROVE Invoicing(s)
  BY <1>3, CheckOutAsks, NoInvoices, AsksInvoicing
<1>4. ASSUME NEW x, UndoCheckOut(s, x) PROVE Invoicing(s)
  BY <1>4, UndoCheckOutAsks, NoInvoices, AsksInvoicing
<1>5. ASSUME NEW d, NightAudit(s, d) PROVE Invoicing(s)
  BY <1>5, NightAuditAsks, NoInvoices, AsksInvoicing
<1> QED
  BY <1>1, <1>2, <1>3, <1>4, <1>5 DEF Operate

LEMMA NextKeepsInvoices ==
  ASSUME OneAtATime, BooksInvariant, InvoicesSound, [Next]_vars
  PROVE  InvoicesSound'
<1>1. ASSUME NEW s \in Session, Invoicing(s) PROVE InvoicesSound'
  <2>1. PICK w, n : Request(s, w, n) /\ AllAgree(w.invoices)
    BY <1>1 DEF Invoicing
  <2>2. tx' = [tx EXCEPT ![s] = w] /\ lines' = lines
    BY <2>1 DEF Request, rows
  <2>3. \A o \in Session : tx'[o] = w
    BY <2>2 DEF BooksInvariant, OneAtATime
  <2>4. AllAgree(w.invoices)'
    BY <2>1, <2>2, AgreesStays
  <2>5. ASSUME NEW o \in Session PROVE AllAgree(tx[o].invoices)'
    BY <2>3, <2>4
  <2> QED BY <2>5 DEF InvoicesSound
<1>2. ASSUME NEW s \in Session, Commit(s) \/ Fail(s) PROVE InvoicesSound'
  <2>1. \A o \in Session : tx'[o] = None
    BY <1>2 DEF Commit, Fail, OneAtATime, BooksInvariant
  <2> QED BY <2>1 DEF InvoicesSound
<1>3. CASE (\E r \in RuleSets : ChangeRules(r)) \/ UNCHANGED vars
  <2>1. lines' = lines /\ tx' = tx
    BY <1>3 DEF ChangeRules, vars
  <2>2. ASSUME NEW o \in Session, tx'[o] # None PROVE AllAgree(tx[o].invoices)'
    <3> DEFINE inv == tx[o].invoices
    <3>1. AllAgree(inv) /\ tx'[o].invoices = inv
      BY <2>1, <2>2 DEF InvoicesSound
    <3>2. \A v : AllAgree(v) => AllAgree(v)'
      BY <2>1, AgreesStays
    <3> HIDE DEF inv
    <3> QED BY <3>1, <3>2
  <2> QED BY <2>2 DEF InvoicesSound
<1> QED BY <1>1, <1>2, <1>3, BillInvoicing, OperateInvoicing DEF Next

(* The invoices a commit adds are those pending.                           *)
LEMMA CommitsAgree ==
  ASSUME BooksInvariant, InvoicesSound, [Next]_vars
  PROVE  InvoiceAgreeing
<1> SUFFICES ASSUME NEW i \in DOMAIN invoices' \ DOMAIN invoices
             PROVE  Agrees(invoices'[i])
  BY DEF InvoiceAgreeing, Agrees
<1>1. PICK s \in Session : Commit(s)
  <2>1. (\E s \in Session : Bill(s) \/ Operate(s)) => invoices' = invoices
    BY BillBooks, OperateBooks DEF Books, Request, rows
  <2>2. (\E s \in Session : Fail(s)) => invoices' = invoices
    BY DEF Fail, rows
  <2>3. (\E r \in RuleSets : ChangeRules(r)) \/ UNCHANGED vars => invoices' = invoices
    BY DEF ChangeRules, vars
  <2> QED BY <2>1, <2>2, <2>3 DEF Next
<1>2. tx[s] # None /\ invoices' = Overlay(invoices, tx[s].invoices)
  BY <1>1 DEF Commit
<1>3. i \in DOMAIN tx[s].invoices /\ invoices'[i] = tx[s].invoices[i]
  BY <1>2 DEF Overlay
<1> QED BY <1>2, <1>3 DEF InvoicesSound, AllAgree

(* When requests do not overlap, every invoice says of its folio what the  *)
(* folio says at that moment: charges less payments are the balance, and   *)
(* the GST is the folio's (billing/service generate_invoice,               *)
(* balance_minor, gst_minor).                                              *)
THEOREM InvoicesAgree == OneAtATime => (Spec => InvoiceAgrees)
<1> SUFFICES ASSUME OneAtATime PROVE Spec => InvoiceAgrees
  OBVIOUS
<1>1. Init => InvoicesSound
  BY DEF Init, InvoicesSound
<1>2. InvoicesSound /\ BooksInvariant /\ [Next]_vars => InvoicesSound'
  BY NextKeepsInvoices
<1>3. InvoicesSound /\ BooksInvariant /\ [Next]_vars => InvoiceAgreeing
  BY CommitsAgree
<1> QED BY <1>1, <1>2, <1>3, InitBooks, NextKeepsBooks, PTL DEF Spec, InvoiceAgrees

--------------------------------------------------------------------------------
(* The scene of MCBilling in which requests run one after another is       *)
(* Folio, so what holds of it there holds of the composition.              *)

AloneInvariant ==
  scene = "one request" => BooksInvariant /\ SettledInvariant /\ InvoicesSound

LEMMA InitAlone == ASSUME BillingInit PROVE AloneInvariant
<1> SUFFICES ASSUME scene = "one request" PROVE BooksInvariant /\ SettledInvariant /\ InvoicesSound
  BY DEF AloneInvariant
<1>1. Init
  BY DEF BillingInit
<1>2. InvoicesSound
  BY <1>1 DEF Init, InvoicesSound
<1> QED BY <1>1, <1>2, InitBooks, InitSettled

LEMMA SceneStays ==
  ASSUME [BillingNext]_everything
  PROVE  scene' = scene /\ (scene = "one request" => [Next]_vars)
BY DEF BillingNext, everything

LEMMA NextKeepsAlone ==
  ASSUME OneAtATime, AloneInvariant, [BillingNext]_everything
  PROVE  AloneInvariant'
<1> SUFFICES ASSUME scene = "one request"
             PROVE  BooksInvariant' /\ SettledInvariant' /\ InvoicesSound'
  BY SceneStays DEF AloneInvariant
<1>1. [Next]_vars
  BY SceneStays
<1>2. BooksInvariant /\ SettledInvariant /\ InvoicesSound
  BY DEF AloneInvariant
<1> QED BY <1>1, <1>2, NextKeepsBooks, NextKeepsSettled, NextKeepsInvoices

LEMMA AloneAlways == ASSUME OneAtATime PROVE BillingSpec => []AloneInvariant
<1>1. AloneInvariant /\ [BillingNext]_everything => AloneInvariant'
  BY NextKeepsAlone
<1> QED BY <1>1, InitAlone, PTL DEF BillingSpec

(* Of the composition that TLC checks: a folio one request at a time works *)
(* on is settled when it is closed.                                        *)
THEOREM BillingSettled == OneAtATime => (BillingSpec => []ClosedIsSettledAlone)
<1> SUFFICES ASSUME OneAtATime PROVE BillingSpec => []ClosedIsSettledAlone
  OBVIOUS
<1>1. AloneInvariant => ClosedIsSettledAlone
  BY DEF AloneInvariant, SettledInvariant, ClosedIsSettledAlone
<1>2. BillingSpec => []AloneInvariant
  BY AloneAlways
<1> QED BY <1>1, <1>2, PTL

(* Of the composition: one night audit at a time charges a night once, and *)
(* flags it.                                                               *)
THEOREM BillingNightsOnce == OneAtATime => (BillingSpec => []NightChargedOnceAlone)
<1> SUFFICES ASSUME OneAtATime PROVE BillingSpec => []NightChargedOnceAlone
  OBVIOUS
<1>1. AloneInvariant => NightChargedOnceAlone
  BY SettledChargesOnce DEF AloneInvariant, NightChargedOnceAlone
<1>2. BillingSpec => []AloneInvariant
  BY AloneAlways
<1> QED BY <1>1, <1>2, PTL

(* Of the composition: an invoice drawn while nothing else runs agrees     *)
(* with its folio.                                                         *)
THEOREM BillingInvoicesAgree == OneAtATime => (BillingSpec => InvoiceAgreesAlone)
<1> SUFFICES ASSUME OneAtATime PROVE BillingSpec => InvoiceAgreesAlone
  OBVIOUS
<1>1. AloneInvariant /\ [BillingNext]_everything
        => [scene = "one request" => InvoiceAgreeing]_vars
  BY SceneStays, CommitsAgree DEF AloneInvariant
<1>2. BillingSpec => []AloneInvariant
  BY AloneAlways
<1> QED BY <1>1, <1>2, PTL DEF BillingSpec, InvoiceAgreesAlone

--------------------------------------------------------------------------------
(* Rounding.  Amounts are integers, rates thousandths of a percent; what   *)
(* follows holds for any of them.                                          *)

(* The opposite of an amount is rounded to the opposite.                   *)
LEMMA RoundedOpposite ==
  ASSUME NEW n \in Int, NEW d \in Nat \ {0}
  PROVE  RoundHalfUp(-n, d) = -RoundHalfUp(n, d)
<1>1. -n \in Int /\ Magnitude(-n) = Magnitude(n)
  BY DEF Magnitude
<1>2. /\ RoundHalfUp(Magnitude(n), d) \in Nat
      /\ RoundHalfUp(n, d) =
           IF n < 0 THEN -RoundHalfUp(Magnitude(n), d) ELSE RoundHalfUp(Magnitude(n), d)
      /\ RoundHalfUp(-n, d) =
           IF -n < 0 THEN -RoundHalfUp(Magnitude(n), d) ELSE RoundHalfUp(Magnitude(n), d)
  BY <1>1, RoundedMagnitude
<1>3. ASSUME n = 0 PROVE RoundHalfUp(Magnitude(n), d) = 0
  <2>1. Magnitude(n) = 0 /\ 0 \in Nat /\ 2 * 0 + d = d /\ 2 * Magnitude(0) + d = d
    BY <1>3 DEF Magnitude
  <2>2. d \div (2 * d) = 0
    OBVIOUS
  <2>3. RoundHalfUp(0, d) = 0
    BY <2>1, <2>2 DEF RoundHalfUp
  <2> QED BY <2>1, <2>3
<1> QED BY <1>2, <1>3

LEMMA NearestShare ==
  ASSUME NEW n \in Int, NEW d \in Nat \ {0}
  PROVE  LET r == RoundHalfUp(n, d) IN
         /\ r \in Int
         /\ 2 * Magnitude(n - r * d) <= d
         /\ 2 * Magnitude(n - r * d) = d => Magnitude(r * d) > Magnitude(n)
<1> DEFINE k == Magnitude(n)
           m == RoundHalfUp(k, d)
           r == RoundHalfUp(n, d)
<1>1. k \in Nat /\ n = IF n < 0 THEN -k ELSE k
  BY DEF Magnitude
<1>2. m \in Nat /\ r = IF n < 0 THEN -m ELSE m
  BY RoundedMagnitude
<1>3. 2 * (m * d) <= 2 * k + d /\ 2 * k + d < 2 * (m * d) + 2 * d
  <2>1. m = (2 * k + d) \div (2 * d)
    <3> HIDE DEF k
    <3> QED BY <1>1 DEF RoundHalfUp, Magnitude
  <2> HIDE DEF k, m
  <2> QED BY <1>1, <2>1, Rounded
<1> DEFINE md == m * d
<1> HIDE DEF k, m, r
<1>4. md \in Nat /\ r * d = IF n < 0 THEN -md ELSE md
  BY <1>2
<1>5. 2 * md <= 2 * k + d /\ 2 * k + d < 2 * md + 2 * d
  BY <1>3
<1> HIDE DEF md
<1>6. Magnitude(n - r * d) = Magnitude(k - md)
  BY <1>1, <1>4 DEF Magnitude
<1>7. Magnitude(r * d) = md /\ Magnitude(n) = k
  BY <1>1, <1>4 DEF Magnitude
<1>8. 2 * Magnitude(k - md) <= d /\ (2 * Magnitude(k - md) = d => md > k)
  BY <1>1, <1>4, <1>5 DEF Magnitude
<1>9. r \in Int
  BY <1>2
<1> QED BY <1>6, <1>7, <1>8, <1>9 DEF r

(* The tax c found inside a, and what the rule adds to the rest of a.      *)
LEMMA ShareOfTheRest ==
  ASSUME NEW a \in Nat, NEW p \in Nat, p <= 2 * Hundred
  PROVE  LET c == RoundHalfUp(a * p, Hundred + p)
             t == RoundHalfUp((a - c) * p, Hundred)
         IN  c \in Nat /\ c <= a /\ t \in Nat /\ c - t \in -1..1
<1> DEFINE c == RoundHalfUp(a * p, Hundred + p)
           t == RoundHalfUp((a - c) * p, Hundred)
           ap == a * p
           cp == c * p
<1>1. ap \in Nat /\ Hundred + p \in Nat \ {0} /\ Hundred \in Nat \ {0}
  BY DEF Hundred
<1>2. \A n \in Nat, d \in Nat \ {0} :
        /\ RoundHalfUp(n, d) \in Nat
        /\ 2 * (RoundHalfUp(n, d) * d) <= 2 * n + d
        /\ 2 * n + d < 2 * (RoundHalfUp(n, d) * d) + 2 * d
  <2> SUFFICES ASSUME NEW n \in Nat, NEW d \in Nat \ {0}
               PROVE  /\ RoundHalfUp(n, d) \in Nat
                      /\ 2 * (RoundHalfUp(n, d) * d) <= 2 * n + d
                      /\ 2 * n + d < 2 * (RoundHalfUp(n, d) * d) + 2 * d
    OBVIOUS
  <2>1. RoundHalfUp(n, d) = (2 * n + d) \div (2 * d)
    BY DEF RoundHalfUp, Magnitude
  <2> QED BY <2>1, Rounded
<1>3. /\ c \in Nat
      /\ 2 * (c * (Hundred + p)) <= 2 * ap + (Hundred + p)
      /\ 2 * ap + (Hundred + p) < 2 * (c * (Hundred + p)) + 2 * (Hundred + p)
  <2> HIDE DEF ap
  <2>1. c = RoundHalfUp(ap, Hundred + p)
    BY DEF ap
  <2> HIDE DEF c
  <2> QED BY <1>1, <1>2, <2>1
<1> HIDE DEF c
<1>4. cp \in Nat /\ c * (Hundred + p) = c * Hundred + cp
  BY <1>3 DEF Hundred
<1>5. c <= a
  <2> SUFFICES ASSUME c > a PROVE FALSE
    BY <1>3
  <2>1. cp >= ap + p
    <3>1. c - (a + 1) \in Nat
      BY <1>3
    <3>2. (c - (a + 1)) * p \in Nat
      BY <3>1
    <3>3. (c - (a + 1)) * p = cp - (ap + p)
      BY <1>3
    <3> QED BY <1>1, <1>4, <3>2, <3>3
  <2>2. c * Hundred >= a * Hundred + Hundred
    BY <1>3 DEF Hundred
  <2> HIDE DEF ap, cp
  <2> QED BY <1>1, <1>3, <1>4, <2>1, <2>2 DEF Hundred
<1>6. (a - c) * p = ap - cp /\ (a - c) * p \in Nat
  <2>1. a - c \in Nat
    BY <1>3, <1>5
  <2> QED BY <1>3, <2>1
<1>7. /\ t \in Nat
      /\ 2 * (t * Hundred) <= 2 * (ap - cp) + Hundred
      /\ 2 * (ap - cp) + Hundred < 2 * (t * Hundred) + 2 * Hundred
  BY <1>1, <1>2, <1>6
<1> HIDE DEF t, ap, cp
<1>8. c - t \in -1..1
  BY <1>1, <1>3, <1>4, <1>7 DEF Hundred
<1> QED BY <1>3, <1>5, <1>7, <1>8 DEF c, t


--------------------------------------------------------------------------------
(* The taxes of one charge under one rule.                                 *)

LEMMA SameTaxes ==
  ASSUME NEW R, NEW a, NEW q, NEW c
  PROVE  Tax!TaxesOf(R, a, q, c) = TaxesOf(R, a, q, c)
BY DEF Tax!TaxesOf, TaxesOf, Tax!Applies, Applies, Tax!RuleAmount, RuleAmount,
       Tax!Divisor, Divisor, Tax!Hundred, Hundred, Tax!RoundHalfUp, RoundHalfUp,
       Tax!Magnitude, Magnitude

LEMMA TaxesOfOne ==
  ASSUME NEW x, NEW a, NEW q, NEW c
  PROVE  TaxesOf(<<x>>, a, q, c) =
           Taxed(Due(x, a, q, c), x, [component |-> 0, added |-> <<>>])
<1> DEFINE R == <<x>>
<1>1. Len(R) = 1 /\ R[1] = x
  OBVIOUS
<1> HIDE DEF R
<1>2. PICK g : TaxedBy(g, R, a, q, c, 1) /\ TaxesOf(R, a, q, c) = g[1]
  <2>1. Len(R) \in Nat
    BY <1>1
  <2>2. \E g : TaxedBy(g, R, a, q, c, Len(R)) /\ TaxesOf(R, a, q, c) = g[Len(R)]
    BY <2>1, TaxesFollow
  <2> QED BY <1>1, <2>2
<1>3. g = [k \in 0..1 |-> IF k = 0 THEN [component |-> 0, added |-> <<>>]
                          ELSE Taxed(Due(R[k], a, q, c), R[k], g[k - 1])]
  BY <1>2 DEF TaxedBy
<1>4. g[0] = [component |-> 0, added |-> <<>>]
  BY <1>3
<1>5. g[1] = Taxed(Due(R[1], a, q, c), R[1], g[1 - 1])
  BY <1>3
<1>6. g[1 - 1] = g[0]
  OBVIOUS
<1> QED BY <1>1, <1>2, <1>4, <1>5, <1>6 DEF R

(* Percentages are not negative; prices are any amounts.                   *)
ChargesGiven ==
  /\ Percents \subseteq Nat
  /\ price \in Int /\ quantity \in Nat
  /\ rule \in Tax!SomeRules

(* Above 200 % the two ways of charging a tax drift apart.                 *)
TwiceThePriceAtMost == \A p \in Percents : p <= 2 * Hundred

LEMMA ShareGiven ==
  ASSUME ChargesGiven, Tax!PercentOnly
  PROVE  /\ rule.percent \in Nat /\ rule.percent \in Percents /\ rule.percent # None
         /\ rule.fixed = None /\ rule.inclusive \in BOOLEAN
         /\ rule.active /\ rule.categories = {}
         /\ Tax!amount \in Int
<1>1. rule.percent \in Percents
  BY DEF ChargesGiven, Tax!PercentOnly, Tax!SomeRules
<1>2. price * quantity \in Int
  BY DEF ChargesGiven
<1>3. rule.percent \in Nat
  BY <1>1 DEF ChargesGiven
<1>4. /\ rule.percent # None /\ rule.fixed = None /\ rule.inclusive \in BOOLEAN
      /\ rule.active = TRUE /\ rule.categories = {}
  BY DEF ChargesGiven, Tax!PercentOnly, Tax!SomeRules
<1> QED BY <1>1, <1>2, <1>3, <1>4 DEF Tax!amount

(* The share of any price is rounded to the nearest minor unit, and away   *)
(* from zero when two are equally near (quantize with ROUND_HALF_UP).      *)
THEOREM SharesToTheUnit == ChargesGiven => NearestUnit
<1> SUFFICES ASSUME ChargesGiven, Tax!PercentOnly
             PROVE  LET n == Tax!amount * rule.percent
                        d == Tax!Divisor(rule)
                        r == Tax!RoundHalfUp(n, d)
                    IN  /\ 2 * Tax!Magnitude(n - r * d) <= d
                        /\ 2 * Tax!Magnitude(n - r * d) = d
                             => Tax!Magnitude(r * d) > Tax!Magnitude(n)
  BY DEF NearestUnit, Tax!NearestUnit
<1>1. Tax!amount * rule.percent \in Int
  BY ShareGiven
<1>2. Tax!Divisor(rule) \in Nat \ {0}
  BY ShareGiven DEF Tax!Divisor, Tax!Hundred
<1>3. \A n \in Int, d \in Nat \ {0} : Tax!RoundHalfUp(n, d) = RoundHalfUp(n, d)
  BY DEF Tax!RoundHalfUp, RoundHalfUp, Tax!Magnitude, Magnitude
<1>4. \A n : Tax!Magnitude(n) = Magnitude(n)
  BY DEF Tax!Magnitude, Magnitude
<1> DEFINE n == Tax!amount * rule.percent
           d == Tax!Divisor(rule)
<1> HIDE DEF n, d
<1>5. n \in Int /\ d \in Nat \ {0}
  BY <1>1, <1>2 DEF n, d
<1>6. /\ 2 * Magnitude(n - RoundHalfUp(n, d) * d) <= d
      /\ 2 * Magnitude(n - RoundHalfUp(n, d) * d) = d
           => Magnitude(RoundHalfUp(n, d) * d) > Magnitude(n)
  BY <1>5, NearestShare
<1> QED BY <1>3, <1>4, <1>5, <1>6 DEF n, d

(* The tax a rule finds inside a price is, to the unit, the tax it would   *)
(* add to the rest of the price, for any price, positive or negative.      *)
LEMMA ShareOfAnyRest ==
  ASSUME NEW a \in Int, NEW p \in Nat, p <= 2 * Hundred
  PROVE  LET c == RoundHalfUp(a * p, Hundred + p)
             t == RoundHalfUp((a - c) * p, Hundred)
         IN  c \in Int /\ t \in Int /\ Magnitude(c - t) <= 1 /\ Magnitude(c) <= Magnitude(a)
<1>1. CASE a >= 0
  <2>1. a \in Nat
    BY <1>1
  <2> DEFINE c == RoundHalfUp(a * p, Hundred + p)
             t == RoundHalfUp((a - c) * p, Hundred)
  <2>2. c \in Nat /\ c <= a /\ t \in Nat /\ c - t \in -1..1
    BY <2>1, ShareOfTheRest
  <2> HIDE DEF c, t
  <2>3. c \in Int /\ t \in Int /\ Magnitude(c - t) <= 1 /\ Magnitude(c) <= Magnitude(a)
    BY <2>1, <2>2 DEF Magnitude
  <2> QED BY <2>3 DEF c, t
<1>2. CASE a < 0
  <2> DEFINE b == -a
             c == RoundHalfUp(b * p, Hundred + p)
             t == RoundHalfUp((b - c) * p, Hundred)
             x == RoundHalfUp(a * p, Hundred + p)
             y == RoundHalfUp((a - x) * p, Hundred)
  <2>1. b \in Nat /\ a = -b /\ Hundred + p \in Nat \ {0} /\ Hundred \in Nat \ {0}
    BY <1>2 DEF Hundred
  <2>2. c \in Nat /\ c <= b /\ t \in Nat /\ c - t \in -1..1
    <3> HIDE DEF b
    <3> QED BY <2>1, ShareOfTheRest
  <2> HIDE DEF b
  <2>3. x = -c
    <3>1. b * p \in Int /\ a * p = -(b * p)
      BY <2>1
    <3> QED BY <2>1, <3>1, RoundedOpposite
  <2> HIDE DEF x, c
  <2>4. y = -t
    <3>1. (b - c) * p \in Int /\ (a - x) * p = -((b - c) * p)
      <4>1. a - x = -(b - c) /\ b - c \in Int
        BY <2>1, <2>2, <2>3
      <4> QED BY <4>1
    <3> QED BY <2>1, <3>1, RoundedOpposite
  <2> HIDE DEF y, t
  <2>5. x \in Int /\ y \in Int /\ Magnitude(x - y) <= 1 /\ Magnitude(x) <= Magnitude(a)
    BY <2>1, <2>2, <2>3, <2>4 DEF Magnitude
  <2> QED BY <2>5 DEF x, y
<1> QED BY <1>1, <1>2

(* The two ways of charging a tax agree to the minor unit, for any price   *)
(* and any percentage up to 200 (_apply_taxes, "the tax portion is         *)
(* recorded on the charge line").                                          *)
THEOREM TaxWaysAgree == ChargesGiven /\ TwiceThePriceAtMost => InclusiveMatchesExclusive
<1> SUFFICES ASSUME ChargesGiven, TwiceThePriceAtMost, Tax!PercentOnly, rule.inclusive
             PROVE  LET net == Tax!amount - Tax!taxes.component
                        onTop == Tax!TaxesOf(<<[rule EXCEPT !.inclusive = FALSE]>>, net,
                                             quantity, misc).added
                    IN  /\ Tax!taxes.added = <<>>
                        /\ Tax!Magnitude(Tax!taxes.component
                                         - (IF onTop = <<>> THEN 0 ELSE onTop[1])) <= 1
                        /\ Tax!Magnitude(Tax!taxes.component) <= Tax!Magnitude(Tax!amount)
  BY DEF InclusiveMatchesExclusive, Tax!InclusiveMatchesExclusive
<1> DEFINE a == Tax!amount
           p == rule.percent
           out == [rule EXCEPT !.inclusive = FALSE]
           none == [component |-> 0, added |-> <<>>]
           c == RoundHalfUp(a * p, Hundred + p)
           t == RoundHalfUp((a - c) * p, Hundred)
           under == TaxesOf(<<out>>, a - c, quantity, misc)
<1>1. /\ p \in Nat /\ p <= 2 * Hundred /\ p # None /\ rule.fixed = None
      /\ rule.active /\ rule.categories = {} /\ a \in Int
  BY ShareGiven DEF TwiceThePriceAtMost
<1>2. /\ out.percent = p /\ out.fixed = None /\ ~out.inclusive
      /\ out.active /\ out.categories = {}
  BY <1>1 DEF ChargesGiven, Tax!SomeRules
<1>3. c \in Int /\ t \in Int /\ Magnitude(c - t) <= 1 /\ Magnitude(c) <= Magnitude(a)
  <2> HIDE DEF a, p
  <2> QED BY <1>1, ShareOfAnyRest
<1>4. Due(rule, a, quantity, misc) = c
  <2> HIDE DEF a
  <2>1. RoundHalfUp(a * p, Hundred + p) + 0 = c
    BY <1>3
  <2> HIDE DEF c
  <2> QED BY <1>1, <2>1 DEF Due, Applies, RuleAmount, Divisor
<1> HIDE DEF c
<1>5. Due(out, a - c, quantity, misc) = t
  <2> HIDE DEF a, out, p
  <2>1. RoundHalfUp((a - c) * p, Hundred) + 0 = t
    BY <1>3
  <2> HIDE DEF t
  <2> QED BY <1>1, <1>2, <2>1 DEF Due, Applies, RuleAmount, Divisor
<1> HIDE DEF a, t, out
<1>6. Tax!taxes = IF c = 0 THEN none ELSE [none EXCEPT !.component = 0 + c]
  <2>1. Tax!taxes = TaxesOf(<<rule>>, a, quantity, misc)
    BY SameTaxes DEF Tax!taxes, a
  <2>2. TaxesOf(<<rule>>, a, quantity, misc) = Taxed(c, rule, none)
    BY <1>4, TaxesOfOne
  <2> QED BY <2>1, <2>2 DEF Taxed
<1>7. Tax!taxes.component = c /\ Tax!taxes.added = <<>>
  BY <1>3, <1>6
<1>8. under = IF t = 0 THEN none ELSE [none EXCEPT !.added = Append(<<>>, t)]
  <2>1. under = Taxed(t, out, none)
    BY <1>5, TaxesOfOne
  <2> QED BY <1>2, <2>1 DEF Taxed
<1>9. (IF under.added = <<>> THEN 0 ELSE under.added[1]) = t
  BY <1>3, <1>8
<1> HIDE DEF under
<1>10. Tax!TaxesOf(<<out>>, a - c, quantity, misc) = under
  BY SameTaxes DEF under
<1>11. \A n : Tax!Magnitude(n) = Magnitude(n)
  BY DEF Tax!Magnitude, Magnitude
<1> QED BY <1>3, <1>7, <1>9, <1>10, <1>11 DEF out, a

================================================================================
