---------------------------------- MODULE Rates --------------------------------
(***************************************************************************)
(* Rate plans, nightly rates and restrictions (app/modules/rates), and     *)
(* what availability makes of them: the offers of a search, the quote a    *)
(* booking is made from, and the suggested price of an upgrade.  A plan    *)
(* may derive its rates from another's, by an amount or a percentage.      *)
(* Each request runs on its own; amounts are in minor units.               *)
(***************************************************************************)
EXTENDS DateRange, FiniteSets, FiniteSetsExt

CONSTANTS
  Plan, RoomType,
  Day,              \* bound: the days with rates and restrictions
  Amount,           \* bound: the amounts set in the calendar, naturals
  Adjustment,       \* bound: the ways to derive: [mode: "percent" or "amount", value: Int]
  Edit,             \* bound: the restrictions one request sets, each a record
  MAX_DERIVE_DEPTH, \* 5 in the code
  None

VARIABLES
  plans,           \* the plans that exist
  active,          \* those offered in a search
  parent,          \* [Plan -> Plan \cup {None}]
  adjustment,      \* [Plan -> Adjustment \cup {None}]
  sells,           \* pairs <<plan, room type>>
  calendar,        \* [Plan -> [RoomType -> [Day -> Amount \cup {Unpriced}]]]
  restriction      \* [Plan -> [RoomType -> [Day -> a row of rate_restrictions]]]

vars == <<plans, active, parent, adjustment, sells, calendar, restriction>>

(* Two answers that are no price.                                          *)
Unpriced == -1
TooDeep == -2

(* The defaults of a row; a day without a row restricts nothing either.    *)
NoRestriction ==
  [closed |-> FALSE, closed_to_arrival |-> FALSE, closed_to_departure |-> FALSE,
   min_stay |-> 1, max_stay |-> None]

--------------------------------------------------------------------------------
(* Requests.                                                               *)

is_derived(p) == parent[p] # None

(* A derived plan needs a mode and a value when it is created.             *)
CreatePlan(p, up, adjust, types) ==
  /\ p \notin plans
  /\ up \in plans \cup {None}
  /\ up # None => adjust # None
  /\ plans' = plans \cup {p}
  /\ active' = active \cup {p}
  /\ parent' = [parent EXCEPT ![p] = up]
  /\ adjustment' = [adjustment EXCEPT ![p] = adjust]
  /\ sells' = sells \cup {<<p, t>> : t \in types}
  /\ UNCHANGED <<calendar, restriction>>

(* A plan's own parent must be another plan; nothing else is looked at.    *)
(* The calendar rows of a plan that becomes derived stay.                  *)
UpdatePlan(p, up, adjust, act, types) ==
  /\ p \in plans
  /\ up \in (plans \cup {None}) \ {p}
  /\ parent' = [parent EXCEPT ![p] = up]
  /\ adjustment' = [adjustment EXCEPT ![p] = adjust]
  /\ active' = IF act THEN active \cup {p} ELSE active \ {p}
  /\ sells' = {s \in sells : s[1] # p} \cup {<<p, t>> : t \in types}
  /\ UNCHANGED <<plans, calendar, restriction>>

SetRates(p, t, start, end, amount) ==
  /\ p \in plans
  /\ ~is_derived(p)
  /\ <<p, t>> \in sells
  /\ calendar' = [calendar EXCEPT ![p][t] =
       [d \in Day |-> IF d \in Nights(start, end) THEN amount ELSE @[d]]]
  /\ UNCHANGED <<plans, active, parent, adjustment, sells, restriction>>

(* The fields that are not given stay as they are; none can be lifted by   *)
(* giving None.                                                            *)
SetRestrictions(p, t, start, end, edit) ==
  LET Edited(row) == [f \in DOMAIN row |-> IF f \in DOMAIN edit THEN edit[f] ELSE row[f]]
  IN  /\ p \in plans
      /\ restriction' = [restriction EXCEPT ![p][t] =
           [d \in Day |-> IF d \in Nights(start, end) THEN Edited(@[d]) ELSE @[d]]]
      /\ UNCHANGED <<plans, active, parent, adjustment, sells, calendar>>

--------------------------------------------------------------------------------
(* Prices.                                                                 *)

(* A derived price is rounded half up and is never negative.               *)
Derive(base, adjust) ==
  IF adjust = None THEN base
  ELSE Max2(IF adjust.mode = "amount" THEN base + adjust.value
            ELSE (2 * base * (100 + adjust.value) + 100) \div 200, 0)

(* MUTANT of PriceAt: the chain may be one plan shorter.                   *)
PriceAtShort(depth, p, t, d) ==
  LET f[k \in 0..MAX_DERIVE_DEPTH] ==
        [q \in Plan |->
           IF ~is_derived(q) THEN calendar[q][t][d]
           ELSE IF k <= 1 THEN TooDeep
           ELSE LET base == f[k - 1][parent[q]]
                IN  IF base < 0 THEN base ELSE Derive(base, adjustment[q])]
  IN  f[MAX_DERIVE_DEPTH - depth][p]

(* nightly_amount, at a depth of the derivation.                           *)
PriceAt(depth, p, t, d) ==
  LET f[k \in 0..MAX_DERIVE_DEPTH] ==
        [q \in Plan |->
           IF ~is_derived(q) THEN calendar[q][t][d]
           ELSE IF k = 0 THEN TooDeep
           ELSE LET base == f[k - 1][parent[q]]
                IN  IF base < 0 THEN base ELSE Derive(base, adjustment[q])]
  IN  f[MAX_DERIVE_DEPTH - depth][p]

Price(p, t, d) == PriceAt(0, p, t, d)

Prices(p, t, arrival, departure) == {Price(p, t, d) : d \in Nights(arrival, departure)}

Total(p, t, arrival, departure) ==
  MapThenSumSet(LAMBDA d : Price(p, t, d), Nights(arrival, departure))

(* _restriction_reasons                                                    *)
Reasons(p, t, arrival, departure) ==
  LET row == restriction[p][t]
      first == row[arrival]
      los == NightCount(arrival, departure)
  IN  {"closed" : d \in {n \in Nights(arrival, departure) : row[n].closed}}
      \cup {"closed_to_arrival" : x \in {first.closed_to_arrival} \cap {TRUE}}
      \cup {"min_stay" : x \in {los < first.min_stay} \cap {TRUE}}
      \cup {"max_stay" : x \in {first.max_stay # None /\ los > first.max_stay} \cap {TRUE}}
      \cup {"closed_to_departure" : x \in {row[departure].closed_to_departure} \cap {TRUE}}

--------------------------------------------------------------------------------
(* Search and quote.                                                       *)

Selling(t) == {p \in active : <<p, t>> \in sells}

(* One plan that cannot be resolved fails the whole search.                *)
SearchFails(t, arrival, departure) ==
  \E p \in Selling(t) : TooDeep \in Prices(p, t, arrival, departure)

(* The plans priced on every night, each with what restricts it.           *)
Offers(t, arrival, departure) ==
  {[plan |-> p, total |-> Total(p, t, arrival, departure),
    restrictions |-> Reasons(p, t, arrival, departure)] :
     p \in {q \in Selling(t) : Unpriced \notin Prices(q, t, arrival, departure)}}

(* MUTANT of Quote: a length of stay does not refuse the quote.            *)
QuoteAnyLength(p, t, arrival, departure) ==
  IF /\ p \in plans /\ <<p, t>> \in sells
     /\ Reasons(p, t, arrival, departure) \subseteq {"min_stay", "max_stay"}
     /\ \A a \in Prices(p, t, arrival, departure) : a >= 0
  THEN Total(p, t, arrival, departure)
  ELSE None

(* The total, or None for a refusal.  Whether the plan is active is not    *)
(* looked at.                                                              *)
Quote(p, t, arrival, departure) ==
  IF /\ p \in plans /\ <<p, t>> \in sells
     /\ Reasons(p, t, arrival, departure) = {}
     /\ \A a \in Prices(p, t, arrival, departure) : a >= 0
  THEN Total(p, t, arrival, departure)
  ELSE None

Known(price) == Max2(price, 0)

(* MUTANT of UpgradeDelta: the rooms are swapped.                          *)
DowngradeDelta(p, from, to, arrival, departure) ==
  MapThenSumSet(LAMBDA d : Max2(Known(Price(p, from, d)) - Known(Price(p, to, d)), 0),
                Nights(arrival, departure))

(* price_upgrade: what the dearer nights of the other type cost more; an   *)
(* unpriced night counts as nothing.                                       *)
UpgradeDelta(p, from, to, arrival, departure) ==
  MapThenSumSet(LAMBDA d : Max2(Known(Price(p, to, d)) - Known(Price(p, from, d)), 0),
                Nights(arrival, departure))

--------------------------------------------------------------------------------
Init ==
  /\ plans = {} /\ active = {} /\ sells = {}
  /\ parent = [p \in Plan |-> None]
  /\ adjustment = [p \in Plan |-> None]
  /\ calendar = [p \in Plan |-> [t \in RoomType |-> [d \in Day |-> Unpriced]]]
  /\ restriction = [p \in Plan |-> [t \in RoomType |-> [d \in Day |-> NoRestriction]]]

(* The requests about some of the plans and days.                          *)
Ask(some, offers, days, amounts, edits) ==
  \E p \in some :
    \/ \E up \in some \cup {None}, adjust \in Adjustment \cup {None}, types \in offers :
         \/ CreatePlan(p, up, adjust, types)
         \/ \E act \in BOOLEAN : UpdatePlan(p, up, adjust, act, types)
    \/ \E t \in UNION offers, start, end \in days :
         /\ start < end
         /\ \/ \E amount \in amounts : SetRates(p, t, start, end, amount)
            \/ \E edit \in edits : SetRestrictions(p, t, start, end, edit)

Next == Ask(Plan, SUBSET RoomType, Day, Amount, Edit)

Spec == Init /\ [][Next]_vars

--------------------------------------------------------------------------------
(* Properties.                                                             *)

Stays == {s \in Day \X Day : s[1] < s[2]}

(* Whatever a search offers without a restriction can be booked at the     *)
(* total it shows, and what it shows with one cannot: search and quote     *)
(* resolve derived prices and restrictions alike (_rate_plan_offers,       *)
(* quote).                                                                 *)
OffersAreQuoted ==
  \A t \in RoomType, s \in Stays :
    SearchFails(t, s[1], s[2]) \/
    \A o \in Offers(t, s[1], s[2]) :
      Quote(o.plan, t, s[1], s[2]) = IF o.restrictions = {} THEN o.total ELSE None

(* The plan k derivations up from p, or None.                              *)
Ancestor(p, k) ==
  LET f[i \in 0..k] == IF i = 0 THEN p ELSE IF f[i - 1] = None THEN None ELSE parent[f[i - 1]]
  IN  f[k]

(* A price is refused as too deep for the plans with more than             *)
(* MAX_DERIVE_DEPTH derivations above them, a cycle among them, and for    *)
(* no other (nightly_amount).                                              *)
OnlyDeepPlansRefused ==
  \A p \in plans, t \in RoomType, d \in Day :
    Price(p, t, d) = TooDeep <=> Ancestor(p, MAX_DERIVE_DEPTH + 1) # None

(* What staff are told to charge for an upgrade is at least what the stay  *)
(* would have cost more in the other type (price_upgrade).                 *)
UpgradeCoversTheRise ==
  \A p \in plans, from, to \in RoomType, s \in Stays :
    (\A d \in Nights(s[1], s[2]) : Price(p, from, d) >= 0 /\ Price(p, to, d) >= 0)
    => UpgradeDelta(p, from, to, s[1], s[2])
         >= Total(p, to, s[1], s[2]) - Total(p, from, s[1], s[2])

(* No plan derives its rates, directly or not, from itself ("A rate plan   *)
(* cannot derive from itself", update_rate_plan).                          *)
NoPlanDerivesFromItself ==
  \A p \in plans : \A k \in 1..Cardinality(Plan) : Ancestor(p, k) # p

================================================================================
