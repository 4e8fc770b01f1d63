----------------------------- MODULE MCAdministration --------------------------
(***************************************************************************)
(* Administration: the accounts and roles, with two requests at a time;    *)
(* or the rate plans, one request at a time, within three bounds: plans    *)
(* that derive from each other, one plan with every kind of restriction,   *)
(* one plan for two room types.  A behaviour is one of the four; accounts  *)
(* and rates have no state in common.                                      *)
(***************************************************************************)
EXTENDS MCAccounts

CONSTANTS
  Plan, RoomType, Day, Amount, Adjustment, Edit, MAX_DERIVE_DEPTH,
  p1               \* the plan of the scenes with one

VARIABLES
  scene,           \* "accounts", "plans", "restrictions" or "room types", for good
  plans, offered, parent, adjustment, sells, calendar, restriction

rates == <<plans, offered, parent, adjustment, sells, calendar, restriction>>
everything == <<vars, scene, rates>>

Plans == INSTANCE Rates WITH active <- offered

TenPercentMore == {[mode |-> "percent", value |-> 10]}
EveryRestriction ==
  {[closed |-> TRUE], [closed |-> FALSE], [closed_to_arrival |-> TRUE],
   [closed_to_departure |-> TRUE, closed_to_arrival |-> FALSE], [min_stay |-> 2],
   [max_stay |-> 1, min_stay |-> 1]}

AdministrationInit ==
  /\ Init /\ Plans!Init
  /\ scene \in {"accounts", "plans", "restrictions", "room types"}

(* Plans that derive from each other, all for one type and one night; one  *)
(* plan over three days, with restrictions on one type, or for two types.  *)
AskRates ==
  \/ scene = "plans" /\ Plans!Ask(Plan, {{1}}, {1, 2}, {5}, {})
  \/ scene = "restrictions" /\ Plans!Ask({p1}, {{}, {1}}, Day, {5}, Edit)
  \/ scene = "room types" /\ Plans!Ask({p1}, SUBSET RoomType, Day, Amount, {})

AdministrationNext ==
  /\ UNCHANGED scene
  /\ \/ scene = "accounts" /\ Next /\ UNCHANGED rates
     \/ AskRates /\ UNCHANGED vars

AdministrationSpec == AdministrationInit /\ [][AdministrationNext]_everything

--------------------------------------------------------------------------------
(* Only a derivation longer than the code follows, or a cycle, has no      *)
(* price.                                                                  *)
OnlyDeepPlansRefused == Plans!OnlyDeepPlansRefused

(* What a search offers is what a booking is quoted.                       *)
OffersAreQuoted == Plans!OffersAreQuoted

(* The charge for an upgrade covers the dearer rate.                       *)
UpgradeCoversTheRise == Plans!UpgradeCoversTheRise

================================================================================
