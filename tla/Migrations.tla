------------------------------- MODULE Migrations ------------------------------
(***************************************************************************)
(* The database migrations (migrations/versions, one history of six        *)
(* revisions) as Alembic runs them (migrations/env.py): every statement of *)
(* an upgrade or a downgrade, over however many revisions, and the stamp,  *)
(* in one transaction.  Columns and indexes a table is created with are    *)
(* not told apart; tables, foreign keys and added columns are.             *)
(***************************************************************************)
EXTENDS Naturals, Sequences, SequencesExt

CONSTANT None

VARIABLES
  schema,          \* the committed schema: [tables, columns, keys, defaults]
  stamp,           \* the revision in alembic_version, 0 for none
  populated,       \* the tables hold rows
  work             \* the running command: [schema, stamp, todo], or None

vars == <<schema, stamp, populated, work>>

--------------------------------------------------------------------------------
(* Statements.                                                             *)

Create(t, refs) == [op |-> "create table", table |-> t, refs |-> refs]
Drop(t) == [op |-> "drop table", table |-> t]
Add(t, c, ref, required, default) ==
  [op |-> "add column", table |-> t, column |-> c, ref |-> ref, required |-> required,
   default |-> default]
Optional(t, c) == Add(t, c, None, FALSE, FALSE)
Reference(t, c, ref) == Add(t, c, ref, FALSE, FALSE)
DropDefault(t, c) == [op |-> "drop default", table |-> t, column |-> c]
DropColumn(t, c) == [op |-> "drop column", table |-> t, column |-> c]
Stamp(r) == [op |-> "stamp", to |-> r]

(* MUTANT of Required: no default for the rows that are there.             *)
RequiredOfNewRows(t, c) == Add(t, c, None, TRUE, FALSE)

Required(t, c) == Add(t, c, None, TRUE, TRUE)

Key(t, c, ref) == [from |-> t, column |-> c, to |-> ref]

NoSchema == [tables |-> {}, columns |-> {}, keys |-> {}, defaults |-> {}]

(* What PostgreSQL asks of a statement.                                    *)
Accepts(st, sch, rows) ==
  CASE st.op = "create table" ->
         st.table \notin sch.tables /\ st.refs \subseteq sch.tables \cup {st.table}
    [] st.op = "drop table"   ->
         st.table \in sch.tables /\ \A k \in sch.keys : k.to = st.table => k.from = st.table
    [] st.op = "add column"   ->
         /\ st.table \in sch.tables /\ <<st.table, st.column>> \notin sch.columns
         /\ st.ref \in sch.tables \cup {None}
         /\ st.required /\ rows => st.default
    [] st.op = "drop default" -> <<st.table, st.column>> \in sch.defaults
    [] st.op = "drop column"  -> <<st.table, st.column>> \in sch.columns
    [] st.op = "stamp"        -> TRUE

Apply(st, sch) ==
  CASE st.op = "create table" ->
         [sch EXCEPT !.tables = @ \cup {st.table},
                     !.keys = @ \cup {Key(st.table, "", r) : r \in st.refs}]
    [] st.op = "drop table"   ->
         [tables |-> sch.tables \ {st.table},
          columns |-> {c \in sch.columns : c[1] # st.table},
          keys |-> {k \in sch.keys : k.from # st.table},
          defaults |-> {c \in sch.defaults : c[1] # st.table}]
    [] st.op = "add column"   ->
         [sch EXCEPT !.columns = @ \cup {<<st.table, st.column>>},
                     !.keys = IF st.ref = None THEN @
                              ELSE @ \cup {Key(st.table, st.column, st.ref)},
                     !.defaults = IF st.default THEN @ \cup {<<st.table, st.column>>} ELSE @]
    [] st.op = "drop default" -> [sch EXCEPT !.defaults = @ \ {<<st.table, st.column>>}]
    [] st.op = "drop column"  ->
         [sch EXCEPT !.columns = @ \ {<<st.table, st.column>>},
                     !.keys = {k \in @ : <<k.from, k.column>> # <<st.table, st.column>>},
                     !.defaults = @ \ {<<st.table, st.column>>}]
    [] st.op = "stamp"        -> sch

--------------------------------------------------------------------------------
(* The revisions.                                                          *)

initialTables ==
  << Create("audit_events", {}), Create("auth_permissions", {}), Create("auth_roles", {}),
     Create("auth_users", {}), Create("bill_tax_rules", {}), Create("guest_companies", {}),
     Create("inv_property", {}), Create("inv_room_types", {}),
     Create("rate_plans", {"rate_plans"}),
     Create("auth_role_permissions", {"auth_permissions", "auth_roles"}),
     Create("auth_user_roles", {"auth_roles", "auth_users"}) >>

initialGuestsAndRooms ==
  << Create("avail_inventory_ledger", {"inv_room_types"}), Create("guests", {"guest_companies"}),
     Create("inv_rooms", {"inv_room_types"}),
     Create("rate_calendar", {"rate_plans", "inv_room_types"}),
     Create("rate_plan_room_types", {"rate_plans", "inv_room_types"}),
     Create("rate_restrictions", {"rate_plans", "inv_room_types"}),
     Create("inv_room_blocks", {"inv_rooms", "inv_room_types"}),
     Create("res_reservations", {"guest_companies", "guests"}) >>

initialStays ==
  << Create("bill_folios", {"res_reservations"}),
     Create("res_reservation_rooms",
            {"inv_rooms", "rate_plans", "res_reservations", "inv_room_types"}),
     Create("bill_folio_lines", {"bill_folios", "bill_folio_lines"}),
     Create("bill_invoices", {"bill_folios"}),
     Create("fd_room_assignment_log", {"inv_rooms", "res_reservation_rooms"}),
     Create("res_reservation_room_nights", {"res_reservation_rooms"}),
     Create("bill_payments", {"bill_folio_lines"}) >>

initialDowngrade ==
  [k \in 1..26 |-> Drop(
    << "bill_payments", "res_reservation_room_nights", "fd_room_assignment_log",
       "bill_invoices", "bill_folio_lines", "res_reservation_rooms", "bill_folios",
       "res_reservations", "inv_room_blocks", "rate_restrictions", "rate_plan_room_types",
       "rate_calendar", "inv_rooms", "guests", "avail_inventory_ledger", "auth_user_roles",
       "auth_role_permissions", "rate_plans", "inv_room_types", "inv_property",
       "guest_companies", "bill_tax_rules", "auth_users", "auth_roles", "auth_permissions",
       "audit_events" >>[k])]

roomAdjoining == << Reference("inv_rooms", "adjoining_room_id", "inv_rooms") >>

taxInclusive ==
  << Required("bill_folio_lines", "tax_component_minor"),
     Required("bill_tax_rules", "tax_inclusive"),
     DropDefault("bill_folio_lines", "tax_component_minor"),
     DropDefault("bill_tax_rules", "tax_inclusive") >>

addHousekeeping ==
  << Create("hk_room_state", {"inv_rooms"}), Create("hk_tasks", {"auth_users", "inv_rooms"}) >>

addRoomViews ==
  << Create("inv_room_views", {}), Reference("inv_rooms", "view_id", "inv_room_views") >>

timestamps == << "created_at", "updated_at" >>

addUndoSupport ==
  << Optional("audit_events", "undone_at"), Optional("audit_events", "undone_by_actor_id") >>
  \o [k \in 1..2 |-> Required("res_reservation_rooms", timestamps[k])]
  \o [k \in 1..2 |-> Required("fd_room_assignment_log", timestamps[k])]
  \o [k \in 1..2 |-> DropDefault("res_reservation_rooms", timestamps[k])]
  \o [k \in 1..2 |-> DropDefault("fd_room_assignment_log", timestamps[k])]

(* MUTANT of undoDowngrade: the stamps of the undo stay behind.            *)
undoDowngradePartly ==
  << DropColumn("fd_room_assignment_log", "updated_at"),
     DropColumn("fd_room_assignment_log", "created_at"),
     DropColumn("res_reservation_rooms", "updated_at"),
     DropColumn("res_reservation_rooms", "created_at"),
     DropColumn("audit_events", "undone_at") >>

undoDowngrade ==
  << DropColumn("fd_room_assignment_log", "updated_at"),
     DropColumn("fd_room_assignment_log", "created_at"),
     DropColumn("res_reservation_rooms", "updated_at"),
     DropColumn("res_reservation_rooms", "created_at"),
     DropColumn("audit_events", "undone_by_actor_id"), DropColumn("audit_events", "undone_at") >>

upgrade ==
  << initialTables \o initialGuestsAndRooms \o initialStays, roomAdjoining, taxInclusive,
     addHousekeeping, addRoomViews, addUndoSupport >>

downgrade ==
  << initialDowngrade,
     << DropColumn("inv_rooms", "adjoining_room_id") >>,
     << DropColumn("bill_tax_rules", "tax_inclusive"),
        DropColumn("bill_folio_lines", "tax_component_minor") >>,
     << Drop("hk_tasks"), Drop("hk_room_state") >>,
     << DropColumn("inv_rooms", "view_id"), Drop("inv_room_views") >>,
     undoDowngrade >>

Latest == Len(upgrade)

--------------------------------------------------------------------------------
(* Commands.                                                               *)

Upgrades(from, to) ==
  FlattenSeq([k \in 1..(to - from) |-> Append(upgrade[from + k], Stamp(from + k))])
Downgrades(from, to) ==
  FlattenSeq([k \in 1..(from - to) |-> Append(downgrade[from - k + 1], Stamp(from - k))])

Begin(target) ==
  /\ work = None
  /\ target # stamp
  /\ work' = [schema |-> schema, stamp |-> stamp,
              todo |-> IF target > stamp THEN Upgrades(stamp, target)
                                         ELSE Downgrades(stamp, target)]
  /\ UNCHANGED <<schema, stamp, populated>>

(* One statement, in the open transaction.                                 *)
Execute ==
  /\ work # None /\ work.todo # <<>>
  /\ LET st == Head(work.todo) IN
     /\ Accepts(st, work.schema, populated)
     /\ work' = [schema |-> Apply(st, work.schema),
                 stamp |-> IF st.op = "stamp" THEN st.to ELSE work.stamp,
                 todo |-> Tail(work.todo)]
  /\ UNCHANGED <<schema, stamp, populated>>

Commit ==
  /\ work # None /\ work.todo = <<>>
  /\ schema' = work.schema
  /\ stamp' = work.stamp
  /\ populated' = (populated /\ work.stamp > 0)
  /\ work' = None

(* The command is killed, or its connection is lost.                       *)
Crash ==
  /\ work # None
  /\ work' = None
  /\ UNCHANGED <<schema, stamp, populated>>

(* The application fills the tables.                                       *)
Use ==
  /\ work = None
  /\ stamp > 0
  /\ populated' = TRUE
  /\ UNCHANGED <<schema, stamp, work>>

Init == schema = NoSchema /\ stamp = 0 /\ populated = FALSE /\ work = None

Next == (\E target \in 0..Latest : Begin(target)) \/ Execute \/ Commit \/ Crash \/ Use

Spec == Init /\ [][Next]_vars

(* A command that is running goes on.                                      *)
FairSpec == Spec /\ WF_vars(Execute \/ Commit)

--------------------------------------------------------------------------------
(* Properties.                                                             *)

(* The schema a fresh database has at a revision.                          *)
SchemaAt ==
  [r \in 0..Latest |-> FoldLeft(LAMBDA sch, st : Apply(st, sch), NoSchema, Upgrades(0, r))]

(* The stamp says what schema the database has, after any sequence of      *)
(* upgrades and downgrades, some of them interrupted: each downgrade       *)
(* takes back what its upgrade did, and a crash leaves nothing half done.  *)
StampMatchesSchema == schema = SchemaAt[stamp]

(* Every command can be carried out, on an empty database and on one in    *)
(* use: tables come after those they refer to and go before them, and a    *)
(* column that must not be null has a default for the rows there are.      *)
CommandsFinish == work # None ~> work = None

================================================================================
