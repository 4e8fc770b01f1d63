-------------------------------- MODULE Registry -------------------------------
(***************************************************************************)
(* The module registry (core/registry.py) and the event bus                *)
(* (core/events.py).  A process starts with the modules its settings       *)
(* enable, loads them in dependency order, each registering its services,  *)
(* its event handlers and its router, and then mounts the raw routes.      *)
(* While it is up, a request publishes an event: the handlers run inside   *)
(* the request's session, one after the other, and one that raises is      *)
(* swallowed.                                                              *)
(***************************************************************************)
EXTENDS Sequences, FiniteSets, SequencesExt

CONSTANTS
  Enabled,         \* bound: the sets of modules a process is started with
  None

(* MUTANT of frontdeskDependencies: billing is not named.                  *)
frontdeskWithoutBilling == {"auth", "reservations", "inventory"}

frontdeskDependencies == {"auth", "reservations", "inventory", "billing"}

(* MUTANT of reservationsDependencies: billing is, which needs reservations. *)
reservationsWithBilling == {"auth", "inventory", "rates", "guests", "availability", "billing"}

reservationsDependencies == {"auth", "inventory", "rates", "guests", "availability"}

(* The dependencies each package declares in its Module(...).              *)
dependencies ==
  [auth |-> {}, inventory |-> {"auth"}, guests |-> {"auth"}, audit |-> {"auth"},
   rates |-> {"auth", "inventory"},
   availability |-> {"auth", "inventory", "rates"},
   reservations |-> reservationsDependencies,
   billing |-> {"auth", "reservations"},
   frontdesk |-> frontdeskDependencies,
   housekeeping |-> {"auth", "inventory", "frontdesk"},
   reports |-> {"auth", "inventory", "reservations"},
   webui |-> {}]

Module == DOMAIN dependencies

ASSUME EnabledAssumption == Enabled \subseteq SUBSET Module

Provides(m) ==
  CASE m = "availability" -> {"AvailabilityService"}
    [] m = "billing"      -> {"FolioService"}
    [] m = "rates"        -> {"RatesService"}
    [] OTHER              -> {}

(* The interfaces a module looks up with get_service.                      *)
Consumes(m) ==
  CASE m = "reservations" -> {"AvailabilityService"}
    [] m = "frontdesk"    -> {"FolioService", "RatesService"}
    [] OTHER              -> {}

EventHandlers(m) ==
  CASE m = "audit"        -> {<<"Event", m>>}
    [] m = "housekeeping" -> {<<"GuestCheckedOut", m>>}
    [] OTHER              -> {}

publisher ==
  [ReservationConfirmed |-> "reservations", GuestCheckedOut |-> "frontdesk",
   ActionUndone |-> "audit"]

VARIABLES
  process,         \* "down", "loading" or "up"
  enabled,         \* the modules of the settings
  loaded,          \* the modules whose registrations are done
  services,        \* the interfaces that have an implementation
  subscribers,     \* pairs <<event type, module of the handler>>
  catchAll,        \* the single-page application answers every other path
  shadowed,        \* the modules whose router came after the catch-all route
  request,         \* the event being published, or None
  failed           \* a request was answered with an error because of a handler

registries == <<loaded, services, subscribers, catchAll, shadowed>>
vars == <<process, enabled, registries, request, failed>>

--------------------------------------------------------------------------------
(* Start-up.                                                               *)

(* A dependency that is not enabled stops the process (ModuleConfigError). *)
Start(set) ==
  /\ process = "down"
  /\ \A m \in set : dependencies[m] \subseteq set
  /\ enabled' = set
  /\ process' = "loading"
  /\ UNCHANGED <<registries, request, failed>>

(* The sort itself is the standard library's (TopologicalSorter of         *)
(* graphlib), modelled by what static_order gives: some order in which a   *)
(* module comes after all its dependencies.                                *)
Ready(m) == m \in enabled \ loaded /\ dependencies[m] \subseteq loaded

(* One turn of the loop of build_app and of bootstrap.  The API modules    *)
(* have a router, webui has none.                                          *)
Load(m) ==
  /\ process = "loading"
  /\ Ready(m)
  /\ loaded' = loaded \cup {m}
  /\ services' = services \cup Provides(m)
  /\ subscribers' = subscribers \cup EventHandlers(m)
  /\ shadowed' = IF catchAll /\ m # "webui" THEN shadowed \cup {m} ELSE shadowed
  /\ UNCHANGED <<process, enabled, catchAll, request, failed>>

(* MUTANT of Mount: each module is mounted as soon as it is loaded.        *)
MountAtOnce ==
  /\ process = "loading"
  /\ catchAll' = ("webui" \in loaded)
  /\ process' = IF loaded = enabled THEN "up" ELSE process
  /\ UNCHANGED <<enabled, loaded, services, subscribers, shadowed, request, failed>>

(* The second pass.                                                        *)
Mount ==
  /\ process = "loading"
  /\ loaded = enabled
  /\ catchAll' = ("webui" \in loaded)
  /\ process' = "up"
  /\ UNCHANGED <<enabled, loaded, services, subscribers, shadowed, request, failed>>

(* A process that stops or is killed loses its registries, and the         *)
(* database rolls its open transaction back.                               *)
Stop ==
  /\ process \in {"loading", "up"}
  /\ process' = "down"
  /\ enabled' = {}
  /\ loaded' = {} /\ services' = {} /\ subscribers' = {} /\ catchAll' = FALSE /\ shadowed' = {}
  /\ request' = None
  /\ UNCHANGED failed

--------------------------------------------------------------------------------
(* Events.                                                                 *)

Handlers(type) == SetToSeq({h \in Module : <<type, h>> \in subscribers})

(* MUTANT of InOrder: the base class first.                                *)
BaseFirst(type) == Handlers("Event") \o Handlers(type)

(* The method resolution order: an event's own type, then the base class.  *)
InOrder(type) == Handlers(type) \o Handlers("Event")

Publish(type) ==
  /\ process = "up"
  /\ publisher[type] \in loaded
  /\ request = None
  /\ request' = [event |-> type, todo |-> InOrder(type), context |-> {}, ran |-> {},
                 row |-> None, usable |-> TRUE]
  /\ UNCHANGED <<process, enabled, registries, failed>>

NextHandler == Head(request.todo)

(* The recorder keeps the context as it is when it runs; other handlers    *)
(* add to it.                                                              *)
Handle ==
  /\ request # None /\ request.todo # <<>> /\ request.usable
  /\ request' = [request EXCEPT
       !.todo = Tail(@),
       !.ran = @ \cup {NextHandler},
       !.row = IF NextHandler = "audit"
                 THEN [event |-> request.event, context |-> request.context] ELSE @,
       !.context = @ \cup {NextHandler}]
  /\ UNCHANGED <<process, enabled, registries, failed>>

(* A handler that raises is logged and the next one called.  When the      *)
(* database refused its statement the session can do nothing more until it *)
(* is rolled back, and every handler after it raises too.                  *)
HandlerRaises(usable) ==
  /\ request # None /\ request.todo # <<>>
  /\ usable => request.usable
  /\ request' = [request EXCEPT !.todo = Tail(@), !.usable = usable]
  /\ UNCHANGED <<process, enabled, registries, failed>>

(* The middleware commits the session, if it can be committed.             *)
Finish ==
  /\ request # None /\ request.todo = <<>>
  /\ request' = None
  /\ failed' = ~request.usable
  /\ UNCHANGED <<process, enabled, registries>>

--------------------------------------------------------------------------------
Init ==
  /\ process = "down" /\ enabled = {}
  /\ loaded = {} /\ services = {} /\ subscribers = {} /\ catchAll = FALSE /\ shadowed = {}
  /\ request = None /\ failed = FALSE

Next ==
  \/ \E set \in Enabled : Start(set)
  \/ \E m \in Module : Load(m)
  \/ Mount
  \/ Stop
  \/ \E type \in DOMAIN publisher : Publish(type)
  \/ Handle
  \/ \E usable \in BOOLEAN : HandlerRaises(usable)
  \/ Finish

Spec == Init /\ [][Next]_vars

(* A process that is starting goes on, unless it is stopped.               *)
Fairness == WF_vars(Mount \/ \E m \in Module : Load(m))
FairSpec == Spec /\ Fairness

--------------------------------------------------------------------------------
(* Properties.                                                             *)

(* Whatever set of modules is enabled, at every point of a start that may  *)
(* be interrupted, each get_service of a loaded module finds an            *)
(* implementation: the modules it declares as dependencies, direct or not, *)
(* include one that registers it (frontdesk reaches RatesService through   *)
(* reservations).                                                          *)
LookupsSucceed == \A m \in loaded : Consumes(m) \subseteq services

(* The catch-all route comes after every module's router ("so they cannot  *)
(* shadow an earlier module's routes", build_app).                         *)
NoRouteShadowed == shadowed = {}

(* An audit row holds what every other handler of the event that ran put   *)
(* into the undo context ("this dict is fully populated by the time it     *)
(* gets persisted", Event).                                                *)
RecordedContextComplete ==
  request # None /\ request.row # None => request.ran \ {"audit"} \subseteq request.row.context

(* Every set of modules whose dependencies are enabled starts: the order   *)
(* exists, so the declared dependencies have no cycle.                     *)
StartCompletes == process = "loading" ~> process # "loading"

(* A handler that fails does not make its request fail ("one bad           *)
(* subscriber must not abort the business operation", core/events.py).     *)
OperationSurvivesHandlers == ~failed

================================================================================
