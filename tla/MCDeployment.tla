------------------------------- MODULE MCDeployment ----------------------------
(***************************************************************************)
(* A deployment: the process and its modules, the migrations of its        *)
(* database, and the jobs that fill it.  The three share no state, so a    *)
(* behaviour is one of the three.                                          *)
(***************************************************************************)
EXTENDS MCRegistry, Integers

CONSTANTS HORIZON, MaxDay, MaxBatches, Guest, Spare

VARIABLES
  scene,           \* "process", "migrations" or "jobs", for good
  schema, stamp, populated, work,
  today, admin, roles, rates, gst, pricedUntil, guests, demoReservations, stays, batches, last

database == <<schema, stamp, populated, work>>
contents == <<today, admin, roles, rates, gst, pricedUntil, guests, demoReservations, stays,
              batches, last>>
everything == <<vars, scene, database, contents>>

Database == INSTANCE Migrations
Jobs == INSTANCE Seeding

DeploymentInit ==
  scene \in {"process", "migrations", "jobs"} /\ Init /\ Database!Init /\ Jobs!Init

DeploymentNext ==
  /\ UNCHANGED scene
  /\ \/ scene = "process" /\ Next /\ UNCHANGED <<database, contents>>
     \/ scene = "migrations" /\ Database!Next /\ UNCHANGED <<vars, contents>>
     \/ scene = "jobs" /\ Jobs!Next /\ UNCHANGED <<vars, database>>

(* A start and a command that are under way go on.                         *)
DeploymentSpec ==
  /\ DeploymentInit /\ [][DeploymentNext]_everything
  /\ Fairness
  /\ WF_database(Database!Execute \/ Database!Commit)

--------------------------------------------------------------------------------
(* The stamp of the database says what schema it has.                      *)
StampMatchesSchema == Database!StampMatchesSchema

(* Every migration command can be carried out.                             *)
CommandsFinish == Database!CommandsFinish

(* Of the jobs and the staff, only the undo of a check-out brings two      *)
(* sample stays into one room.                                             *)
OnlyUndoneCheckOutSharesRooms == Jobs!OnlyUndoneCheckOutSharesRooms

(* The jobs make one demo reservation at most.                             *)
OneDemoReservation == Jobs!OneDemoReservation

================================================================================
