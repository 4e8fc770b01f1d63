---------------------------- MODULE MCRequestsFinish ---------------------------
(***************************************************************************)
(* The requests that lock rows one by one: bookings, or pairings of rooms. *)
(* The two lock rows of different tables, so either is checked with the    *)
(* other at rest.  Pairings are made by one administrator over all rooms,  *)
(* or by two at the same time over three of them.                          *)
(***************************************************************************)
EXTENDS MCReservations

CONSTANTS Administrator, r3, r4

VARIABLES
  scene,           \* "bookings", "one pairing" or "two pairings", for good
  adjoining, rowLock, req

pairing == <<adjoining, rowLock, req>>
everything == <<vars, scene, pairing>>

OnlyOne == CHOOSE a \in Administrator : TRUE

Alone == INSTANCE RoomPairing WITH
  Session <- {OnlyOne}, lock <- rowLock, Asked <- Room \X (Room \cup {None})
Three == INSTANCE RoomPairing WITH
  Session <- Administrator, lock <- rowLock, Room <- {r1, r2, r3},
  Asked <- {<<r1, r2>>, <<r2, r3>>, <<r3, r1>>, <<r2, None>>}

(* Two of the rooms are sold; the others are inactive.                     *)
TwoActive ==
  [r \in Room |-> [type |-> IF r = r1 THEN std ELSE suite, active |-> r \in {r1, r2},
                  adjoining |-> None]]

ScenesInit ==
  /\ Init
  /\ \/ scene = "one pairing" /\ Alone!Init
     \/ scene \in {"bookings", "two pairings"} /\ Three!Init

ScenesNext ==
  /\ UNCHANGED scene
  /\ \/ scene = "bookings" /\ Next /\ UNCHANGED pairing
     \/ scene = "one pairing" /\ Alone!Next /\ UNCHANGED vars
     \/ scene = "two pairings" /\ Three!Next /\ UNCHANGED vars

ScenesSpec ==
  /\ ScenesInit /\ [][ScenesNext]_everything
  /\ Fairness
  /\ \A a \in Administrator :
       /\ SF_pairing(scene = "two pairings" /\ Three!Proceed(a))
       /\ WF_pairing(scene = "two pairings" /\ Three!DeadlockVictim(a))

Pairs(a) == scene = "two pairings" /\ req[a] # Three!Idle

(* Two pairings at a time: each ends.                                      *)
PairingsFinish == \A a \in Administrator : Pairs(a) ~> ~Pairs(a)

(* One pairing at a time: both rooms of a pair name each other.            *)
PairsSymmetric == scene = "one pairing" => Alone!PairsSymmetric

(* The same of two at a time, which does not hold.                         *)
OverlappingPairsSymmetric == scene = "two pairings" => Three!PairsSymmetric

(* One pairing at a time: locked row by row, it does what Inventory does   *)
(* in one step.                                                            *)
PairsAtomically == [][scene = "one pairing" => Alone!AtomicStep]_pairing

================================================================================
