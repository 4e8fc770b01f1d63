------------------------------- MODULE RoomPairing -----------------------------
(***************************************************************************)
(* Pairing adjoining rooms, lock by lock (set_adjoining_room of            *)
(* app/modules/inventory), with several administrators at work.  Inventory *)
(* treats one pairing as one step; here it is the rows the request locks   *)
(* in turn and what its session believes they hold.                        *)
(*                                                                         *)
(* The session's identity map matters: update_room and deactivate_room     *)
(* load the room before anything is locked, and SELECT ... FOR UPDATE of a *)
(* row already loaded returns the object with the attributes it had.  The  *)
(* partner is not loaded with it: adjoining_room refers from rooms to      *)
(* rooms and names no join_depth, so no join is emitted for it.            *)
(***************************************************************************)
EXTENDS FiniteSets

CONSTANTS
  Room, None, Session,
  Asked            \* bound: the pairings asked for, <<room, partner or None>>

VARIABLES
  adjoining,       \* [Room -> Room \cup {None}], committed
  lock,            \* [Room -> Session \cup {None}]
  req              \* [Session -> request]

vars == <<adjoining, lock, req>>

Empty == [q \in {} |-> None]
Overlay(f, g) == [q \in DOMAIN f \cup DOMAIN g |-> IF q \in DOMAIN g THEN g[q] ELSE f[q]]
One(q, v) == [x \in {q} |-> v]

(* loaded: the values of the rows in the identity map; set: the values the *)
(* request has given them since.                                           *)
Idle == [at |-> "idle", room |-> None, target |-> None, loaded |-> Empty, set |-> Empty]

Value(c, q) == IF q \in DOMAIN c.set THEN c.set[q] ELSE c.loaded[q]

(* A row that is not in the identity map yet is loaded as it is now.       *)
Read(c, q) ==
  IF q \in DOMAIN c.loaded THEN c ELSE [c EXCEPT !.loaded = Overlay(@, One(q, adjoining[q]))]

(* The row a request locks next.                                           *)
Wanted(s) ==
  LET c == req[s] IN
  CASE c.at = "room" -> c.room
    [] c.at = "old" -> Value(c, c.room)
    [] c.at = "target" -> c.target
    [] c.at = "third" -> Value(c, c.target)
    [] OTHER -> None

Free(s, q) == lock[q] \in {None, s}

(* _lock_room of the wanted row; the request goes on as c.                 *)
Lock(s, c) ==
  /\ Wanted(s) # None
  /\ Free(s, Wanted(s))
  /\ lock' = [lock EXCEPT ![Wanted(s)] = s]
  /\ req' = [req EXCEPT ![s] = c]
  /\ UNCHANGED adjoining

(* A room is paired, un-paired or deactivated: it is loaded by get_room.   *)
Start(s, r, p) ==
  /\ req[s] = Idle
  /\ req' = [req EXCEPT ![s] =
       [Idle EXCEPT !.at = "room", !.room = r, !.target = p,
                    !.loaded = One(r, adjoining[r])]]
  /\ UNCHANGED <<adjoining, lock>>

AfterDetaching(c) ==
  IF c.target = None THEN [c EXCEPT !.at = "write", !.set = Overlay(@, One(c.room, None))]
  ELSE [c EXCEPT !.at = "target"]

Joined(c) ==
  [c EXCEPT !.at = "write",
            !.set = Overlay(@, [q \in {c.room, c.target} |->
                                  IF q = c.room THEN c.target ELSE c.room])]

LockRoom(s) ==
  LET c == Read(req[s], req[s].room)
      p == Value(c, c.room)
  IN  /\ req[s].at = "room"
      /\ Lock(s, IF p = c.target THEN [c EXCEPT !.at = "write"]
                 ELSE IF p # None THEN [c EXCEPT !.at = "old"]
                 ELSE AfterDetaching(c))

LockOld(s) ==
  LET q == Wanted(s)
      c == Read(req[s], q)
  IN  /\ req[s].at = "old"
      /\ Lock(s, AfterDetaching(
           IF Value(c, q) = c.room THEN [c EXCEPT !.set = Overlay(@, One(q, None))] ELSE c))

LockTarget(s) ==
  LET c == Read(req[s], req[s].target)
      third == Value(c, c.target)
  IN  /\ req[s].at = "target"
      /\ req[s].target # req[s].room
      /\ Lock(s, IF third \in {None, c.room} THEN Joined(c) ELSE [c EXCEPT !.at = "third"])

(* MUTANT of LockThird: the third room keeps its partner.                  *)
LockThirdOnly(s) ==
  /\ req[s].at = "third"
  /\ Lock(s, Joined(Read(req[s], Wanted(s))))

LockThird(s) ==
  LET q == Wanted(s)
      c == Read(req[s], q)
  IN  /\ req[s].at = "third"
      /\ Lock(s, Joined(
           IF Value(c, q) = c.target THEN [c EXCEPT !.set = Overlay(@, One(q, None))] ELSE c))

(* MUTANT of Unlocked: the locks outlive the transaction.                  *)
NothingUnlocked(s) == lock

Unlocked(s) == [q \in Room |-> IF lock[q] = s THEN None ELSE lock[q]]

(* The flush writes the attributes that differ from what was loaded.       *)
Changes(c) == [q \in {x \in DOMAIN c.set : c.set[x] # c.loaded[x]} |-> c.set[q]]

Commit(s) ==
  /\ req[s].at = "write"
  /\ adjoining' = Overlay(adjoining, Changes(req[s]))
  /\ lock' = Unlocked(s)
  /\ req' = [req EXCEPT ![s] = Idle]

Rollback(s) ==
  /\ lock' = Unlocked(s)
  /\ req' = [req EXCEPT ![s] = Idle]
  /\ UNCHANGED adjoining

(* A room cannot adjoin itself.                                            *)
Refuse(s) == req[s].at = "target" /\ req[s].target = req[s].room /\ Rollback(s)

WaitsFor(s, o) ==
  /\ o \notin {s, None}
  /\ Wanted(s) # None
  /\ lock[Wanted(s)] = o

DeadlockVictim(s) ==
  /\ \E C \in SUBSET Session : s \in C /\ \A t \in C : \E o \in C : WaitsFor(t, o)
  /\ Rollback(s)

Init ==
  /\ adjoining = [r \in Room |-> None]
  /\ lock = [r \in Room |-> None]
  /\ req = [s \in Session |-> Idle]

Proceed(s) ==
  LockRoom(s) \/ LockOld(s) \/ LockTarget(s) \/ LockThird(s) \/ Commit(s) \/ Refuse(s)

Act(s) ==
  \/ \E q \in Asked : Start(s, q[1], q[2])
  \/ Proceed(s) \/ DeadlockVictim(s)

Next == \E s \in Session : Act(s)

Spec == Init /\ [][Next]_vars

(* A thread runs its request on, waiters of a row get it in turn, and the  *)
(* database looks for deadlocks.                                           *)
FairSpec == Spec /\ \A s \in Session : SF_vars(Proceed(s)) /\ WF_vars(DeadlockVictim(s))

--------------------------------------------------------------------------------
(* Properties.                                                             *)

(* Pairs are "kept symmetric on both sides" (set_adjoining_room).          *)
PairsSymmetric ==
  \A r \in Room : adjoining[r] # None =>
    adjoining[r] # r /\ adjoining[adjoining[r]] = r

(* The atomic pairing that Inventory works with.                           *)
Atomically(r, p) ==
  [q \in Room |->
     IF q = r THEN p
     ELSE IF q = p THEN r
     ELSE IF adjoining[q] \in {r, p} \ {None} /\ adjoining[adjoining[q]] = q THEN None
     ELSE adjoining[q]]

(* The lock-by-lock procedure, run alone, does in its commit what the one  *)
(* step of Inventory does (Paired): the abstraction there loses nothing    *)
(* but the races.                                                          *)
AtomicStep ==
  adjoining' # adjoining =>
    \E s \in Session : adjoining' = Atomically(req[s].room, req[s].target)

PairsAtomically == [][AtomicStep]_vars

(* Every pairing ends, in a commit, a refusal or as a deadlock's victim,   *)
(* although the rows are locked in no common order (_lock_room).           *)
PairingsFinish == \A s \in Session : req[s] # Idle ~> req[s] = Idle

================================================================================
