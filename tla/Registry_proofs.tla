----------------------------- MODULE Registry_proofs ---------------------------
(***************************************************************************)
(* Proofs about a deployment.  The module registry: whatever sets of       *)
(* modules a process is started with, and wherever a start is interrupted, *)
(* every lookup finds its service and no route is shadowed by the          *)
(* catch-all; a recorded event has the context its handlers made.  And the *)
(* jobs that fill the database, with the staff at work in between.         *)
(***************************************************************************)
EXTENDS MCDeployment, FiniteSetTheorems, SequenceTheorems, TLAPS

(* A loaded module has its dependencies, as the sort of the library left   *)
(* them, and not only those: what they depend on is loaded as well.        *)
DependenciesLoaded == \A m \in loaded : dependencies[m] \subseteq loaded

(* The order of a start, and what it needs: a process that is down has no  *)
(* registrations, the catch-all is mounted only once everything enabled is *)
(* loaded, and a loaded module has registered what it provides.            *)
StartInvariant ==
  /\ DependenciesLoaded
  /\ loaded \subseteq enabled
  /\ process = "down" => loaded = {} /\ ~catchAll
  /\ process = "up" => loaded = enabled
  /\ catchAll => loaded = enabled
  /\ NoRouteShadowed

Registered == \A m \in loaded : Provides(m) \subseteq services

--------------------------------------------------------------------------------
THEOREM StartInvariantHolds == Spec => []StartInvariant
<1>1. Init => StartInvariant
  BY DEF Init, StartInvariant, DependenciesLoaded, NoRouteShadowed
<1>2. StartInvariant /\ [Next]_vars => StartInvariant'
  <2> SUFFICES ASSUME StartInvariant, [Next]_vars PROVE StartInvariant'
    OBVIOUS
  <2> USE DEF StartInvariant, DependenciesLoaded, NoRouteShadowed
  <2>1. ASSUME NEW set \in Enabled, Start(set) PROVE StartInvariant'
    BY <2>1 DEF Start, registries
  <2>2. ASSUME NEW m \in Module, Load(m) PROVE StartInvariant'
    BY <2>2 DEF Load, Ready
  <2>3. CASE Mount
    BY <2>3 DEF Mount
  <2>4. CASE Stop
    BY <2>4 DEF Stop
  <2>5. ASSUME UNCHANGED <<process, enabled, registries>> PROVE StartInvariant'
    BY <2>5 DEF registries
  <2> QED
    BY <2>1, <2>2, <2>3, <2>4, <2>5
    DEF Next, Publish, Handle, HandlerRaises, Finish, vars
<1> QED
  BY <1>1, <1>2, PTL DEF Spec

(* The catch-all route never shadows a module's router.                    *)
THEOREM RoutesNotShadowed == Spec => []NoRouteShadowed
<1> StartInvariant => NoRouteShadowed
  BY DEF StartInvariant
<1> QED
  BY StartInvariantHolds, PTL

--------------------------------------------------------------------------------
LEMMA RegisteredHolds == Spec => []Registered
<1>1. Init => Registered
  BY DEF Init, Registered
<1>2. Registered /\ [Next]_vars => Registered'
  <2> SUFFICES ASSUME Registered, [Next]_vars PROVE Registered'
    OBVIOUS
  <2>1. ASSUME NEW m \in Module, Load(m) PROVE Registered'
    BY <2>1 DEF Load, Registered
  <2>2. CASE Stop
    BY <2>2 DEF Stop, Registered
  <2>3. ASSUME UNCHANGED <<loaded, services>> PROVE Registered'
    BY <2>3 DEF Registered
  <2> QED
    BY <2>1, <2>2, <2>3
    DEF Next, Start, Mount, Publish, Handle, HandlerRaises, Finish, registries, vars
<1> QED
  BY <1>1, <1>2, PTL DEF Spec

(* A set closed under the declared dependencies has, for every interface a *)
(* member looks up, the member that provides it.                           *)
LEMMA DependenciesProvide ==
  ASSUME DependenciesLoaded, NEW m \in loaded, NEW i \in Consumes(m)
  PROVE  \E p \in loaded : i \in Provides(p)
<1>1. CASE m = "reservations"
  <2>1. i = "AvailabilityService"
    BY <1>1 DEF Consumes
  <2>2. "availability" \in loaded
    BY <1>1 DEF DependenciesLoaded, dependencies, reservationsDependencies
  <2> QED
    BY <2>1, <2>2 DEF Provides
<1>2. CASE m = "frontdesk"
  <2>1. "billing" \in loaded /\ "reservations" \in loaded
    BY <1>2 DEF DependenciesLoaded, dependencies, frontdeskDependencies
  <2>2. "rates" \in loaded
    BY <2>1 DEF DependenciesLoaded, dependencies, reservationsDependencies
  <2>3. i = "FolioService" \/ i = "RatesService"
    BY <1>2 DEF Consumes
  <2> QED
    BY <2>1, <2>2, <2>3 DEF Provides
<1> QED
  BY <1>1, <1>2 DEF Consumes

(* From the moment a module is loaded, through the rest of the start and   *)
(* until the process stops, each get_service of it finds an                *)
(* implementation.                                                         *)
THEOREM ServicesFound == Spec => []LookupsSucceed
<1> StartInvariant /\ Registered => LookupsSucceed
  BY DependenciesProvide DEF StartInvariant, Registered, LookupsSucceed
<1> QED
  BY StartInvariantHolds, RegisteredHolds, PTL

--------------------------------------------------------------------------------
(* The request that publishes an event: the recorder subscribes to the     *)
(* base class alone, so it is the last handler still to come, and once it  *)
(* has run nothing else can add to the context.                            *)

OwnSubscribers ==
  subscribers \subseteq {<<"Event", "audit">>, <<"GuestCheckedOut", "housekeeping">>}

RequestType ==
  [event: DOMAIN publisher, todo: Seq(Module), context: SUBSET Module, ran: SUBSET Module,
   row: [event: DOMAIN publisher, context: SUBSET Module] \cup {None}, usable: BOOLEAN]

RecorderLast(todo) == \A i \in 1..Len(todo) : todo[i] = "audit" => i = Len(todo)

RecordingInvariant ==
  /\ OwnSubscribers
  /\ request # None =>
       /\ request \in RequestType
       /\ RecorderLast(request.todo)
       /\ request.ran \subseteq request.context
       /\ request.row # None =>
            /\ request.todo = <<>>
            /\ request.ran \ {"audit"} \subseteq request.row.context

(* A sequence made of a set with at most one member.                       *)
LEMMA SetToSeqOfOne ==
  ASSUME NEW S, NEW x, S \subseteq {x}
  PROVE  /\ SetToSeq(S) \in Seq(S)
         /\ Len(SetToSeq(S)) = IF S = {} THEN 0 ELSE 1
<1>1. CASE S = {}
  <2>1. Cardinality(S) = 0
    BY <1>1, FS_EmptySet
  <2> DEFINE e == [i \in 1..0 |-> x]
  <2>2. e \in [1..Cardinality(S) -> S] /\ IsInjective(e)
    BY <1>1, <2>1 DEF IsInjective
  <2>3. SetToSeq(S) \in [1..0 -> S]
    BY <2>1, <2>2 DEF SetToSeq
  <2> QED BY <1>1, <2>3
<1>2. CASE S = {x}
  <2>1. Cardinality(S) = 1
    BY <1>2, FS_Singleton
  <2> DEFINE e == [i \in 1..1 |-> x]
  <2>2. e \in [1..Cardinality(S) -> S] /\ IsInjective(e)
    BY <1>2, <2>1 DEF IsInjective
  <2>3. SetToSeq(S) \in [1..1 -> S]
    BY <2>1, <2>2 DEF SetToSeq
  <2> DEFINE q == SetToSeq(S)
  <2> HIDE DEF q
  <2>4. q = [i \in 1..1 |-> q[i]] /\ q[1] = x
    BY <1>2, <2>3 DEF q
  <2>5. q = <<x>>
    BY <2>4
  <2>6. <<x>> \in Seq({x}) /\ Len(<<x>>) = 1 /\ {x} # {}
    OBVIOUS
  <2> QED BY <1>2, <2>5, <2>6 DEF q
<1> QED BY <1>1, <1>2

LEMMA SeqOfSubset ==
  ASSUME NEW T, NEW S \in SUBSET T, NEW q \in Seq(S)
  PROVE  q \in Seq(T) /\ \A i \in 1..Len(q) : q[i] \in S
<1>1. Len(q) \in Nat /\ DOMAIN q = 1..Len(q) /\ \A i \in 1..Len(q) : q[i] \in S
  OBVIOUS
<1>2. q \in [1..Len(q) -> T]
  BY <1>1
<1> QED BY <1>1, <1>2

LEMMA HandlersInOrder ==
  ASSUME OwnSubscribers, NEW type \in DOMAIN publisher
  PROVE  InOrder(type) \in Seq(Module) /\ RecorderLast(InOrder(type))
<1> DEFINE own == {h \in Module : <<type, h>> \in subscribers}
           base == {h \in Module : <<"Event", h>> \in subscribers}
           before == SetToSeq(own)
           after == SetToSeq(base)
<1>1. type # "Event"
  BY DEF publisher
<1>2. own \subseteq {"housekeeping"} /\ own \subseteq Module
  BY <1>1 DEF OwnSubscribers
<1>3. base \subseteq {"audit"} /\ base \subseteq Module
  BY DEF OwnSubscribers
<1> HIDE DEF own, base
<1>4. before \in Seq(own) /\ after \in Seq(base) /\ Len(after) <= 1
  <2>1. before \in Seq(own)
    BY <1>2, SetToSeqOfOne
  <2>2. after \in Seq(base) /\ Len(after) = IF base = {} THEN 0 ELSE 1
    BY <1>3, SetToSeqOfOne
  <2> HIDE DEF before, after
  <2> QED BY <2>1, <2>2
<1>5. InOrder(type) = before \o after
  BY DEF InOrder, Handlers, own, base
<1> HIDE DEF before, after
<1>6. before \in Seq(Module) /\ after \in Seq(Module)
  BY <1>2, <1>3, <1>4, SeqOfSubset
<1>7. \A i \in 1..Len(before) : before[i] = "housekeeping"
  BY <1>2, <1>4, SeqOfSubset
<1> DEFINE todo == before \o after
<1>8. /\ Len(todo) = Len(before) + Len(after)
      /\ Len(before) \in Nat /\ Len(after) \in Nat
      /\ \A i \in 1..Len(before) : todo[i] = before[i]
  BY <1>6
<1>9. todo \in Seq(Module)
  BY <1>6
<1> HIDE DEF todo
<1>10. ASSUME NEW i \in 1..Len(todo), todo[i] = "audit" PROVE i = Len(todo)
  <2>1. ~(i \in 1..Len(before))
    <3>1. "housekeeping" # "audit"
      OBVIOUS
    <3> QED BY <1>7, <1>8, <1>10, <3>1
  <2>2. Len(after) <= 1
    BY <1>4, Zenon
  <2> QED BY <1>8, <1>10, <2>1, <2>2
<1> QED BY <1>5, <1>9, <1>10 DEF RecorderLast, todo

LEMMA RecorderLastInTail ==
  ASSUME NEW todo \in Seq(Module), todo # <<>>, RecorderLast(todo)
  PROVE  /\ Tail(todo) \in Seq(Module) /\ Head(todo) \in Module
         /\ RecorderLast(Tail(todo))
         /\ Head(todo) = "audit" => Tail(todo) = <<>>
<1>1. /\ Len(todo) \in Nat \ {0} /\ Tail(todo) \in Seq(Module) /\ Head(todo) = todo[1]
      /\ Len(Tail(todo)) = Len(todo) - 1 /\ Head(todo) \in Module
      /\ \A i \in 1..Len(Tail(todo)) : Tail(todo)[i] = todo[i + 1]
  OBVIOUS
<1> DEFINE n == Len(todo)
           rest == Tail(todo)
<1>2. \A i \in 1..n : todo[i] = "audit" => i = n
  BY DEF RecorderLast
<1>3. n \in Nat \ {0} /\ Len(rest) = n - 1 /\ \A i \in 1..Len(rest) : rest[i] = todo[i + 1]
  BY <1>1
<1> HIDE DEF n, rest
<1>4. ASSUME NEW i \in 1..Len(rest), rest[i] = "audit" PROVE i = Len(rest)
  <2>1. i + 1 \in 1..n /\ todo[i + 1] = "audit"
    BY <1>3, <1>4
  <2> QED BY <1>2, <1>3, <2>1
<1>5. todo[1] = "audit" => Len(rest) = 0
  BY <1>2, <1>3
<1>6. Len(Tail(todo)) = 0 => Tail(todo) = <<>>
  BY <1>1, EmptySeq
<1> QED BY <1>1, <1>4, <1>5, <1>6 DEF RecorderLast, rest

LEMMA RecordingInvariantHolds == Spec => []RecordingInvariant
<1>1. Init => RecordingInvariant
  BY DEF Init, RecordingInvariant, OwnSubscribers
<1>2. RecordingInvariant /\ [Next]_vars => RecordingInvariant'
  <2> SUFFICES ASSUME RecordingInvariant, [Next]_vars PROVE RecordingInvariant'
    OBVIOUS
  <2>1. ASSUME UNCHANGED request, OwnSubscribers' PROVE RecordingInvariant'
    BY <2>1 DEF RecordingInvariant
  <2>2. UNCHANGED registries => OwnSubscribers'
    BY DEF registries, OwnSubscribers, RecordingInvariant
  <2>3. ASSUME NEW set \in Enabled, Start(set) PROVE RecordingInvariant'
    BY <2>1, <2>2, <2>3 DEF Start
  <2>4. ASSUME NEW m \in Module, Load(m) PROVE RecordingInvariant'
    <3>1. EventHandlers(m) \subseteq {<<"Event", "audit">>, <<"GuestCheckedOut", "housekeeping">>}
      BY DEF EventHandlers
    <3> QED BY <2>1, <2>4, <3>1 DEF Load, OwnSubscribers, RecordingInvariant
  <2>5. CASE Mount
    BY <2>1, <2>5 DEF Mount, OwnSubscribers, RecordingInvariant
  <2>6. CASE Stop
    BY <2>6 DEF Stop, OwnSubscribers, RecordingInvariant
  <2>7. ASSUME NEW type \in DOMAIN publisher, Publish(type) PROVE RecordingInvariant'
    <3>1. InOrder(type) \in Seq(Module) /\ RecorderLast(InOrder(type))
      BY HandlersInOrder DEF RecordingInvariant
    <3>2. /\ request' = [event |-> type, todo |-> InOrder(type), context |-> {}, ran |-> {},
                         row |-> None, usable |-> TRUE]
          /\ UNCHANGED registries
      BY <2>7 DEF Publish
    <3>3. request' \in RequestType
      BY <3>1, <3>2 DEF RequestType
    <3> QED BY <2>2, <3>1, <3>2, <3>3 DEF RecordingInvariant
  <2>8. CASE Handle
    <3>1. /\ request \in RequestType /\ request.todo # <<>> /\ request.row = None
          /\ RecorderLast(request.todo) /\ request.ran \subseteq request.context
      BY <2>8 DEF Handle, RecordingInvariant
    <3>2. /\ Tail(request.todo) \in Seq(Module) /\ NextHandler \in Module
          /\ RecorderLast(Tail(request.todo))
          /\ NextHandler = "audit" => Tail(request.todo) = <<>>
      <4>1. request.todo \in Seq(Module)
        BY <3>1 DEF RequestType
      <4> QED BY <3>1, <4>1, RecorderLastInTail DEF NextHandler
    <3> DEFINE recorded == [event |-> request.event, context |-> request.context]
    <3>3. /\ request' \in RequestType
          /\ request'.todo = Tail(request.todo)
          /\ request'.ran = request.ran \cup {NextHandler}
          /\ request'.context = request.context \cup {NextHandler}
          /\ request'.row = IF NextHandler = "audit" THEN recorded ELSE None
      <4>1. recorded \in [event: DOMAIN publisher, context: SUBSET Module]
        BY <3>1 DEF RequestType
      <4>2. (IF NextHandler = "audit" THEN recorded ELSE None)
              \in [event: DOMAIN publisher, context: SUBSET Module] \cup {None}
        BY <4>1
      <4> HIDE DEF recorded
      <4>3. request' = [request EXCEPT
              !.todo = Tail(request.todo),
              !.ran = request.ran \cup {NextHandler},
              !.row = IF NextHandler = "audit" THEN recorded ELSE request.row,
              !.context = request.context \cup {NextHandler}]
        BY <2>8 DEF Handle, recorded
      <4> QED BY <3>1, <3>2, <4>2, <4>3 DEF RequestType
    <3>4. recorded.context = request.context
      OBVIOUS
    <3> HIDE DEF recorded
    <3>5. OwnSubscribers'
      BY <2>2, <2>8 DEF Handle
    <3> QED BY <3>1, <3>2, <3>3, <3>4, <3>5 DEF RecordingInvariant
  <2>9. ASSUME NEW usable \in BOOLEAN, HandlerRaises(usable) PROVE RecordingInvariant'
    <3>1. /\ request \in RequestType /\ request.todo # <<>> /\ request.row = None
          /\ RecorderLast(request.todo) /\ request.ran \subseteq request.context
      BY <2>9 DEF HandlerRaises, RecordingInvariant
    <3>2. Tail(request.todo) \in Seq(Module) /\ RecorderLast(Tail(request.todo))
      <4>1. request.todo \in Seq(Module)
        BY <3>1 DEF RequestType
      <4> QED BY <3>1, <4>1, RecorderLastInTail
    <3>3. /\ request' \in RequestType
          /\ request'.todo = Tail(request.todo) /\ request'.row = None
          /\ request'.ran = request.ran /\ request'.context = request.context
      BY <2>9, <3>1, <3>2 DEF HandlerRaises, RequestType
    <3>4. OwnSubscribers'
      BY <2>2, <2>9 DEF HandlerRaises
    <3> QED BY <3>1, <3>2, <3>3, <3>4 DEF RecordingInvariant
  <2>10. CASE Finish
    BY <2>2, <2>10 DEF Finish, RecordingInvariant
  <2>11. CASE UNCHANGED vars
    BY <2>1, <2>2, <2>11 DEF vars
  <2> QED
    BY <2>3, <2>4, <2>5, <2>6, <2>7, <2>8, <2>9, <2>10, <2>11 DEF Next
<1> QED
  BY <1>1, <1>2, PTL DEF Spec

(* Whatever modules are enabled and whichever handlers raise, an audit row *)
(* holds what every other handler that ran put into the undo context.      *)
THEOREM ContextComplete == Spec => []RecordedContextComplete
<1> RecordingInvariant => RecordedContextComplete
  BY DEF RecordingInvariant, RecordedContextComplete
<1> QED
  BY RecordingInvariantHolds, PTL

--------------------------------------------------------------------------------
(* The jobs that fill the database the process runs on, for any horizon,   *)
(* last day and number of batches.                                         *)

(* Stays are records, and a demo reservation leaves a guest in the guest   *)
(* book, which no job and no member of staff empties.                      *)
IsStay(s) == s = Jobs!Booked(s.room, s.from, s.to, s.status)

JobsInvariant ==
  /\ \A i \in DOMAIN stays : IsStay(stays[i])
  /\ demoReservations = 0 \/ (demoReservations = 1 /\ guests # "none")

LEMMA InitJobs == Jobs!Init => JobsInvariant
BY DEF Jobs!Init, JobsInvariant

(* The stays of a batch: no two have one room.                             *)
LEMMA BatchRooms ==
  /\ \A i \in Jobs!Batch : IsStay(Jobs!Shifted(i))
  /\ \A i, j \in Jobs!Batch : i # j => ~Jobs!SameRoom(Jobs!Shifted(i), Jobs!Shifted(j))
<1>1. /\ DOMAIN Jobs!Sample = {"Sofia", "Diego", "Tomasz", "Amara", "Haruto", "Ines",
                               "Leilani", "Callum"}
      /\ \A g \in DOMAIN Jobs!Sample : IsStay(Jobs!Sample[g])
      /\ \A g, h \in DOMAIN Jobs!Sample :
           g # h => ~Jobs!SameRoom(Jobs!Sample[g], Jobs!Sample[h])
  BY DEF Jobs!Sample, Jobs!Booked, Jobs!SameRoom, IsStay
<1>2. \A i \in Jobs!Batch :
        i[1] \in DOMAIN Jobs!Sample /\ i = <<i[1], batches + 1>>
  BY DEF Jobs!Batch
<1>3. \A i \in Jobs!Batch :
        IsStay(Jobs!Shifted(i)) /\ Jobs!Shifted(i).room = Jobs!Sample[i[1]].room
  <2> SUFFICES ASSUME NEW i \in Jobs!Batch
               PROVE  IsStay(Jobs!Shifted(i)) /\ Jobs!Shifted(i).room = Jobs!Sample[i[1]].room
    OBVIOUS
  <2> DEFINE b == Jobs!Sample[i[1]]
  <2>1. IsStay(b)
    BY <1>1, <1>2
  <2>2. Jobs!Shifted(i) = [b EXCEPT !.from = b.from + today, !.to = b.to + today]
    BY DEF Jobs!Shifted
  <2> HIDE DEF b
  <2>3. Jobs!Shifted(i) = Jobs!Booked(b.room, b.from + today, b.to + today, b.status)
    BY <2>1, <2>2 DEF Jobs!Booked, IsStay
  <2>4. IsStay(Jobs!Shifted(i)) /\ Jobs!Shifted(i).room = b.room
    BY <2>3 DEF Jobs!Booked, IsStay
  <2> QED BY <2>4 DEF b
<1> QED BY <1>1, <1>2, <1>3 DEF Jobs!SameRoom

LEMMA SeedSampleKeepsJobs ==
  ASSUME JobsInvariant, NEW force, Jobs!SeedSample(force)
  PROVE  JobsInvariant' /\ Jobs!Shared' \subseteq Jobs!Shared
<1>1. /\ stays' = [i \in DOMAIN stays \cup Jobs!Batch |->
                     IF i \in Jobs!Batch THEN Jobs!Shifted(i) ELSE stays[i]]
      /\ \A i \in Jobs!Batch : Jobs!Free(i, Jobs!Shifted(i))
      /\ demoReservations' = demoReservations /\ guests' = "sample"
  BY DEF Jobs!SeedSample, Jobs!setup, Jobs!CanSeedSample
<1>2. JobsInvariant'
  BY <1>1, BatchRooms DEF JobsInvariant, IsStay, Jobs!Booked
<1>3. ASSUME NEW i \in DOMAIN stays', NEW j \in DOMAIN stays', i # j,
             Jobs!SameRoom(stays'[i], stays'[j]),
             Jobs!Active(stays'[i]), Jobs!Active(stays'[j]),
             Jobs!Overlaps(stays'[i].from, stays'[i].to, stays'[j].from, stays'[j].to)
      PROVE  /\ i \in DOMAIN stays /\ j \in DOMAIN stays
             /\ stays'[i] = stays[i] /\ stays'[j] = stays[j]
  <2>1. CASE i \in Jobs!Batch /\ j \in Jobs!Batch
    BY <1>1, <1>3, <2>1, BatchRooms
  <2>2. CASE i \in Jobs!Batch /\ j \notin Jobs!Batch
    BY <1>1, <1>3, <2>2 DEF Jobs!Free
  <2>3. CASE i \notin Jobs!Batch /\ j \in Jobs!Batch
    BY <1>1, <1>3, <2>3 DEF Jobs!Free, Jobs!SameRoom, Jobs!Overlaps
  <2>4. CASE i \notin Jobs!Batch /\ j \notin Jobs!Batch
    BY <1>1, <2>4
  <2> QED BY <2>1, <2>2, <2>3, <2>4
<1>4. Jobs!Shared' \subseteq Jobs!Shared
  BY <1>3 DEF Jobs!Shared, Jobs!SameRoom, Jobs!Active, Jobs!Overlaps
<1> QED BY <1>2, <1>4

(* A stay that changes shares a room with no other one, unless it did.     *)
LEMMA OneStayChanges ==
  ASSUME NEW i \in DOMAIN stays, NEW s, Jobs!Set(i, s),
         \A j \in DOMAIN stays \ {i} :
           /\ Jobs!SameRoom(s, stays[j]) /\ Jobs!Active(s) /\ Jobs!Active(stays[j])
           /\ Jobs!Overlaps(s.from, s.to, stays[j].from, stays[j].to)
           => /\ Jobs!SameRoom(stays[i], stays[j]) /\ Jobs!Active(stays[i])
              /\ Jobs!Overlaps(stays[i].from, stays[i].to, stays[j].from, stays[j].to)
  PROVE  Jobs!Shared' \subseteq Jobs!Shared
<1>1. DOMAIN stays' = DOMAIN stays
      /\ \A j \in DOMAIN stays : stays'[j] = IF j = i THEN s ELSE stays[j]
  BY DEF Jobs!Set
<1>2. ASSUME NEW j \in DOMAIN stays, NEW k \in DOMAIN stays, j # k,
             Jobs!SameRoom(stays'[j], stays'[k]),
             Jobs!Active(stays'[j]), Jobs!Active(stays'[k]),
             Jobs!Overlaps(stays'[j].from, stays'[j].to, stays'[k].from, stays'[k].to)
      PROVE  /\ Jobs!SameRoom(stays[j], stays[k])
             /\ Jobs!Active(stays[j]) /\ Jobs!Active(stays[k])
             /\ Jobs!Overlaps(stays[j].from, stays[j].to, stays[k].from, stays[k].to)
  <2>1. CASE j = i
    BY <1>1, <1>2, <2>1
  <2>2. CASE k = i
    BY <1>1, <1>2, <2>2 DEF Jobs!SameRoom, Jobs!Overlaps
  <2>3. CASE j # i /\ k # i
    BY <1>1, <1>2, <2>3
  <2> QED BY <2>1, <2>2, <2>3
<1> QED BY <1>1, <1>2 DEF Jobs!Shared, Jobs!SameRoom, Jobs!Active, Jobs!Overlaps

LEMMA SetKeepsJobs ==
  ASSUME JobsInvariant, NEW i \in DOMAIN stays, NEW s, Jobs!Set(i, s), IsStay(s)
  PROVE  JobsInvariant'
BY DEF JobsInvariant, Jobs!Set, Jobs!setup, IsStay, Jobs!Booked

(* What staff do to a stay, the undo of a check-out aside, makes no two    *)
(* stays share a room.                                                     *)
LEMMA StaffKeepsJobs ==
  ASSUME JobsInvariant, NEW i \in DOMAIN stays, Jobs!StaffAct(i)
  PROVE  JobsInvariant' /\ (Jobs!UndoCheckOut(i) \/ Jobs!Shared' \subseteq Jobs!Shared)
<1> DEFINE old == stays[i]
           as(st) == [old EXCEPT !.status = st]
           in(r) == [old EXCEPT !.room = r]
<1>1. IsStay(old)
  BY DEF JobsInvariant
<1>2. \A st : /\ IsStay(as(st)) /\ as(st).room = old.room
              /\ as(st).from = old.from /\ as(st).to = old.to /\ as(st).status = st
  BY <1>1 DEF IsStay, Jobs!Booked
<1>3. \A r : /\ IsStay(in(r)) /\ in(r).room = r
             /\ in(r).from = old.from /\ in(r).to = old.to /\ in(r).status = old.status
  BY <1>1 DEF IsStay, Jobs!Booked
<1>4. ASSUME NEW now, NEW st, Jobs!SetStatus(i, now, st)
      PROVE  JobsInvariant' /\ (now # "checked_out" => Jobs!Shared' \subseteq Jobs!Shared)
  <2>1. old.status = now /\ Jobs!Set(i, as(st))
    BY <1>4 DEF Jobs!SetStatus
  <2>2. JobsInvariant'
    BY <1>2, <2>1, SetKeepsJobs
  <2>3. ASSUME now # "checked_out" PROVE Jobs!Shared' \subseteq Jobs!Shared
    <3>1. Jobs!Active(old)
      BY <2>1, <2>3 DEF Jobs!Active
    <3>2. \A j \in DOMAIN stays \ {i} :
            /\ Jobs!SameRoom(as(st), stays[j]) => Jobs!SameRoom(old, stays[j])
            /\ Jobs!Overlaps(as(st).from, as(st).to, stays[j].from, stays[j].to)
                 => Jobs!Overlaps(old.from, old.to, stays[j].from, stays[j].to)
      BY <1>2 DEF Jobs!SameRoom
    <3> HIDE DEF as
    <3> QED BY <2>1, <3>1, <3>2, OneStayChanges
  <2> QED BY <2>2, <2>3
<1>5. CASE Jobs!CheckIn(i) \/ Jobs!UndoCheckIn(i) \/ Jobs!CheckOut(i) \/ Jobs!UndoCheckOut(i)
  BY <1>4, <1>5 DEF Jobs!CheckIn, Jobs!UndoCheckIn, Jobs!CheckOut, Jobs!UndoCheckOut
<1>6. ASSUME NEW r \in Jobs!SampleRoom, Jobs!AssignRoom(i, r)
      PROVE  JobsInvariant' /\ Jobs!Shared' \subseteq Jobs!Shared
  <2>1. Jobs!Set(i, in(r)) /\ Jobs!Free(i, in(r))
    BY <1>6 DEF Jobs!AssignRoom, Jobs!SetRoom
  <2>2. JobsInvariant'
    BY <1>3, <2>1, SetKeepsJobs
  <2> HIDE DEF in
  <2>3. Jobs!Shared' \subseteq Jobs!Shared
    BY <2>1, OneStayChanges DEF Jobs!Free
  <2> QED BY <2>2, <2>3
<1>7. CASE Jobs!ReleaseRoom(i)
  <2>1. Jobs!Set(i, in(None))
    BY <1>7 DEF Jobs!ReleaseRoom, Jobs!SetRoom
  <2>2. JobsInvariant'
    BY <1>3, <2>1, SetKeepsJobs
  <2>3. \A o : ~Jobs!SameRoom(in(None), o)
    BY <1>3 DEF Jobs!SameRoom
  <2> HIDE DEF in
  <2>4. Jobs!Shared' \subseteq Jobs!Shared
    BY <2>1, <2>3, OneStayChanges
  <2> QED BY <2>2, <2>4
<1>8. CASE Jobs!GiveUp(i)
  <2>1. /\ stays' = [j \in DOMAIN stays \ {i} |-> stays[j]]
        /\ demoReservations' = demoReservations /\ guests' = guests
    BY <1>8 DEF Jobs!GiveUp, Jobs!setup
  <2>2. JobsInvariant'
    BY <2>1 DEF JobsInvariant, IsStay, Jobs!Booked
  <2>3. Jobs!Shared' \subseteq Jobs!Shared
    BY <2>1 DEF Jobs!Shared, Jobs!SameRoom, Jobs!Active, Jobs!Overlaps
  <2> QED BY <2>2, <2>3
<1> QED BY <1>5, <1>6, <1>7, <1>8 DEF Jobs!StaffAct

LEMMA SameStaysKeepJobs ==
  ASSUME JobsInvariant, stays' = stays,
         demoReservations' = 0 \/ (demoReservations' = 1 /\ guests' # "none")
  PROVE  JobsInvariant' /\ Jobs!Shared' \subseteq Jobs!Shared
<1>1. JobsInvariant'
  BY DEF JobsInvariant, IsStay, Jobs!Booked
<1>2. Jobs!Shared' \subseteq Jobs!Shared
  BY DEF Jobs!Shared, Jobs!SameRoom, Jobs!Active, Jobs!Overlaps
<1> QED BY <1>1, <1>2

LEMMA NextKeepsJobs ==
  JobsInvariant /\ [Jobs!Next]_Jobs!vars
    => /\ JobsInvariant'
       /\ (\E i \in DOMAIN stays : Jobs!UndoCheckOut(i)) \/ Jobs!Shared' \subseteq Jobs!Shared
<1> SUFFICES ASSUME JobsInvariant, [Jobs!Next]_Jobs!vars
    PROVE  /\ JobsInvariant'
           /\ (\E i \in DOMAIN stays : Jobs!UndoCheckOut(i))
              \/ Jobs!Shared' \subseteq Jobs!Shared
  OBVIOUS
<1> USE DEF Jobs!setup
<1>1. ASSUME NEW force, Jobs!SeedDemo(force)
      PROVE  JobsInvariant' /\ Jobs!Shared' \subseteq Jobs!Shared
  <2>1. /\ stays' = stays
        /\ demoReservations' = 0 \/ (demoReservations' = 1 /\ guests' # "none")
    BY <1>1 DEF Jobs!SeedDemo, Jobs!DemoReservation, JobsInvariant
  <2> QED BY <2>1, SameStaysKeepJobs
<1>2. ASSUME NEW force, Jobs!SeedSample(force)
      PROVE  JobsInvariant' /\ Jobs!Shared' \subseteq Jobs!Shared
  BY <1>2, SeedSampleKeepsJobs
<1>3. ASSUME UNCHANGED <<stays, guests, demoReservations>>
      PROVE  JobsInvariant' /\ Jobs!Shared' \subseteq Jobs!Shared
  <2>1. demoReservations' = 0 \/ (demoReservations' = 1 /\ guests' # "none")
    BY <1>3 DEF JobsInvariant
  <2> QED BY <1>3, <2>1, SameStaysKeepJobs
<1>4. ASSUME NEW i \in DOMAIN stays, Jobs!StaffAct(i)
      PROVE  JobsInvariant' /\ (Jobs!UndoCheckOut(i) \/ Jobs!Shared' \subseteq Jobs!Shared)
  BY <1>4, StaffKeepsJobs
<1>5. ASSUME NEW force, NEW full, Jobs!SampleRefused(force, full)
      PROVE  UNCHANGED <<stays, guests, demoReservations>>
  BY <1>5 DEF Jobs!SampleRefused
<1>6. CASE Jobs!EditRoles \/ Jobs!EditRates \/ Jobs!EditTax \/ Jobs!NextDay
  BY <1>3, <1>6 DEF Jobs!EditRoles, Jobs!EditRates, Jobs!EditTax, Jobs!NextDay
<1>7. CASE UNCHANGED Jobs!vars
  BY <1>3, <1>7 DEF Jobs!vars
<1> QED BY <1>1, <1>2, <1>3, <1>4, <1>5, <1>6, <1>7 DEF Jobs!Next

LEMMA JobsAlways == Jobs!Spec => []JobsInvariant
BY InitJobs, NextKeepsJobs, PTL DEF Jobs!Spec

(* However many batches are made, on whatever days, and however staff      *)
(* check in and out, move, cancel and undo in between, only the undo of a  *)
(* check-out brings two sample stays into one room (assign_room as         *)
(* seed_sample_data and staff use it).                                     *)
THEOREM SampleRoomsSharedByUndoOnly == Jobs!Spec => OnlyUndoneCheckOutSharesRooms
<1>1. JobsInvariant /\ [Jobs!Next]_Jobs!vars
        => JobsInvariant'
           /\ [(\E i \in DOMAIN stays : Jobs!UndoCheckOut(i))
               \/ Jobs!Shared' \subseteq Jobs!Shared]_Jobs!vars
  BY NextKeepsJobs
<1> QED
  BY <1>1, InitJobs, PTL
  DEF Jobs!Spec, OnlyUndoneCheckOutSharesRooms, Jobs!OnlyUndoneCheckOutSharesRooms

(* In whatever order the jobs run, and however often, one demo reservation *)
(* is made at most (seed_demo).                                            *)
THEOREM DemoReservedOnce == Jobs!Spec => []OneDemoReservation
<1>1. JobsInvariant => OneDemoReservation
  BY DEF JobsInvariant, OneDemoReservation, Jobs!OneDemoReservation
<1> QED BY <1>1, JobsAlways, PTL

================================================================================
