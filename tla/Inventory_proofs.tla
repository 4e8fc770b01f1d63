----------------------------- MODULE Inventory_proofs ---------------------------
(***************************************************************************)
(* Theorems about Inventory, for any sets of rooms, room types, days and   *)
(* blocks.                                                                 *)
(***************************************************************************)
EXTENDS Inventory, FiniteSetTheorems, TLAPS

--------------------------------------------------------------------------------
(* What the availability service computes.                                 *)

LEMMA MaxType == ASSUME NEW a \in Int, NEW b \in Nat PROVE Max2(a, b) \in Nat
BY DEF Max2

(* The counts the availability service makes are natural numbers.          *)
LEMMA SupplyType ==
  ASSUME InventoryTypeOK, NEW t \in RoomType, NEW d \in Day
  PROVE  Supply(t, d) \in SupplyRecord
<1>1. ActiveRoomCount(t) \in Nat
  <2>1. IsFiniteSet(ActiveRooms(t))
    BY SetsAssumption, FS_Subset DEF ActiveRooms
  <2> QED BY <2>1, FS_CardinalityType DEF ActiveRoomCount
<1>2. RoomBlocks(t, d) \in Nat
  <2>1. IsFiniteSet(BlockedRooms(t, d))
    BY SetsAssumption, FS_Subset DEF BlockedRooms
  <2> QED BY <2>1, FS_CardinalityType DEF RoomBlocks
<1>3. TypeBlocks(t, d) \in Nat
  <2>1. IsFiniteSet(1..MaxUnits)
    BY SetsAssumption, FS_Interval
  <2>2. IsFiniteSet(BlockId \X (1..MaxUnits))
    BY <2>1, SetsAssumption, FS_Product
  <2>3. HeldBlockUnits(t, d) \subseteq BlockId \X (1..MaxUnits)
    BY DEF HeldBlockUnits
  <2>4. IsFiniteSet(HeldBlockUnits(t, d))
    BY <2>2, <2>3, FS_Subset
  <2> QED BY <2>4, FS_CardinalityType DEF TypeBlocks
<1>4. allowance[t] \in Nat
  BY DEF InventoryTypeOK
<1> QED BY <1>1, <1>2, <1>3, <1>4 DEF Supply, SupplyRecord

LEMMA CapacityType ==
  ASSUME NEW q \in SupplyRecord
  PROVE  Capacity(q) \in Nat
BY DEF Capacity, SupplyRecord, Max2

--------------------------------------------------------------------------------
(* Type correctness of the inventory.                                      *)

LEMMA InventoryInitType == InventoryInit => InventoryTypeOK
BY InitialAssumption DEF InventoryInit, InventoryTypeOK

LEMMA PairedType ==
  ASSUME NEW rooms \in [Room -> RoomRecord], NEW r \in Room, NEW p \in Room \cup {None}
  PROVE  Paired(rooms, r, p) \in [Room -> RoomRecord]
BY DEF Paired, RoomRecord

LEMMA RoomEditType ==
  ASSUME InventoryTypeOK, NEW r \in EditableRoom, RoomEdit(r)
  PROVE  InventoryTypeOK'
<1> r \in Room
  BY BoundsAssumption
<1>1. ASSUME NEW t \in RoomType, NEW a \in BOOLEAN, CreateRoom(r, t, a)
      PROVE  InventoryTypeOK'
  BY <1>1 DEF InventoryTypeOK, CreateRoom, RoomRecord
<1>2. ASSUME NEW t \in RoomType, NEW a \in BOOLEAN, UpdateRoom(r, t, a)
      PROVE  InventoryTypeOK'
  BY <1>2 DEF InventoryTypeOK, UpdateRoom, RoomRecord
<1>3. ASSUME NEW t \in RoomType, NEW a \in BOOLEAN, NEW p \in EditableRoom \cup {None},
             UpdateRoomAndPair(r, t, a, p)
      PROVE  InventoryTypeOK'
  <2>1. [room EXCEPT ![r].type = t, ![r].active = a] \in [Room -> RoomRecord]
    BY DEF InventoryTypeOK, RoomRecord
  <2>2. room' \in [Room -> RoomRecord]
    BY <1>3, <2>1, PairedType, BoundsAssumption DEF UpdateRoomAndPair
  <2> QED BY <1>3, <2>2 DEF InventoryTypeOK, UpdateRoomAndPair
<1>4. ASSUME DeactivateRoom(r)
      PROVE  InventoryTypeOK'
  <2>1. Paired(room, r, None) \in [Room -> RoomRecord]
    BY PairedType DEF InventoryTypeOK
  <2>2. room' \in [Room -> RoomRecord]
    BY <1>4, <2>1 DEF DeactivateRoom, RoomRecord
  <2> QED BY <1>4, <2>2 DEF InventoryTypeOK, DeactivateRoom
<1> QED BY <1>1, <1>2, <1>3, <1>4 DEF RoomEdit

LEMMA BlockEditType ==
  ASSUME InventoryTypeOK, NEW b \in EditableBlock, BlockEdit(b)
  PROVE  InventoryTypeOK'
<1> b \in BlockId
  BY BoundsAssumption
<1>1. ASSUME NEW r \in Room \cup {None}, NEW t \in RoomType \cup {None},
             NEW n \in 1..MaxUnits, NEW span \in BlockSpan, CreateBlock(b, r, t, n, span)
      PROVE  InventoryTypeOK'
  BY <1>1 DEF InventoryTypeOK, CreateBlock
<1>2. ASSUME NEW n \in 1..MaxUnits, NEW span \in BlockSpan, UpdateBlock(b, n, span)
      PROVE  InventoryTypeOK'
  <2> DEFINE rec == [block[b] EXCEPT !.units = n, !.start = span[1], !.end = span[2]]
  <2>1. span[1] \in Int /\ span[2] \in Int /\ span[1] < span[2]
    <3>1. {d + 1 : d \in Day} \subseteq Int
      BY SetsAssumption
    <3>2. span \in Int \X Int /\ span[1] < span[2]
      BY <3>1, SetsAssumption DEF BlockSpan
    <3> QED BY <3>2
  <2>2. block[b] \in BlockRecord
    BY <1>2 DEF InventoryTypeOK, UpdateBlock
  <2>3. rec \in BlockRecord
    BY <2>1, <2>2 DEF BlockRecord
  <2>4. block' = [block EXCEPT ![b] = rec] /\ UNCHANGED <<room, allowance>>
    BY <1>2 DEF UpdateBlock
  <2> QED BY <2>3, <2>4 DEF InventoryTypeOK
<1>3. ASSUME DeleteBlock(b)
      PROVE  InventoryTypeOK'
  BY <1>3 DEF InventoryTypeOK, DeleteBlock
<1> QED BY <1>1, <1>2, <1>3 DEF BlockEdit

LEMMA InventoryNextType ==
  ASSUME InventoryTypeOK, InventoryNext
  PROVE  InventoryTypeOK'
<1>1. ASSUME NEW t \in RoomType, NEW n \in Allowance, UpdateRoomType(t, n)
      PROVE  InventoryTypeOK'
  BY <1>1, BoundsAssumption DEF InventoryTypeOK, UpdateRoomType
<1> QED BY <1>1, RoomEditType, BlockEditType DEF InventoryNext

LEMMA InventoryUnchangedType ==
  ASSUME InventoryTypeOK, UNCHANGED inventory
  PROVE  InventoryTypeOK'
BY DEF InventoryTypeOK, inventory

(* Every room, block and allowance keeps the shape the tables declare; in  *)
(* particular no edit of a block ever gives it an empty range.             *)
THEOREM InventoryTypeCorrect == InventorySpec => []InventoryTypeOK
<1>1. InventoryTypeOK /\ [InventoryNext]_inventory => InventoryTypeOK'
  BY InventoryNextType, InventoryUnchangedType
<1> QED BY <1>1, InventoryInitType, PTL DEF InventorySpec

--------------------------------------------------------------------------------
(* Adjoining rooms.                                                        *)

Symmetric(rooms) ==
  \A q \in Room : LET p == rooms[q].adjoining IN
    p # None => rooms[q].type # None /\ p # q /\ rooms[p].adjoining = q

LEMMA PairedFields ==
  ASSUME NEW rooms \in [Room -> RoomRecord], NEW r \in Room, NEW p \in Room \cup {None},
         rooms[r].adjoining # p, NEW q \in Room
  PROVE  /\ Paired(rooms, r, p)[q].type = rooms[q].type
         /\ Paired(rooms, r, p)[q].adjoining =
              IF q = r THEN p
              ELSE IF q = p THEN r
              ELSE IF \E o \in {r, p} \ {None} : rooms[q].adjoining = o /\ rooms[o].adjoining = q
                THEN None
              ELSE rooms[q].adjoining
BY DEF Paired, RoomRecord

(* Pairing two rooms of a symmetric property leaves it symmetric: the only *)
(* rooms that pointed at either are the two former partners.               *)
LEMMA PairedSymmetric ==
  ASSUME NEW rooms \in [Room -> RoomRecord], Symmetric(rooms), NEW r \in Room,
         NEW p \in Room \cup {None}, p # r, rooms[r].type # None,
         p # None => rooms[p].type # None
  PROVE  Symmetric(Paired(rooms, r, p))
<1> DEFINE new == Paired(rooms, r, p)
<1>1. CASE rooms[r].adjoining = p
  BY <1>1 DEF Paired
<1>2. CASE rooms[r].adjoining # p
  <2> SUFFICES ASSUME NEW q \in Room, new[q].adjoining # None
               PROVE  /\ new[q].type # None /\ new[q].adjoining # q
                      /\ new[new[q].adjoining].adjoining = q
    BY DEF Symmetric
  <2> HIDE DEF new
  <2>1. \A x \in Room :
          /\ new[x].type = rooms[x].type
          /\ new[x].adjoining =
              IF x = r THEN p
              ELSE IF x = p THEN r
              ELSE IF \E o \in {r, p} \ {None} : rooms[x].adjoining = o /\ rooms[o].adjoining = x
                THEN None
              ELSE rooms[x].adjoining
    BY <1>2, PairedFields DEF new
  <2>2. None \notin Room
    BY SetsAssumption
  <2>3. CASE q = r
    BY <2>1, <2>2, <2>3
  <2>4. CASE q = p
    BY <2>1, <2>2, <2>4
  <2>5. CASE q \notin {r, p}
    <3> DEFINE m == rooms[q].adjoining
    <3>1. /\ ~\E o \in {r, p} \ {None} : rooms[q].adjoining = o /\ rooms[o].adjoining = q
          /\ new[q].adjoining = m
      BY <2>1, <2>5
    <3>2. m \in Room /\ m # q /\ rooms[m].adjoining = q /\ rooms[q].type # None
      BY <3>1 DEF Symmetric, RoomRecord
    <3>3. m \notin {r, p}
      BY <2>2, <3>1, <3>2
    <3>4. ~\E o \in {r, p} \ {None} : rooms[m].adjoining = o /\ rooms[o].adjoining = m
      BY <2>5, <3>2
    <3> QED BY <2>1, <3>1, <3>2, <3>3, <3>4
  <2> QED BY <2>3, <2>4, <2>5
<1> QED BY <1>1, <1>2

LEMMA RoomEditSymmetric ==
  ASSUME InventoryTypeOK, Symmetric(room), NEW r \in EditableRoom, RoomEdit(r)
  PROVE  Symmetric(room')
<1> r \in Room /\ None \notin Room /\ None \notin RoomType
  BY BoundsAssumption, SetsAssumption
<1>1. room \in [Room -> RoomRecord]
  BY DEF InventoryTypeOK
<1>2. ASSUME NEW t \in RoomType, NEW a \in BOOLEAN, CreateRoom(r, t, a)
      PROVE  Symmetric(room')
  BY <1>1, <1>2 DEF CreateRoom, Created, Symmetric, RoomRecord
<1>3. ASSUME NEW t \in RoomType, NEW a \in BOOLEAN
      PROVE  /\ [room EXCEPT ![r].type = t, ![r].active = a] \in [Room -> RoomRecord]
             /\ Symmetric([room EXCEPT ![r].type = t, ![r].active = a])
             /\ [room EXCEPT ![r].type = t, ![r].active = a][r].type # None
             /\ \A q \in Room : Created(q) =>
                  [room EXCEPT ![r].type = t, ![r].active = a][q].type # None
  <2> DEFINE new == [room EXCEPT ![r].type = t, ![r].active = a]
  <2>1. /\ new \in [Room -> RoomRecord] /\ new[r].type = t
        /\ \A q \in Room : new[q].adjoining = room[q].adjoining
        /\ \A q \in Room \ {r} : new[q].type = room[q].type
    BY <1>1, <1>3 DEF RoomRecord
  <2>2. \A q \in Room : room[q].adjoining # None => room[q].adjoining \in Room
    BY <1>1 DEF RoomRecord
  <2> HIDE DEF new
  <2>3. t # None /\ \A q \in Room : room[q].type # None => new[q].type # None
    BY <1>3, <2>1
  <2>4. Symmetric(new)
    BY <2>1, <2>2, <2>3 DEF Symmetric
  <2> QED BY <2>1, <2>3, <2>4 DEF new, Created
<1>4. ASSUME NEW t \in RoomType, NEW a \in BOOLEAN, UpdateRoom(r, t, a)
      PROVE  Symmetric(room')
  BY <1>3, <1>4 DEF UpdateRoom
<1>5. ASSUME NEW t \in RoomType, NEW a \in BOOLEAN, NEW p \in EditableRoom \cup {None},
             UpdateRoomAndPair(r, t, a, p)
      PROVE  Symmetric(room')
  <2>1. p \in Room \cup {None} /\ p # r /\ (p # None => Created(p))
    BY <1>5, BoundsAssumption DEF UpdateRoomAndPair
  <2>2. room' = Paired([room EXCEPT ![r].type = t, ![r].active = a], r, p)
    BY <1>5 DEF UpdateRoomAndPair
  <2> QED BY <1>3, <2>1, <2>2, PairedSymmetric
<1>6. ASSUME DeactivateRoom(r)
      PROVE  Symmetric(room')
  <2>1. Symmetric(Paired(room, r, None)) /\ Paired(room, r, None) \in [Room -> RoomRecord]
    BY <1>1, <1>6, PairedSymmetric, PairedType DEF DeactivateRoom, Created
  <2>2. room' = [Paired(room, r, None) EXCEPT ![r].active = FALSE]
    BY <1>6 DEF DeactivateRoom
  <2> HIDE DEF Paired
  <2> QED BY <2>1, <2>2 DEF Symmetric, RoomRecord
<1> QED BY <1>2, <1>4, <1>5, <1>6 DEF RoomEdit

(* Through any sequence of edits, by any administrators, of any number of  *)
(* rooms, a room and its adjoining room point at each other.               *)
THEOREM PairsStaySymmetric == InventorySpec => []PairingSymmetric
<1> DEFINE Inv == InventoryTypeOK /\ Symmetric(room)
<1>1. InventoryInit => Inv
  BY InventoryInitType, PairingAssumption DEF InventoryInit, Symmetric
<1>2. Inv /\ [InventoryNext]_inventory => Inv'
  <2> SUFFICES ASSUME Inv, [InventoryNext]_inventory PROVE Inv'
    OBVIOUS
  <2>1. InventoryTypeOK'
    <3>1. CASE InventoryNext
      BY <3>1, InventoryNextType
    <3>2. CASE UNCHANGED inventory
      BY <3>2, InventoryUnchangedType
    <3> QED BY <3>1, <3>2
  <2>2. ASSUME NEW r \in EditableRoom, RoomEdit(r) PROVE Symmetric(room')
    BY <2>2, RoomEditSymmetric
  <2>3. room' = room => Symmetric(room')
    OBVIOUS
  <2>4. ASSUME NEW b \in EditableBlock, BlockEdit(b) PROVE room' = room
    BY <2>4 DEF BlockEdit, CreateBlock, UpdateBlock, DeleteBlock
  <2>5. ASSUME NEW t, NEW n, UpdateRoomType(t, n) PROVE room' = room
    BY <2>5 DEF UpdateRoomType
  <2>6. Symmetric(room')
    BY <2>2, <2>3, <2>4, <2>5 DEF InventoryNext, inventory
  <2> QED BY <2>1, <2>6 DEF Symmetric
<1>3. Inv => PairingSymmetric
  BY DEF Symmetric, PairingSymmetric
<1> QED BY <1>1, <1>2, <1>3, PTL DEF InventorySpec

--------------------------------------------------------------------------------
(* Blocked rooms.                                                          *)

(* However many rooms, blocks and types there are, the rooms that can be   *)
(* sold are at most the active rooms without a block of their own, less    *)
(* the units held for their type.                                          *)
THEOREM BlockedRoomsNeverSold == InventorySpec => []BlockedNeverSold
<1>1. InventoryTypeOK => BlockedNeverSold
  <2> SUFFICES ASSUME InventoryTypeOK, NEW t \in RoomType, NEW d \in Day
               PROVE  Capacity(Supply(t, d)) - allowance[t] <=
                        Max2(Cardinality(ActiveRooms(t) \ BlockedRooms(t, d)) - TypeBlocks(t, d), 0)
    BY DEF BlockedNeverSold
  <2>1. IsFiniteSet(ActiveRooms(t)) /\ IsFiniteSet(BlockedRooms(t, d))
    BY SetsAssumption, FS_Subset DEF ActiveRooms, BlockedRooms
  <2> DEFINE A == ActiveRooms(t)
  <2> DEFINE B == BlockedRooms(t, d)
  <2>2. Cardinality(A \ B) = Cardinality(A) - Cardinality(A \cap B)
    BY <2>1, FS_Difference
  <2>3. Cardinality(A \cap B) <= Cardinality(B)
    BY <2>1, FS_Subset
  <2>4. /\ Cardinality(A) \in Nat /\ Cardinality(B) \in Nat /\ Cardinality(A \cap B) \in Nat
        /\ IsFiniteSet(A \cap B)
    BY <2>1, FS_Subset, FS_CardinalityType
  <2>5. Supply(t, d) \in SupplyRecord
    BY SupplyType
  <2>6. /\ Supply(t, d).active = Cardinality(A) /\ Supply(t, d).roomBlocks = Cardinality(B)
        /\ Supply(t, d).typeBlocks = TypeBlocks(t, d) /\ Supply(t, d).allowance = allowance[t]
    BY DEF Supply, ActiveRoomCount, RoomBlocks
  <2>7. TypeBlocks(t, d) \in Nat /\ allowance[t] \in Nat
    BY <2>5, <2>6 DEF SupplyRecord
  <2> HIDE DEF A, B
  <2> QED BY <2>2, <2>3, <2>4, <2>6, <2>7 DEF Capacity, Max2, A, B
<1> QED BY <1>1, InventoryTypeCorrect, PTL

================================================================================
