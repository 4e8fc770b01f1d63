------------------------------- MODULE Inventory -------------------------------
(***************************************************************************)
(* The rooms of the property, the blocks that take rooms out of sale and   *)
(* the overbooking allowance of each room type                             *)
(* (app/modules/inventory), together with the supply the availability      *)
(* service computes from them (app/modules/availability).                  *)
(*                                                                         *)
(* Every administrator request is one database transaction that writes the *)
(* values it was given, so each is one action here.  Two requests that     *)
(* re-pair the same rooms at the same time are outside this module.        *)
(***************************************************************************)
EXTENDS DateRange, FiniteSets

CONSTANTS
  RoomType,        \* room types
  Room,            \* room ids, those not created yet included
  Day,             \* the nights that can be sold
  BlockId,         \* room block ids
  None,            \* an absent foreign key or row
  InitRoom,        \* the rooms at the start: [Room -> RoomRecord]
  InitBlock,       \* the blocks at the start: [BlockId -> BlockRecord \cup {None}]
  InitAllowance,   \* the overbooking allowances at the start: [RoomType -> Nat]
  EditableRoom,    \* bound: the rooms an administrator creates or changes
  EditableBlock,   \* bound: the blocks an administrator creates or changes
  Allowance,       \* bound: the allowances an administrator sets
  MaxUnits         \* bound: the largest number of units one block holds

RoomRecord == [type: RoomType \cup {None}, active: BOOLEAN, adjoining: Room \cup {None}]

(* A block names exactly one of a room and a room type.                    *)
BlockRecord ==
  {b \in [room: Room \cup {None}, type: RoomType \cup {None}, units: 1..MaxUnits,
          start: Int, end: Int] :
     /\ b.start < b.end
     /\ (b.room = None) # (b.type = None)}

ASSUME SetsAssumption ==
  /\ IsFiniteSet(Room) /\ IsFiniteSet(BlockId)
  /\ Day \subseteq Int
  /\ None \notin RoomType \cup Room
  /\ MaxUnits \in Nat
ASSUME BoundsAssumption ==
  /\ EditableRoom \subseteq Room
  /\ EditableBlock \subseteq BlockId
  /\ Allowance \subseteq Nat
ASSUME InitialAssumption ==
  /\ InitRoom \in [Room -> RoomRecord]
  /\ DOMAIN InitBlock = BlockId
  /\ \A b \in BlockId : InitBlock[b] = None \/ InitBlock[b] \in BlockRecord
  /\ InitAllowance \in [RoomType -> Nat]
ASSUME PairingAssumption ==
  \A r \in Room : LET p == InitRoom[r].adjoining IN
    p # None => InitRoom[r].type # None /\ p # r /\ InitRoom[p].adjoining = r

VARIABLES
  room,        \* [Room -> RoomRecord]; a room not created yet has type None
  block,       \* [BlockId -> BlockRecord], None for a row that does not exist
  allowance    \* RoomType.overbooking_allowance

inventory == <<room, block, allowance>>

(* Rows, blocks and allowances have the shapes the tables declare.         *)
InventoryTypeOK ==
  /\ room \in [Room -> RoomRecord]
  /\ DOMAIN block = BlockId
  /\ \A b \in BlockId : block[b] = None \/ block[b] \in BlockRecord
  /\ allowance \in [RoomType -> Nat]

--------------------------------------------------------------------------------
(* What the availability service reads of the inventory, part by part.     *)

Created(r) == room[r].type # None

ActiveRooms(t) == {r \in Room : room[r].type = t /\ room[r].active}

Covers(b, d) == block[b] # None /\ d \in Nights(block[b].start, block[b].end)

(* The rooms of a type that a block of their own covers.  The query joins  *)
(* the rooms without asking whether they are active.                       *)
BlockedRooms(t, d) ==
  {r \in Room : room[r].type = t /\ \E b \in BlockId : Covers(b, d) /\ block[b].room = r}

(* The units held by the blocks of a whole type, one pair per unit.        *)
HeldBlockUnits(t, d) ==
  {x \in BlockId \X (1..MaxUnits) :
     /\ Covers(x[1], d)
     /\ block[x[1]].room = None /\ block[x[1]].type = t
     /\ x[2] <= block[x[1]].units}

ActiveRoomCount(t) == Cardinality(ActiveRooms(t))
RoomBlocks(t, d) == Cardinality(BlockedRooms(t, d))
TypeBlocks(t, d) == Cardinality(HeldBlockUnits(t, d))

SupplyRecord == [allowance: Nat, active: Nat, roomBlocks: Nat, typeBlocks: Nat]

Supply(t, d) ==
  [allowance |-> allowance[t], active |-> ActiveRoomCount(t),
   roomBlocks |-> RoomBlocks(t, d), typeBlocks |-> TypeBlocks(t, d)]

(* MUTANT of Capacity: the holds on a whole type are forgotten.            *)
CapacityWithoutTypeBlocks(q) == Max2(q.active - q.roomBlocks, 0) + q.allowance

(* availability.service.capacity, of the four values it reads.             *)
Capacity(q) == Max2(q.active - (q.roomBlocks + q.typeBlocks), 0) + q.allowance

--------------------------------------------------------------------------------
(* MUTANT of Paired: the former partners keep pointing at r and p.         *)
PairedOneWay(rooms, r, p) ==
  [q \in Room |->
     IF q = r THEN [rooms[q] EXCEPT !.adjoining = p]
     ELSE IF q = p THEN [rooms[q] EXCEPT !.adjoining = r] ELSE rooms[q]]

(* set_adjoining_room as a function of the rooms: the old partner of r and *)
(* the old partner of p are detached when they point back, then r and p    *)
(* point at each other.                                                    *)
Paired(rooms, r, p) ==
  IF rooms[r].adjoining = p THEN rooms
  ELSE [q \in Room |->
         IF q = r THEN [rooms[q] EXCEPT !.adjoining = p]
         ELSE IF q = p THEN [rooms[q] EXCEPT !.adjoining = r]
         ELSE IF \E o \in {r, p} \ {None} : rooms[q].adjoining = o /\ rooms[o].adjoining = q
           THEN [rooms[q] EXCEPT !.adjoining = None]
         ELSE rooms[q]]

CreateRoom(r, t, a) ==
  /\ ~Created(r)
  /\ room' = [room EXCEPT ![r] = [type |-> t, active |-> a, adjoining |-> None]]
  /\ UNCHANGED <<block, allowance>>

UpdateRoom(r, t, a) ==
  /\ Created(r)
  /\ room' = [room EXCEPT ![r].type = t, ![r].active = a]
  /\ UNCHANGED <<block, allowance>>

(* update_room with adjoining_room_id among its changes.                   *)
UpdateRoomAndPair(r, t, a, p) ==
  /\ Created(r)
  /\ p # r
  /\ p # None => Created(p)
  /\ room' = Paired([room EXCEPT ![r].type = t, ![r].active = a], r, p)
  /\ UNCHANGED <<block, allowance>>

DeactivateRoom(r) ==
  /\ Created(r)
  /\ room' = [Paired(room, r, None) EXCEPT ![r].active = FALSE]
  /\ UNCHANGED <<block, allowance>>

UpdateRoomType(t, n) ==
  /\ allowance' = [allowance EXCEPT ![t] = n]
  /\ UNCHANGED <<room, block>>

(* The unique constraint on (room_id, start_date); a NULL room never       *)
(* clashes.                                                                *)
NoClash(b, rec) ==
  rec.room # None =>
    \A c \in BlockId \ {b} :
      block[c] # None => ~(block[c].room = rec.room /\ block[c].start = rec.start)

(* MUTANT of BlockSpan: an empty range is accepted.                        *)
BlockSpanOrEmpty == {x \in Day \X (Day \cup {d + 1 : d \in Day}) : x[1] <= x[2]}

(* Date ranges with at least one night: what the validators let through.   *)
BlockSpan == {x \in Day \X {d + 1 : d \in Day} : x[1] < x[2]}

CreateBlock(b, r, t, n, span) ==
  LET rec == [room |-> r, type |-> t, units |-> n, start |-> span[1], end |-> span[2]]
  IN  /\ block[b] = None
      /\ rec \in BlockRecord
      /\ r # None => Created(r)
      /\ NoClash(b, rec)
      /\ block' = [block EXCEPT ![b] = rec]
      /\ UNCHANGED <<room, allowance>>

UpdateBlock(b, n, span) ==
  LET rec == [block[b] EXCEPT !.units = n, !.start = span[1], !.end = span[2]]
  IN  /\ block[b] # None
      /\ NoClash(b, rec)
      /\ block' = [block EXCEPT ![b] = rec]
      /\ UNCHANGED <<room, allowance>>

DeleteBlock(b) ==
  /\ block[b] # None
  /\ block' = [block EXCEPT ![b] = None]
  /\ UNCHANGED <<room, allowance>>

InventoryInit ==
  /\ room = InitRoom
  /\ block = InitBlock
  /\ allowance = InitAllowance

RoomEdit(r) ==
  \/ \E t \in RoomType, a \in BOOLEAN : CreateRoom(r, t, a) \/ UpdateRoom(r, t, a)
  \/ \E t \in RoomType, a \in BOOLEAN, p \in EditableRoom \cup {None} :
       UpdateRoomAndPair(r, t, a, p)
  \/ DeactivateRoom(r)

BlockEdit(b) ==
  \/ \E r \in Room \cup {None}, t \in RoomType \cup {None}, n \in 1..MaxUnits,
        span \in BlockSpan : CreateBlock(b, r, t, n, span)
  \/ \E n \in 1..MaxUnits, span \in BlockSpan : UpdateBlock(b, n, span)
  \/ DeleteBlock(b)

InventoryNext ==
  \/ \E r \in EditableRoom : RoomEdit(r)
  \/ \E b \in EditableBlock : BlockEdit(b)
  \/ \E t \in RoomType, n \in Allowance : UpdateRoomType(t, n)

InventorySpec == InventoryInit /\ [][InventoryNext]_inventory

--------------------------------------------------------------------------------
(* Adjoining rooms point at each other, whatever sequence of pairings,     *)
(* re-pairings and deactivations led here (set_adjoining_room: "kept       *)
(* symmetric on both sides").                                              *)
PairingSymmetric ==
  \A r \in Room : room[r].adjoining # None =>
    /\ room[r].adjoining # r
    /\ room[room[r].adjoining].adjoining = r

(* A blocked room is never counted as one that can be sold: the physical   *)
(* part of the capacity is at most the active rooms that no block of their *)
(* own covers, less the units held for the type.  (capacity() may be       *)
(* smaller than that: a room both inactive and blocked is subtracted       *)
(* twice.)                                                                 *)
BlockedNeverSold ==
  \A t \in RoomType, d \in Day :
    Capacity(Supply(t, d)) - allowance[t] <=
      Max2(Cardinality(ActiveRooms(t) \ BlockedRooms(t, d)) - TypeBlocks(t, d), 0)

================================================================================
