\* Liveness: group bookings that lock two types in opposite orders, and pairings that
\* lock rooms in any order.
CONSTANTS
  Administrator = {a1, a2}
  std = std
  suite = suite
  r1 = r1
  r2 = r2
  r3 = r3
  r4 = r4
  RoomType = {std, suite}
  Room = {r1, r2, r3, r4}
  Day = {1}
  BlockId = {}
  None = None
  InitRoom <- TwoActive
  InitBlock <- NoBlock
  InitAllowance <- NoOverbooking
  EditableRoom = {}
  EditableBlock = {}
  Allowance = {}
  MaxUnits = 1
  Session = {s1, s2}
  NoSession = NoSession
  Reservation = {x1, x2}
  Payload <- Crossing
  Gen = {1, 2}
  MayOverlap = FALSE
SPECIFICATION ScenesSpec
\* The reservation ids run out: with every reservation cancelled no request is left.
CHECK_DEADLOCK FALSE
INVARIANTS PairsSymmetric
PROPERTIES RequestsFinish PairingsFinish PairsAtomically
