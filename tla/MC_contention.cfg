\* Three requests contend for two rooms; no modification (one tag), so that three
\* reservations fit.
CONSTANTS
  std = std
  suite = suite
  r1 = r1
  r2 = r2
  RoomType = {std}
  Room = {r1, r2}
  Day = {1, 2}
  BlockId = {}
  None = None
  InitRoom <- AllStd
  InitBlock <- NoBlock
  InitAllowance <- NoOverbooking
  EditableRoom = {}
  EditableBlock = {}
  Allowance = {}
  MaxUnits = 1
  Session = {s1, s2, s3}
  NoSession = NoSession
  Reservation = {x1, x2, x3}
  Payload <- Mixed
  Gen = {1}
  MayOverlap = FALSE
SPECIFICATION Spec
SYMMETRY Interchangeable
\* The reservation ids run out: with every reservation cancelled no request is left.
CHECK_DEADLOCK FALSE
INVARIANTS DeadlockNeedsManyLines
