\* What the ledger counts after a check-out.
CONSTANTS
  std = std
  suite = suite
  r1 = r1
  r2 = r2
  RoomType = {std}
  Room = {r1}
  Day = {1}
  BlockId = {}
  None = None
  InitRoom <- AllStd
  InitBlock <- NoBlock
  InitAllowance <- NoOverbooking
  EditableRoom = {}
  EditableBlock = {}
  Allowance = {}
  MaxUnits = 1
  Session = {s1, s2}
  NoSession = NoSession
  Reservation = {x1, x2}
  Payload <- OneNight
  Gen = {1, 2}
  MayOverlap = FALSE
SPECIFICATION Spec
SYMMETRY Interchangeable
\* The reservation ids run out: with every reservation cancelled no request is left.
CHECK_DEADLOCK FALSE
INVARIANTS LedgerCountsActiveOnly
