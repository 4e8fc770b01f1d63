\* Either rooms are taken out of service and put back and overbooking is allowed, or a
\* block on a room or on the type comes and goes, while two requests are open.
CONSTANTS
  std = std
  suite = suite
  r1 = r1
  r2 = r2
  RoomType = {std}
  Room = {r1, r2}
  Day = {1}
  BlockId = {b1}
  None = None
  InitRoom <- AllStd
  InitBlock <- NoBlock
  InitAllowance <- NoOverbooking
  EditableRoom = {r2}
  EditableBlock = {b1}
  Allowance = {1}
  MaxUnits = 1
  Session = {s1, s2}
  NoSession = NoSession
  Reservation = {x1, x2}
  Payload <- OneNight
  Gen = {1, 2}
  MayOverlap = FALSE
SPECIFICATION Spec
CONSTRAINT OneKindOfEdit
SYMMETRY Interchangeable
\* The reservation ids run out: with every reservation cancelled no request is left.
CHECK_DEADLOCK FALSE
INVARIANTS TypeOK
PROPERTIES ImplementsRoomSales
