\* A second user moves the guest away and back before the first undoes.
CONSTANTS
  x1 = x1
  x2 = x2
  l1 = l1
  l2 = l2
  Reservation = {x1, x2}
  Booked = {x1, x2}
  Line = {l1, l2}
  Lines <- OneLineEach
  Stay <- SameNights
  Room = {1, 2}
  Fitting <- AllFit
  RoomBlock <- NoBlocks
  Actor = {a1, a2}
  Session = {s1}
  None = None
  MaxEvents = 5
SPECIFICATION Spec
\* The bound on events stops every request in the end.
CHECK_DEADLOCK FALSE
PROPERTIES ThirdPartyMoveCaught
