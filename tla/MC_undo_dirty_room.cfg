\* One guest after the other in the same room; the first check-out is undone last.
CONSTANTS
  x1 = x1
  x2 = x2
  l1 = l1
  l2 = l2
  Reservation = {x1, x2}
  Booked = {x1, x2}
  Line = {l1, l2}
  Lines <- OneLineEach
  Stay <- OneAfterTheOther
  Room = {1}
  Fitting <- AllFit
  RoomBlock <- NoBlocks
  Actor = {a1}
  Session = {s1}
  None = None
  MaxEvents = 8
SPECIFICATION Spec
\* The bound on events stops every request in the end.
CHECK_DEADLOCK FALSE
PROPERTIES LaterDepartureStaysDirty
