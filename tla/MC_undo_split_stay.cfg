\* A guest with two lines in the same room, one night each.
CONSTANTS
  x1 = x1
  x2 = x2
  l1 = l1
  l2 = l2
  Reservation = {x1}
  Booked = {x1}
  Line = {l1, l2}
  Lines <- TwoLines
  Stay <- OneAfterTheOther
  Room = {1}
  Fitting <- AllFit
  RoomBlock <- NoBlocks
  Actor = {a1}
  Session = {s1}
  None = None
  MaxEvents = 5
SPECIFICATION HistorySpec
\* The bound on events stops every request in the end.
CHECK_DEADLOCK FALSE
PROPERTIES UndoAtOnceRestores
