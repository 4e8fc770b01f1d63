\* One request at a time: two stays of the same nights, one of them a possible
\* walk-in, two rooms; the rows before the last commit are remembered.
CONSTANTS
  x1 = x1
  x2 = x2
  l1 = l1
  l2 = l2
  Reservation = {x1, x2}
  Booked = {x1}
  Line = {l1, l2}
  Lines <- OneLineEach
  Stay <- SameNights
  Room = {1, 2}
  Fitting <- AllFit
  RoomBlock <- NoBlocks
  Actor = {a1}
  Session = {s1}
  None = None
  MaxEvents = 5
SPECIFICATION HistorySpec
\* The bound on events stops every request in the end.
CHECK_DEADLOCK FALSE
INVARIANTS FrontDeskTypeOK UndoLogMatchesStatus
PROPERTIES OnlyUndoneCheckOutShares UndoAtOnceRestores
