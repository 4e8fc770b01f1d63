\* Two requests over one type with two rooms: two-night stays, and bookings of two
\* lines that visit the nights in the opposite order.
CONSTANTS
  std = std
  suite = suite
  r1 = r1
  r2 = r2
  RoomType = {std}
  Room = {r1, r2}
  Day = {1, 2}
  BlockId = {}
  None = None
  InitRoom <- AllStd
  InitBlock <- NoBlock
  InitAllowance <- NoOverbooking
  EditableRoom = {}
  EditableBlock = {}
  Allowance = {}
  MaxUnits = 1
  Session = {s1, s2}
  NoSession = NoSession
  Reservation = {x1, x2, x3}
  Payload <- Mixed
  Gen = {1, 2}
  MayOverlap = FALSE
SPECIFICATION Spec
SYMMETRY Interchangeable
\* The reservation ids run out: with every reservation cancelled no request is left.
CHECK_DEADLOCK FALSE
INVARIANTS LedgerMatchesBookings NoOversell
PROPERTIES LifecycleFollowed ReleaseNeverClamps
