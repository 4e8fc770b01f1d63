\* Two plans made to derive from each other.
CONSTANTS
  p1 = p1
  p2 = p2
  p3 = p3
  Plan = {p1, p2, p3}
  RoomType = {1}
  Day = {1, 2}
  Amount <- OneAmount
  Adjustment <- TenPercentMore
  Edit <- NoEdit
  MAX_DERIVE_DEPTH = 1
  None = None
SPECIFICATION Spec
INVARIANTS NoPlanDerivesFromItself
