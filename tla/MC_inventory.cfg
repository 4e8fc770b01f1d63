\* Four rooms, so that one pairing can break two others; two blocks of up to two units.
CONSTANTS
  RoomType = {std, suite}
  std = std
  suite = suite
  newRoom = r4
  Room = {r1, r2, r3, r4}
  Day = {1}
  BlockId = {b1, b2}
  None = None
  InitRoom <- OneToCreate
  InitBlock <- NoBlock
  InitAllowance <- NoOverbooking
  EditableRoom = {r1, r2, r3, r4}
  EditableBlock = {b1, b2}
  Allowance = {}
  MaxUnits = 2
SPECIFICATION InventorySpec
SYMMETRY Interchangeable
INVARIANTS PairingSymmetric BlockedNeverSold
