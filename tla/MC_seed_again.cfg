\* seed_demo run a second time without --force.
CONSTANTS
  HORIZON = 6
  MaxDay = 1
  MaxBatches = 2
  Guest = {"Diego", "Leilani"}
  Spare = {202}
  None = None
SPECIFICATION Spec
PROPERTIES UnforcedSeedKeepsEdits
