\* Every subset of the twelve modules; all six revisions, with crashes at every statement;
\* two days, two sample batches with two guests followed, six nights priced ahead.
CONSTANTS
  Enabled <- AnyModules
  None = None
  HORIZON = 6
  MaxDay = 1
  MaxBatches = 2
  Guest = {"Diego", "Leilani"}
  Spare = {202}
SPECIFICATION DeploymentSpec
INVARIANTS
  LookupsSucceed NoRouteShadowed RecordedContextComplete StampMatchesSchema OneDemoReservation
PROPERTIES OnlyUndoneCheckOutSharesRooms StartCompletes CommandsFinish
