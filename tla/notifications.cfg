SPECIFICATION FairSpec
CONSTANTS
  Scenarios <- Instances
  BatchSize = 2
  MaxLog = 3
  MaxFlushes = 2
  MaxCrashes = 1
INVARIANTS TypeOK DroppedWithNeighbour
PROPERTIES Delivers EventuallyHandled
CHECK_DEADLOCK FALSE
