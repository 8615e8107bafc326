SPECIFICATION FairSpec
CONSTANTS
  Handlers <- AllHandlers
  Kinds <- AllKinds
  FaultSets <- AllFaults
  BatchSize = 2
  MaxLog = 2
  MaxRestarts = 2
INVARIANTS TypeOK NothingSkipped NoTaskLostByCrashes OnlyPoisonWithoutExpiry
PROPERTIES Delivers EventuallyHandled EventuallyCommitted
CHECK_DEADLOCK FALSE
