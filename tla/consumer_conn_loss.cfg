SPECIFICATION Spec
CONSTANTS
  Handlers <- TasksOnly
  Kinds <- GoodOnly
  FaultSets <- ConnFault
  BatchSize = 2
  MaxLog = 2
  MaxRestarts = 0
INVARIANT NoTaskLost
CHECK_DEADLOCK FALSE
