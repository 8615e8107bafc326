SPECIFICATION FairSpec
CONSTANTS
  a = a
  b = b
  Tasks <- TwoTasks
  Statuses <- TwoStatuses
  Initial = "TODO"
  BatchSize <- PairsAtMost
  MaxEdits = 2
  MaxMoves = 2
  MaxUpdates = 3
  MaxCrashes = 1
INVARIANTS TypeOK ConvergedUnlessDoubtful
PROPERTY EventuallyConsistent
CHECK_DEADLOCK FALSE
