SPECIFICATION FairSpec
CONSTANTS
  a = a
  b = b
  Tasks <- OneTask
  Statuses <- TwoStatuses
  Initial = "TODO"
  BatchSize <- PairsAtMost
  MaxEdits = 0
  MaxMoves = 1
  MaxUpdates = 1
  MaxCrashes = 0
INVARIANT Converged
CHECK_DEADLOCK FALSE
