SPECIFICATION Spec
CONSTANTS
  N = 2
  Requests = 1
  Modes <- Settled
  Limit = 1
  Cap = 2
  MaxUpdates = 0
  MaxCreated <- CreatedBound
  MaxWrites = 3
  Cursors = {0}
  Statuses <- Board
  Initial = "TODO"
  Users <- Team
  First = "u1"
INVARIANTS BoardMatches
CHECK_DEADLOCK FALSE
