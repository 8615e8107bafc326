SPECIFICATION FairSpec
CONSTANTS
  N = 2
  Requests = 2
  Modes <- AllModes
  Limit = 2
  Cap = 2
  MaxUpdates = 2
  MaxCreated <- CreatedBound
  MaxWrites = 3
  Cursors = {0}
  Statuses <- Board
  Initial = "TODO"
  Users <- Team
  First = "u1"
INVARIANTS TypeOK BoardMatches
PROPERTIES MoveShown BoardHealsByExpiry
CHECK_DEADLOCK FALSE
