SPECIFICATION FairSpec
CONSTANTS
  N = 3
  Lists <- AllLists
  Modes <- AllModes
  Requests = 2
  Limit = 2
INVARIANTS TypeOK NothingInvented CreationsShown
PROPERTY ListHealsByExpiry
