SPECIFICATION FairSpec
CONSTANTS
  Services <- OneService
  Modes <- AllModes
  Requests = 2
  MaxLogouts = 2
  EntryTTL = 2
  TokenTTL = 2
  SessionTTL = 3
INVARIANTS TypeOK RevocationBounded LogoutPurges AccountAnnounced
PROPERTY RevokedFinally
