CONSTANTS
  MaxKey = 2
  MaxCut = 1
  Limit = 1
  MaxPages = 3
SPECIFICATION FairSpec
INVARIANTS TypeOK SingleFlight DoneOnce NotPendingAfterReturn Complete SyncTimeEarned
PROPERTIES SyncEnds
CHECK_DEADLOCK FALSE
