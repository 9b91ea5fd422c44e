CONSTANTS
  MaxKey = 2
  MaxCut = 1
  Limit = 1
  MaxPages = 3
SPECIFICATION Spec
INVARIANTS PagesCover
CHECK_DEADLOCK FALSE
