CONSTANTS
  MaxKey = 2
  MaxCut = 0
  Limit = 2
  MaxPages = 2
SPECIFICATION Spec
INVARIANTS ImportSkipsDuplicates
CHECK_DEADLOCK FALSE
