\* The algorithms on enumerated inputs.  The limits are small enough to be
\* exceeded; the behaviour stops after one input.
CONSTANTS
  BOUNDS = {0, 1, 4, 100}
  ENTRIES = {"ok", "blank", "unknown", "long", "unsorted"}
  Conditions <- MCConditions
  Depth = 2
  Distribution <- MCDistribution
  WordUploads <- MCWordUploads
  LeaveUploads <- MCLeaveUploads
  SearchedWords <- MCSearchedWords
  SearchedLeaves <- MCSearchedLeaves
  PatternRows <- MCPatternRows
  WordTrees <- MCWordTrees
  LeaveTrees <- MCLeaveTrees
  NONE = NONE
  WRONG = WRONG
  BAD = BAD
  MAX_ROWS = 3
  MAX_GROUPS = 3
  MAX_DEPTH = 3
  MAX_WORD_LIST_ENTRIES = 2
  COLUMN_MAX = 2
  INT_BITS = 8
  MAX_LETTER = 2
  MAX_TILES = 4
  MAX_WORD_TILES = 3
  MAX_LEAVE_TILES = 2
  MAX_LEAVE_VALUE = 1
SPECIFICATION Spec
INVARIANTS IndexesAreSound PatternsAreExact SearchesAreExact 
CHECK_DEADLOCK FALSE
