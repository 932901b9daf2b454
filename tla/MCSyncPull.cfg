\* A cascade and its quiz, pages of one row.
SPECIFICATION Spec
CONSTANTS
  Cascades = {1}
  Quizzes = {3}
  Home <- MCHome
  Creatable = {1}
  Studied = {1}
  PAGE_ROWS = 1
  MaxSeq = 6
\* The server hands out no more than MaxSeq sequences.
CHECK_DEADLOCK FALSE
INVARIANTS
  NothingMissed
  NoZombies
PROPERTIES
  HeldRowsStay
