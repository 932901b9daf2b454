\* Levels and drills of one card: descents, replacements, restores, purges, completions.
SPECIFICATION Spec
CONSTANTS
  s1 = s1
  s2 = s2
  Source = src
  QuizIds = {src, a, b}
  NoQuiz = NoQuiz
  Questions <- MCThree
  Seeds <- MCOneSeed
  ResetSeed <- MCResetSeed
  Shuffle <- MCShuffle
  SegmentSizes = {0, 1}
  ClearThresholds = {50}
  MaxAttempt = 2
  CursorRequests = {}
  OptionRequests = {}
SYMMETRY MCSymmetry
\* A purged cascade takes no operation.
CHECK_DEADLOCK FALSE
INVARIANTS
  LevelsAreAStack
  AttemptsRecordedOnce
  ChainsStayDrill
PROPERTIES
  MissesStayInPlay
  CompletedFromTheBottom
  ImplementsLevelStack
