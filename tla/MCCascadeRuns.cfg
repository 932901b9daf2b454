\* Segments of one quiz and one drill while the segment size changes.
SPECIFICATION Spec
CONSTANTS
  s1 = s1
  s2 = s2
  Source = src
  QuizIds = {src, a}
  NoQuiz = NoQuiz
  Questions <- MCThree
  Seeds <- MCOneSeed
  ResetSeed <- MCResetSeed
  Shuffle <- MCShuffle
  SegmentSizes = {0, 1, 2}
  ClearThresholds = {100}
  MaxAttempt = 2
  CursorRequests = {1, 2}
  OptionRequests <- MCSizeChanges
SYMMETRY MCSymmetry
\* A purged cascade takes no operation.
CHECK_DEADLOCK FALSE
INVARIANTS
  CountersMatchGrades
  RunsTileThePassedPart
