\* Two tabs without Web Locks, whose requests fail but not for ever.
SPECIFICATION FairSpec
CONSTANTS
  Tabs = {t1, t2}
  BATCH_OPS = 2
  MaxOps = 2
\* The device makes no more than MaxOps operations.
CHECK_DEADLOCK FALSE
INVARIANTS
  DecidedAtMostOnce
  
  AnswersAreTrue
PROPERTIES
  
  OutboxDrains
