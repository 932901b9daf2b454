\* A stray served after the resend.
SPECIFICATION FairSpec
CONSTANTS
  Tabs = {t1}
  BATCH_OPS = 2
  MaxOps = 3

\* The device makes no more than MaxOps operations.
CHECK_DEADLOCK FALSE
PROPERTIES
  MovesApplyInOrder
