\* Two instances, three items, one failed statement.
SPECIFICATION FairSpec
CONSTANTS
  Instances = {i1, i2}
  Stored <- MCOneDistribution
  n = n
  Names = {n}
  MaxItems = 3
  MaxErrors = 1
  Faults = {"error", "stall"}
\* Uploads and instance ids run out.
CHECK_DEADLOCK FALSE
INVARIANTS
  ListedIsServed
  SnapshotsAreWhole
PROPERTIES
  StartupHidesNothing
  
