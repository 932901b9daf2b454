\* Two requests; two cascades, one slot for a search.
SPECIFICATION FairSpec
CONSTANTS
  Requests = {r1, r2}
  c1 = c1
  c2 = c2
  Cascades = {c1, c2, c3}
  Searches = {s1, s2}
  Names = {n1, n2}
  Tokens = {t1}
  Scenarios <- MCScenarios
  None = none
  MaxCascades = 2
  MaxSearches = 1
  MaxPerRun = 1
  MaxClears = 2
  MaxFailures = 2
  Slow = FALSE
INVARIANTS
  WithinLimits
  
PROPERTIES
  
  TrashDrains
