\* One tab; two events: a grade or a reset elsewhere, a failed request, a closed app.
SPECIFICATION FairSpec
CONSTANTS
  Questions = {0, 1}
  INDEX_PAGE = 1
  Starts <- MCStarts
  Last <- MCLast
  Leader = leader
  Managers = {leader}
  MaxEvents = 2
INVARIANTS
  WitnessIsHonest
  ReadyIsCurrent
PROPERTY GetsReady
