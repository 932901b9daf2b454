\* One tab; one operation of another device.
SPECIFICATION Spec
CONSTANTS
  Questions = {0, 1}
  INDEX_PAGE = 1
  Starts <- MCUnplayed
  Last <- MCLast
  Leader = leader
  Managers = {leader}
  MaxEvents = 1
PROPERTY PendingIsClearedWhole
