\* Two changes, cycles interrupted at any stage.
SPECIFICATION Spec
CONSTANTS
  Devices = {d1, d2}
  Units = {"grade", "options", "preferences"}
  SKEW = 1
  Breaks = {"answered", "written", "acknowledged", "rebased"}
  Times = {0, 2}
  MaxNow = 1
  MaxOps = 2
  MaxSeq = 4
SYMMETRY MCSymmetry
\* Operations and requests run out.
CHECK_DEADLOCK FALSE
INVARIANTS
  UnseenYieldsToTheLater
  PendingStaysShown
  KnownChangesWin
  SettledDevicesAgree
