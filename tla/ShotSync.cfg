CONSTANTS
  c1 = c1
  c2 = c2
  MaxShots = 2
  Numbers = {1, 2}
  Unreadable = {{}, {1}}
  Contents = {c1, c2}
  NoContent = NoContent
  GiveUp = 2
  MaxFaults = 1
  MaxTouches = 2
  MaxPasses = 2
SPECIFICATION Spec
SYMMETRY Permuted
INVARIANTS ArchiveOK LinkedToBrewed PassSettles
CHECK_DEADLOCK FALSE
