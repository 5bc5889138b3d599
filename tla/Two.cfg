SPECIFICATION BudgetSpec
CONSTANTS
  d1 = d1
  d2 = d2
  b1 = b1
  s1 = s1
  None = None
  NoSnapshot = NoSnapshot
  ClassNames = {c1, c2}
  Provisioners = {d1}
  Bases = {b1}
  Snapshots = {s1}
  ClassSpecs <- OneClass
  SnapDrivers = {}
  Published <- SameModes
  Workers = {w1, w2}
  CapabilityEdits <- Deletion
  WatchMayBreak = FALSE
  ApiMayFail = FALSE
  MaxDisturbances = 1
SYMMETRY ClassSymmetry
INVARIANTS
  KeyExclusive
  NoLostUpdate
  ExistingClassKept
CHECK_DEADLOCK FALSE
