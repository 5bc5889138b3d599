SPECIFICATION Spec
CONSTANTS
  d1 = d1
  d2 = d2
  b1 = b1
  s1 = s1
  None = None
  NoSnapshot = NoSnapshot
  ClassNames = {c1}
  Provisioners = {d1}
  Bases = {b1}
  Snapshots = {s1}
  ClassSpecs <- FalseClass
  SnapDrivers = {d1}
  Published <- TwoModes
  Workers = {w1}
  CapabilityEdits <- AnyEdit
  WatchMayBreak = FALSE
  ApiMayFail = TRUE
INVARIANTS
  TypeOK
  UpdateInv
  NoLostUpdate
