SPECIFICATION FairSpec
CONSTANTS
  d1 = d1
  d2 = d2
  b1 = b1
  s1 = s1
  None = None
  NoSnapshot = NoSnapshot
  ClassNames = {c1}
  Provisioners = {d1}
  Bases = {b1}
  Snapshots = {s1}
  ClassSpecs <- OneClass
  SnapDrivers = {}
  Published <- SameModes
  Workers = {w1}
  CapabilityEdits <- Deletion
  WatchMayBreak = TRUE
  ApiMayFail = TRUE
PROPERTIES
  Converges
