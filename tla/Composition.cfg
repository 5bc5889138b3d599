SPECIFICATION BudgetSpec
CONSTANTS
  d1 = d1
  v1 = v1
  v2 = v2
  r1 = r1
  r2 = r2
  None = None
  Provisioners = {d1}
  Versions = {v1, v2}
  Releases = {r1, r2}
  Reports <- TwoReleases
  Sidecars = {s1}
  ClassNames = {c1}
  ClassSpecs <- OneClass
  SnapDrivers = {d1}
  CapabilityEdits = {}
  Workers = {w1}
  WatchMayBreak = FALSE
  ApiMayFail = FALSE
  MaxDisturbances = 1
INVARIANTS
  ReportedByOneRelease
  QuietIsReported
PROPERTIES
  ImplementsController
  Delivers
