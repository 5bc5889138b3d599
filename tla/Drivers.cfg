SPECIFICATION Spec
CONSTANTS
  d1 = d1
  d2 = d2
  b1 = b1
  s1 = s1
  None = None
  NoSnapshot = NoSnapshot
  ClassNames = {c1}
  Provisioners = {d1, d2}
  Bases = {b1}
  Snapshots = {s1}
  ClassSpecs <- EitherDriver
  SnapDrivers = {}
  Published <- OwnModes
  Workers = {w1}
  CapabilityEdits <- Deletion
  WatchMayBreak = FALSE
  ApiMayFail = FALSE
PROPERTIES
  ImplementsReconciler
INVARIANTS
  OrphanInv
  ReconcilerInv
  NoOrphan
  OneDriver
