SPECIFICATION FairSpec
CONSTANTS
  d1 = d1
  v1 = v1
  v2 = v2
  v3 = v3
  r1 = r1
  r2 = r2
  r3 = r3
  None = None
  Provisioners = {d1}
  Versions = {v1, v2, v3}
  Releases = {r1, r2, r3}
  Reports <- ThreeReleases
  Sidecars = {s1, s2}
INVARIANTS
  TypeOK
  SidecarInv
  Whole
  LastExpansionCounts
PROPERTIES
  ImplementsUsers
  Publishes
