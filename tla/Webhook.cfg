SPECIFICATION FairSpec
CONSTANTS
  p1 = p1
  p2 = p2
  a = a
  b = b
  c = c
  number = number
  vol = vol
  x = x
  None = None
  In = in
  Words = {a, b, c, in, number}
  NonStrings <- MCNonStrings
  Volumes = {vol}
  Values = {x}
  Written <- MCWritten
  Pods = {p1, p2}
  Handlers = {h1, h2}
INVARIANTS
  TypeOK
  RightsInv
  Rights
PROPERTIES
  BindingsStay
  Admitted
