SPECIFICATION FairSpec
CONSTANTS
  Keys = {c1, c2}
  Workers = {w1, w2}
  None = None
  Trouble = 3
INVARIANTS
  TypeOK
  ProcessInv
  ReadsAreSynced
PROPERTIES
  ImplementsQueue
  NoStarvation
  Stops
  Runs
