SPECIFICATION Spec
CONSTANTS
  Paths = {p1}
  NoPath = NoPath
  Clients = {c1, c2}
  Workers = {w1}
  Modes = {"keep", "trunc"}
  CleanAfterSync = TRUE
  MaxWrites = 1
  MaxOpens = 2
  MaxRemoves = 0
  MaxCrashes = 0
SYMMETRY Symmetry
INVARIANTS
  StagedDataPreserved
CHECK_DEADLOCK FALSE
