SPECIFICATION Spec
CONSTANTS
  Paths = {p1}
  NoPath = NoPath
  Clients = {c1}
  Workers = {w1}
  Modes = {"create"}
  CleanAfterSync = TRUE
  MaxWrites = 1
  MaxOpens = 2
  MaxRemoves = 1
  MaxCrashes = 0
INVARIANTS
  DeleteIsFinal
CHECK_DEADLOCK FALSE
