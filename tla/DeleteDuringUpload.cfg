SPECIFICATION Spec
CONSTANTS
  Paths = {p1}
  NoPath = NoPath
  Clients = {c1}
  Workers = {w1, w2}
  Modes = {"trunc"}
  CleanAfterSync = TRUE
  MaxWrites = 2
  MaxOpens = 2
  MaxRemoves = 1
  MaxCrashes = 0
INVARIANTS
  DeleteExcludesUpload
CHECK_DEADLOCK FALSE
