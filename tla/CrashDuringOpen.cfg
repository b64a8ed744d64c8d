SPECIFICATION Spec
CONSTANTS
  Paths = {p1}
  NoPath = NoPath
  Clients = {c1}
  Workers = {w1}
  Modes = {"keep"}
  CleanAfterSync = TRUE
  MaxWrites = 1
  MaxOpens = 1
  MaxRemoves = 0
  MaxCrashes = 1
PROPERTIES
  OpenKeepsObject
CHECK_DEADLOCK FALSE
