SPECIFICATION FairSpec
CONSTANTS
  Paths = {p1}
  NoPath = NoPath
  Clients = {c1}
  Workers = {w1}
  Modes = {"create"}
  CleanAfterSync = FALSE
  MaxWrites = 1
  MaxOpens = 2
  MaxRemoves = 1
  MaxCrashes = 1
PROPERTIES
  AcceptedReachesBucket
  PendingDeleteCompletes
CHECK_DEADLOCK FALSE
