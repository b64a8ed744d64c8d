SPECIFICATION Spec
CONSTANTS
  Paths = {p1}
  NoPath = NoPath
  Clients = {c1, c2}
  Workers = {w1}
  Modes = {"keep", "create", "trunc"}
  CleanAfterSync = TRUE
  MaxWrites = 1
  MaxOpens = 2
  MaxRemoves = 1
  MaxCrashes = 1
CONSTRAINT SomeIntact
SYMMETRY Symmetry
INVARIANTS
  TypeOK
  DeletedStaysDeleted
  RecordedHasSidecar
  RefsCountHandles
CHECK_DEADLOCK FALSE
