CONSTANTS
  h1 = h1  h2 = h2  a = a  b = b  s1 = s1  s2 = s2  Main = Main
  Handles = {h1, h2}
  Paths = {a, b}
  Files = {a, b}
  Streams = {s1, s2}
  OwnerIds = {h1, h2}
  Clients = {"smb", "nfs"}
  Keys <- MCKeys
  Requests <- MCRequests
  MaxOpensPerFile = 2
  MaxChunks = 2
  MaxWrites = 2
  StreamLimit = 4
  EOF = 3
  MaxLocksPerFile = 3
  MaxLocksPerClient = 3
SPECIFICATION MCSpec
CONSTRAINT Explored
INVARIANTS AccessTypeOK RangesNormal IndexesInStep ShareModesHold ReservationsMatch  StreamUpdatesKept ClosedOwnsNoLock
PROPERTY ImplementsByteLocks
CHECK_DEADLOCK FALSE
