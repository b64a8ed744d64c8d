CONSTANTS
  f1 = f1  d = d  n1 = n1  n2 = n2  s1 = s1  s2 = s2  w = w  r1 = r1  r2 = r2
  a = a  b = b  w1 = w1  w2 = w2  c1 = c1  c2 = c2  y1 = y1  y2 = y2
  Files <- MCFiles
  Dir = d
  NfsClients <- MCNfs
  SmbClients <- MCSmb
  Worker = w
  MaxChanges = 2
  Readers <- MCReaders
  Chunks <- MCChunks
  CacheKeys <- MCCacheKeys
  SizeOf <- MCSizeOf
  MaxSize = 4
  MaxEntries = 2
  MaxVersion = 2
  MaxStagedWrites = 2
  MaxPuts = 3
  SpaceFiles <- MCSpaceFiles
  SpaceWriters <- MCSpaceWriters
  Quota = 4
  HighBytes = 2
  CriticalBytes = 3
  MaxLength = 2
  Calls <- MCCalls
  FailureThreshold = 2
  ProbeInterval = 2
  RequestTimeout = 2
  BucketFullFor = 2
  MaxRetries = 1
  MaxOutages = 2
  Syncers <- MCSyncers
  PartSize = 3
  MaxSyncRetries = 2
  WriteLength = 2
  MaxBytes = 4
  MaxModifications = 2
  MaxUploads = 2
SPECIFICATION MCSpec
CONSTRAINT Explored
INVARIANTS  ListingSeesOwnChanges RemovedDirectoryWasEmpty ReadsSeeOwnChanges  ConflictKeepsWrites   RefusalsEnd UploadedWhole
CHECK_DEADLOCK FALSE
CONSTANT Scenes = {"file", "dir", "list", "rmdir", "nfs", "reads", "chunks", "refresh", "space", "outage", "upload"}
