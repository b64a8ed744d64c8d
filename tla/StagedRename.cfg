SPECIFICATION Spec
CONSTANTS
  Dirs <- MCDirs
  Names <- MCNames
  Paths <- MCPaths
  NoPath = NoPath
  Writes <- MCWrites
  Scenes <- MCScenes
  MaxFiles = 6
  MaxCrashes = 1
CONSTRAINT Explored
VIEW MCView
INVARIANTS
  TypeOK
  NothingLost
  NothingLostByCrash
  FailedRenamePutsBack
  RenameTakesAll
  BucketSettles
CHECK_DEADLOCK FALSE
