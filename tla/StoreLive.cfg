SPECIFICATION FairSpec
CONSTANTS
  t1 = t1
  t2 = t2
  t3 = t3
  u1 = u1
  u2 = u2
  Threads = {t1, t2, t3}
  Preloaded = {u1}
  Names = {"a", "b"}
  Paths = {"a", "b"}
  Mutexes = {"m"}
  FileOf <- TwoFiles
  MutexOf <- SharedMutex
  Extending <- TwoExtend
  MaxStamp = 3
  PerSecond = 1
  Sizes = {1}
  VersionLimit = 100
  Requests <- LiveRequests
  Faults = {"recv", "fopen", "flock", "flush", "remove", "opendir"}
  MaxExits = 0
  InitDir <- OneStored
  None = None
PROPERTIES
  EveryRequestEnds
