SPECIFICATION Spec
CONSTANTS
  t1 = t1
  t2 = t2
  t3 = t3
  u1 = u1
  u2 = u2
  Threads = {t1, t2, t3}
  Preloaded = {u1, u2}
  Names = {"a"}
  Paths = {"a"}
  Mutexes = {"m"}
  FileOf <- OneFile
  MutexOf <- OneMutex
  Extending <- OneExtends
  MaxStamp = 4
  PerSecond = 1000000
  Sizes = {1}
  VersionLimit = 100
  Requests <- LsRequests
  Faults = {}
  MaxExits = 0
  InitDir <- Stored
  None = None
SYMMETRY ThreadSymmetry
INVARIANT
  ListingAgrees
