SPECIFICATION Spec
CONSTANTS
  t1 = t1
  t2 = t2
  t3 = t3
  u1 = u1
  u2 = u2
  Threads = {t1, t2, t3}
  Preloaded = {u1, u2}
  Names = {"a"}
  Paths = {"a"}
  Mutexes = {"m"}
  FileOf <- OneFile
  MutexOf <- OneMutex
  Extending <- OneExtends
  MaxStamp = 4
  PerSecond = 1
  Sizes <- SomeSizes
  VersionLimit = 100
  Requests <- AllRequests
  Faults = {"recv", "send", "fopen", "rename", "opendir"}
  MaxExits = 0
  InitDir <- Stored
  None = None
SYMMETRY ThreadSymmetry
INVARIANTS
  TypeOK
  VersionsWhole
  SettledWhole
  GetVersionWhole
  RmReportsTheRest
  NumberedVersion
  ListingAgrees
PROPERTIES
  NothingLostUnnoticed
  VersionsImmutable
  ImplementsVersionedFiles
