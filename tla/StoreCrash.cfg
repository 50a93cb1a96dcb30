SPECIFICATION Spec
CONSTANTS
  t1 = t1
  t2 = t2
  t3 = t3
  u1 = u1
  u2 = u2
  Threads = {t1, t2, t3}
  Preloaded = {u1, u2}
  Names = {"a", "b"}
  Paths = {"a", "b"}
  Mutexes = {"m", "m2"}
  FileOf <- TwoFiles
  MutexOf <- OwnMutexes
  Extending <- OneExtended
  MaxStamp = 4
  PerSecond = 1
  Sizes = {2}
  VersionLimit = 100
  Requests <- TwoRequests
  Faults = {"recv", "send", "fopen", "flock", "flush", "rename", "remove", "opendir"}
  MaxExits = 1
  InitDir <- Stored
  None = None
SYMMETRY ThreadSymmetry
INVARIANTS
  ReplyUnmixed
  RmReportsTheRest
PROPERTIES
  NothingLostUnnoticed
  VersionsImmutable
