SPECIFICATION Spec
CONSTANTS
  t1 = t1
  t2 = t2
  t3 = t3
  u1 = u1
  d1 = d1
  d2 = d2
  Threads = {t1, t2, t3}
  Stored = {u1}
  Names = {"a", "b", "c", "d"}
  Root = Root
  OldDirs = {d1, d2}
  InitLink <- Tree
  Requests <- TreeRequests
  MaxPathDepth = 2
  MaxStamp = 3
  None = None
SYMMETRY ThreadSymmetry
INVARIANTS
  TypeOK
  NothingStranded
  LocksGivenBack
  PartialsOnlyAside
  RefusedOnlyByConflict
PROPERTIES
  WholeFilesKept
