SPECIFICATION Spec
CONSTANTS
  Entries = {v1, v2, v3, v4}
  Latest = 2
  Limit = 3
  Numbers = {0, 1, 2, 3, 4}
  None = None
INVARIANTS
  TypeOK
  ArrayComplete
  ResolvesAtIndex
  DisplayMatchesResolve
