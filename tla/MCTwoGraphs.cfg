SPECIFICATION Spec
CONSTANTS
  N = 3
  MaxLevel = 1
  maximumConnections = 1
  NumWorkers = 2
  Dist <- OnALine
INVARIANTS
  NothingDangles
  BothStoredForGood
  NoPlaceholderForInserts
  BothComplete
