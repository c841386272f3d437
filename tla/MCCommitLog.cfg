SPECIFICATION LoggedFairSpec
CONSTANTS
  w1 = w1
  w2 = w2
  Workers <- Two
  N = 4
  MaxLevel = 1
  maximumConnections = 1
  efConstruction = 2
  Dist <- OnALine
INVARIANTS
  
  
  NoPanic
  DegreeBound
  EntryPointOnTop
  NeverIsolated
  HooksTellEveryLink
PROPERTY AllInserted
