SPECIFICATION Spec
CONSTANTS
  w1 = w1
  w2 = w2
  Workers <- Two
  N = 4
  MaxLevel = 2
  maximumConnections = 1
  efConstruction = 2
  Dist <- OnALine
INVARIANT EntryPointHighest
