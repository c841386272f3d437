SPECIFICATION PairSpec
CONSTANTS
  w1 = w1
  w2 = w2
  Workers <- One
  N = 3
  MaxLevel = 1
  maximumConnections = 1
  efConstruction = 2
  Dist <- OnALine
PROPERTY PlaceholderKept
