SPECIFICATION ServiceSpec
CONSTANTS
  w1 = w1
  Workers <- One
  N = 5
  MaxLevel = 2
  maximumConnections = 1
  efConstruction = 2
  k = 2
  ef = 2
  Dist <- OnALine
INVARIANTS
  DegreeLimit
  EntryPointHighest
  ProperLinks
  NewVertexFindable
  SameGraph
  AnswersAreStored
  AnswerIsLocalMinimum
