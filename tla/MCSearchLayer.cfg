SPECIFICATION FairSpec
CONSTANTS
  Nodes <- MCNodes
  Dist <- MCDist
  Efs = {1, 2}
INVARIANTS
  ResultsBounded
  LocalMinimum
  SmallResultIsClosed
PROPERTIES
  SearchEnds
