SPECIFICATION Spec
CONSTANTS
  w1 = w1
  w2 = w2
  Workers <- Two
  N = 5
  k = 2
  Dist <- OnALine
INVARIANTS
  NoPanic
  NothingLost
  Undirected
  Connected
