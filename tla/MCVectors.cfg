SPECIFICATION VectorsSpec
CONSTANTS
  Callers = {c1, c2}
  Keys = {k1, k2, k3}
  maxSize = 1
  MaxGets = 4
SYMMETRY Symmetry
INVARIANTS
  CountExplained
  SizeBounded
  CacheAgrees
  
  PanicExplained
