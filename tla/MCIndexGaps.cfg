SPECIFICATION Spec
CONSTANTS
  N = 3
  Size = 4
INVARIANT PositionsKept
