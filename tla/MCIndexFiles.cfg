SPECIFICATION Spec
CONSTANTS
  N = 4
  Size = 5
INVARIANTS
  OrderKept
  CompleteUnlessFailed
  
PROPERTY NeverRewritten
