SPECIFICATION OlderSpec
CONSTANTS
  Indexes <- MCIndexes
  Distances <- MCDistances
INVARIANTS
  MembersAreFound
  FlattensInOrder
  SameTree
PROPERTY ImplementsSortedSet
