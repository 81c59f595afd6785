CONSTANTS
  Nsides <- MCNsides
  OrderMax = 2
  Turn <- MCTurn
  Queries <- MCQueries
SPECIFICATION Spec

INVARIANT InclusiveAsDocumented
