CONSTANTS
  Nsides <- MCNsides
  OrderMax = 2
  Turn <- MCTurn
  Queries <- MCQueries
SPECIFICATION Spec
INVARIANTS
  CallsLegal
  DiscAnswer
  MultidiscAnswer
  StripAnswer
