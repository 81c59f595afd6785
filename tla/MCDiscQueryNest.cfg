CONSTANTS
  NBase <- MCNBase
  OrderMax <- MCOrderMax
  Order <- MCOrder
  Facts <- MCFacts
  Discs <- MCDiscs
SPECIFICATION Spec
INVARIANTS
  Inv
  StackBounded
  OnlyBadFactThrows
  AnswerCanonical
  StrictExact
  InclusiveComplete
  CoverInv
  SeveralAsOne
PROPERTIES
  UnwindsOwnSubtree
  Terminates
