CONSTANTS
  NBase <- MCNBase
  OrderMax <- MCOrderMax
  Order <- MCOrder
  Facts <- MCFacts
  Discs <- MCDiscs
SPECIFICATION Spec
INVARIANTS
  DiscAsDocumented
