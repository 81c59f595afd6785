CONSTANTS
  Orders <- MCOrders
  Nsides <- MCNsides
  Undef = Undef
SPECIFICATION MapSpec
INVARIANTS
  LocatedBack
  RingOrder
  RingsFit
  RingAboveExact
  NeighborsExact
  PeanoContinuous
  MapKept
PROPERTIES
  ConversionsStay
