CONSTANTS
  Processes = {p1, p2}
  Handles = {h1, h2}
  Numbers <- MCNumbers
  OrderMax = 29
  IntBits = 6
  LongBits = 9
  None = None
SPECIFICATION Spec
SYMMETRY Alike
INVARIANTS
  RefsExact
  BaseThere
  RingAsAsked
  AbortsOnlyUnchecked
PROPERTIES
  BadargsKnown
  DestroysBuilt
