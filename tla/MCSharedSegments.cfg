CONSTANTS
  Proc = {p1, p2}
  MaxDied = 2
  MaxOpens = 2
SPECIFICATION Spec

INVARIANTS
  AccessExclusive
  CountsExact
PROPERTIES
  DestroysUnused
  CallsReturn
