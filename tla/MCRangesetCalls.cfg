CONSTANTS
  Values <- MCValues
  Others <- MCOthers
SPECIFICATION Spec
VIEW Object
INVARIANTS
  PositionsFit
  QueriesAgree
PROPERTIES
  StaysCanonical
  ImplementsSet
