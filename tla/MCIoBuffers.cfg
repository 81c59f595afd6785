CONSTANTS
  NIOBUF = 2
  IOBUFLEN = 2
  MINDIRECT = 6
  Fill = 0
  Requests <- MCRequests
  Data <- MCData
SPECIFICATION Spec
VIEW FptrOnly

INVARIANTS BuffersCoherent
PROPERTIES ImplementsByteFile
