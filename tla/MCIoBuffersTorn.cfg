CONSTANTS
  NIOBUF = 2
  IOBUFLEN = 2
  MINDIRECT = 6
  Fill = 0
  Requests <- TornRequests
  Data <- MCData
SPECIFICATION SpecTorn
VIEW FptrOnly

INVARIANT ReadsAsDocumented
