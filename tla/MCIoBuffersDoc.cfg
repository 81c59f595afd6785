CONSTANTS
  NIOBUF = 2
  IOBUFLEN = 2
  MINDIRECT = 6
  Fill = 0
  Requests <- DocRequests
  Data <- MCData
SPECIFICATION Spec
VIEW FptrOnly

INVARIANT GroupsAsDocumented
