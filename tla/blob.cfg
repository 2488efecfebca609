SPECIFICATION Spec
CONSTANTS
  None = None
  Blob = {b1, b2}
  MaxLength = 5
  Foreign <- ForeignSegments
  maxSegment = 2
  maxGetLen = 5
  MayRefuse = {"create", "put", "cancel", "open", "get", "close"}
INVARIANTS WrittenIsWhole ReadIsWhole NoBlobLeftOpen
PROPERTY BlobCallsReturn
CHECK_DEADLOCK FALSE
