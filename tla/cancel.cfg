SPECIFICATION Spec
CONSTANTS
  MaxOps = 3
  MaxTrips = 2
CHECK_DEADLOCK FALSE
INVARIANTS
  KeystreamInOrder
  CancelHitsItsOperation
PROPERTIES
  CancelIsBounded
