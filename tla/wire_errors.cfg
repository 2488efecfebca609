SPECIFICATION Spec
CONSTANTS
  LazySend = {TRUE}
  Profiles <- AllocFails
  MaxUnread = 3
  MaxRows = 2
CHECK_DEADLOCK FALSE
INVARIANT AnswersMatch
