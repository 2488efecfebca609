SPECIFICATION Spec
CONSTANTS
  LazySend = {TRUE, FALSE}
  Profiles <- Handled
  MaxUnread = 3
  MaxRows = 2
CHECK_DEADLOCK FALSE
INVARIANTS InSync AnswersMatch
PROPERTY CallsReturn
