SPECIFICATION Spec
CONSTANTS
  W = 2
  BufSize = 7
  MaxLength = 9
  Half = 16
  Pieces = {1, 3, 20}
  Scripts <- AnswerScripts
  Templates <- MessageTemplates
  States <- StateTable
INVARIANTS Framed
PROPERTY DeliversAnswers
CHECK_DEADLOCK FALSE
