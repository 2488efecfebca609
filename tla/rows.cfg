SPECIFICATION Spec
CONSTANTS
  Results <- QueryResults
  Cols = 2
  FetchSizes = {1, 3, 5}
  Inline = 2
  Initial = 2
PROPERTY RowsAreTheResult
CHECK_DEADLOCK FALSE
