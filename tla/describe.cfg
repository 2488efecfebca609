SPECIFICATION Spec
CONSTANTS
  None = None
  Query = {q1, q2}
  StmtType = {"select", "insert"}
  MaxOutputs = 2
  MaxInputs = 1
  BufLen = {5, 8, 9, 20}
  Wide = {}
  NoneCharset = "UTF8"
  maxSQLDescribeColumns = 4096
INVARIANTS
  DescribeIsComplete
  CacheIsFresh
PROPERTY DescribeEnds
CHECK_DEADLOCK FALSE
