SPECIFICATION Spec
CONSTANTS
  None = None
  TxHandle = {h1, h2}
  StmtHandle = {p1}
  Change = {c1}
  RowsObj = {r1}
  StmtObj = {s1}
  TxObj = {t1, t2}
  MaxFreeHandles = 1
  Raw = TRUE
  SelectMayWrite = TRUE
SYMMETRY Symmetry
CHECK_DEADLOCK FALSE
INVARIANTS
  CallsAreConsistent
  BadIsDisconnected
  RetryIsSafe
PROPERTIES
  DeadStaysDead
