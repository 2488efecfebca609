SPECIFICATION Spec
CONSTANTS
  None = None
  TxHandle = {h1, h2}
  StmtHandle = {p1, p2}
  Change = {c1, c2}
  RowsObj = {r1, r2}
  StmtObj = {s1}
  TxObj = {t1}
  MaxFreeHandles = 1
  Raw = FALSE
  SelectMayWrite = FALSE
SYMMETRY Symmetry
CHECK_DEADLOCK FALSE
INVARIANTS
  TypeOK
  HandlesAreLive
  AckedIsDurable
  OnlyCommitCommits
  RunsInItsTransaction
  AutoTxIsClean
  PoolIsExclusive
PROPERTIES
  ErrorIsFinal
