---------------------------- MODULE MCFbSession ----------------------------
(* FbSession for TLC: handles, objects and changes are interchangeable.    *)
EXTENDS FbSession, TLC

Symmetry ==
  UNION {Permutations(TxHandle), Permutations(StmtHandle), Permutations(Change),
         Permutations(RowsObj), Permutations(StmtObj), Permutations(TxObj)}
============================================================================
