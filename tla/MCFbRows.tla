------------------------------ MODULE MCFbRows ------------------------------
(* FbRows for TLC: the results of a query of two columns, one of them a blob. *)
EXTENDS FbRows

Int(i) == [kind |-> "int", v |-> i]
BlobId(i) == [kind |-> "blob", v |-> i]

\* Every second value is NULL, here or there, so that a value left in a buffer
\* by an earlier row shows; the blob 0 is empty.
Rows1(n) == [i \in 1..n |-> <<IF i % 2 = 0 THEN Nil ELSE Int(i), IF i % 3 = 2 THEN BlobId(i) ELSE Nil>>]
Rows2(n) == [i \in 1..n |-> <<IF i < 4 THEN Int(i) ELSE Nil, BlobId(i - 1)>>]

QueryResults == {Rows1(n) : n \in 0..7} \cup {Rows2(n) : n \in 0..6}
=============================================================================
