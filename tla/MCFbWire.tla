------------------------------ MODULE MCFbWire ------------------------------
(* FbWire for TLC: which methods run and which requests may fail.           *)
EXTENDS FbWire

\* All methods; any request but op_free_statement and op_allocate_statement fails.
Usual == [ops |-> DOMAIN Requests, mayFail |-> Request \ {"free", "alloc"}]

\* Methods whose every request has one op_response, however they go on after an
\* error; op_free_statement fails too.
FreeFails == [ops |-> {"simple", "batch", "readBlob", "writeBlob"}, mayFail |-> Request \ {"alloc"}]

Handled == {Usual, FreeFails}

\* op_allocate_statement fails.
AllocFails == {[ops |-> DOMAIN Requests, mayFail |-> Request \ {"free"}]}
=============================================================================
