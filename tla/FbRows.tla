------------------------------- MODULE FbRows -------------------------------
(***************************************************************************)
(* A rows object (rows.go): batches of rows fetched into buffers that are  *)
(* used again for every batch (FetchRowsReuse of internal/wire), blob      *)
(* columns replaced by their contents, and Close.                          *)
(*                                                                         *)
(* One action is one call of the caller up to its first answer, or one     *)
(* answer read.  The caller is database/sql: it calls one method at a time *)
(* and closes the rows after an error.                                     *)
(***************************************************************************)
EXTENDS Naturals, Sequences

CONSTANTS
  Results,     \* results considered: sequences of rows
  Cols,        \* columns
  FetchSizes,  \* Config.FetchSize
  Inline,      \* len(rows.inlineValues): 8
  Initial      \* rows for which room is made at first: 8

\* A column value: NULL, a scalar, the identifier of a blob or its contents.
Value == [kind: {"nil", "int", "blob", "bytes"}, v: Nat]

ASSUME RowsAssumption ==
  /\ Results \subseteq Seq([1..Cols -> Value])
  /\ Cols \in Nat \ {0} /\ Inline \in Nat /\ Initial \in Nat \ {0}
  /\ FetchSizes \subseteq Nat \ {0}

VARIABLES
  result,      \* the rows of the query
  fetchSize,
  pos,         \* rows that the server has sent
  hasCursor,   \* rows.hasCursor
  cursorOpen,  \* the cursor is open on the server
  bad,         \* the connection is bad
  ctxDone,     \* the context of the query is done
  values,      \* the array behind rows.fetchValues and, after a fetch, rows.buf
  buf,         \* rows in rows.buf
  bufIdx, eof, closed,
  call,        \* the method in progress
  told,        \* what the last Next returned
  out          \* history: the rows handed out

server == <<result, fetchSize, pos, cursorOpen>>
vars == <<server, hasCursor, bad, ctxDone, values, buf, bufIdx, eof, closed, call, told, out>>

Idle == [op |-> "none"]

Nil == [kind |-> "nil", v |-> 0]

----------------------------------------------------------------------------
(* Buffers.  Row i of a batch is at Cols*(i-1)+1 .. Cols*i of values.       *)

minOf(a, b) == IF a < b THEN a ELSE b

rowAt(vals, i) == SubSeq(vals, Cols * (i - 1) + 1, Cols * i)

rowCapacity(vals) == Len(vals) \div Cols

\* Room for the first rows: the array at hand if it is long enough.
initialRoom(vals) ==
  LET rows == minOf(fetchSize, Initial)
  IN IF rowCapacity(vals) >= rows THEN vals ELSE [k \in 1..rows * Cols |-> Nil]

\* Room for one more row after rowIdx rows: twice as much, at most a batch.
room(vals, rowIdx) ==
  LET bigger == minOf(2 * rowCapacity(vals), fetchSize)
      rows == IF bigger <= rowIdx THEN rowIdx + 1 ELSE bigger
  IN IF rowIdx < rowCapacity(vals) THEN vals
     ELSE [k \in 1..rows * Cols |-> IF k <= rowIdx * Cols THEN vals[k] ELSE Nil]

\* Mutant of DecodeRow: a column that is NULL keeps what the buffer held.
DecodeNotNull(vals, i, row) ==
  [k \in DOMAIN vals |->
     IF k \in Cols*(i-1)+1..Cols*i /\ row[k - Cols*(i-1)] # Nil THEN row[k - Cols*(i-1)] ELSE vals[k]]

\* DecodeRow: every column is set, those that are NULL too.
DecodeRow(vals, i, row) ==
  [k \in DOMAIN vals |-> IF k \in Cols*(i-1)+1..Cols*i THEN row[k - Cols*(i-1)] ELSE vals[k]]

\* The contents of a blob; the identifier 0 is the empty blob.
content(v) == IF v.kind = "blob" THEN [kind |-> "bytes", v |-> v.v] ELSE v

contents(row) == [c \in DOMAIN row |-> content(row[c])]

----------------------------------------------------------------------------
(* Next and fetch *)

\* Next returns without a row.
give(what) == told' = what /\ call' = Idle

\* Next, when the buffer has a row.
NextBuffered ==
  /\ call = Idle /\ told \in {"none", "row"} /\ ~closed
  /\ ~ctxDone
  /\ bufIdx < buf
  /\ out' = Append(out, rowAt(values, bufIdx + 1))
  /\ bufIdx' = bufIdx + 1
  /\ told' = "row"
  /\ UNCHANGED <<server, hasCursor, bad, ctxDone, values, buf, eof, closed, call>>

\* Next, when the buffer is used up: the end, or another batch.  A context
\* that is done is looked at first.
NextFetch ==
  /\ call = Idle /\ told \in {"none", "row"} /\ ~closed
  /\ ~ctxDone
  /\ bufIdx >= buf
  /\ IF eof THEN give("eof") /\ UNCHANGED values
     ELSE IF bad THEN give("error") /\ UNCHANGED values
     ELSE /\ call' = [op |-> "fetch", rowIdx |-> 0, mine |-> initialRoom(values),
                      reused |-> initialRoom(values) = values]
          /\ UNCHANGED <<values, told>>
  /\ UNCHANGED <<server, hasCursor, bad, ctxDone, buf, bufIdx, eof, closed, out>>

NextCancelled ==
  /\ call = Idle /\ told \in {"none", "row"} /\ ~closed
  /\ ctxDone
  /\ give("error")
  /\ UNCHANGED <<server, hasCursor, bad, ctxDone, values, buf, bufIdx, eof, closed, out>>

\* One op_fetch_response with a row.
FetchRow ==
  /\ call.op = "fetch"
  /\ call.rowIdx < fetchSize /\ pos < Len(result)
  /\ pos' = pos + 1
  /\ LET i == call.rowIdx + 1
     IN call' = [call EXCEPT !.rowIdx = i,
                             !.mine = DecodeRow(room(@, call.rowIdx), i, result[pos + 1]),
                             !.reused = @ /\ call.rowIdx < rowCapacity(call.mine)]
  /\ UNCHANGED <<result, fetchSize, cursorOpen, hasCursor, bad, ctxDone, values, buf, bufIdx, eof,
                 closed, told, out>>

\* The last op_fetch_response: the batch is full or the cursor exhausted.  The
\* server may end a batch early, but never before its first row.
FetchEnd ==
  /\ call.op = "fetch"
  /\ \/ pos = Len(result) /\ call.rowIdx < fetchSize
     \/ call.rowIdx > 0
  /\ call' = [op |-> "blobs", rowIdx |-> call.rowIdx, mine |-> call.mine, done |-> 0,
              \* resp.Status == 100
              eof |-> pos = Len(result) /\ call.rowIdx < fetchSize]
  /\ UNCHANGED <<server, hasCursor, bad, ctxDone, values, buf, bufIdx, eof, closed, told, out>>

\* op_response instead of a row, a refused cancel or a transport error: the rows
\* of the batch are given up.  What they wrote into an array used before stays.
FetchFails(transport) ==
  /\ call.op = "fetch"
  /\ bad' = (bad \/ transport)
  /\ values' = IF call.reused THEN call.mine ELSE values
  /\ give("error")
  /\ UNCHANGED <<server, hasCursor, ctxDone, buf, bufIdx, eof, closed, out>>

\* materializeBlobRowsLocked, one row at a time.
ReadBlobs ==
  /\ call.op = "blobs" /\ call.done < call.rowIdx
  /\ LET i == call.done + 1
     IN call' = [call EXCEPT !.done = i, !.mine = DecodeRow(@, i, contents(rowAt(@, i)))]
  /\ UNCHANGED <<server, hasCursor, bad, ctxDone, values, buf, bufIdx, eof, closed, told, out>>

\* A blob cannot be read: the array is kept for the next batch, the rows are not.
BlobFails(transport) ==
  /\ call.op = "blobs" /\ call.done < call.rowIdx
  /\ values' = call.mine
  /\ bad' = (bad \/ transport)
  /\ give("error")
  /\ UNCHANGED <<server, hasCursor, ctxDone, buf, bufIdx, eof, closed, out>>

\* The end of fetch and of the Next that called it.
FetchReturns ==
  /\ call.op = "blobs" /\ call.done = call.rowIdx
  /\ values' = call.mine
  /\ buf' = call.rowIdx
  /\ eof' = (eof \/ call.eof)
  /\ call' = Idle
  /\ IF call.rowIdx = 0
     THEN bufIdx' = 0 /\ told' = "eof" /\ UNCHANGED out
     ELSE bufIdx' = 1 /\ told' = "row" /\ out' = Append(out, rowAt(call.mine, 1))
  /\ UNCHANGED <<server, hasCursor, bad, ctxDone, closed>>

----------------------------------------------------------------------------
(* Close *)

\* Close of rows that are open: the cursor is closed by op_free_statement, of
\* which nobody waits for the answer here, unless the connection is bad.
Close ==
  /\ call = Idle /\ ~closed
  /\ closed' = TRUE
  /\ \/ cursorOpen' = (cursorOpen /\ ~(hasCursor /\ ~bad)) /\ UNCHANGED bad
     \/ ~bad /\ bad' = TRUE /\ UNCHANGED cursorOpen
  /\ UNCHANGED <<result, fetchSize, pos, hasCursor, ctxDone, values, buf, bufIdx, eof, call, told, out>>

----------------------------------------------------------------------------
(* The surroundings *)

CancelContext ==
  /\ ~ctxDone
  /\ ctxDone' = TRUE
  /\ UNCHANGED <<server, hasCursor, bad, values, buf, bufIdx, eof, closed, call, told, out>>

\* Another statement on the connection met a transport error.
ConnectionBreaks ==
  /\ call = Idle /\ ~bad
  /\ bad' = TRUE
  /\ UNCHANGED <<server, hasCursor, ctxDone, values, buf, bufIdx, eof, closed, call, told, out>>

\* QueryContext opened a cursor, or op_execute2 brought the only row, whose
\* blobs were read at once.
Opened ==
  /\ hasCursor = TRUE /\ cursorOpen = TRUE
  /\ pos = 0 /\ buf = 0 /\ eof = FALSE
  /\ values = [k \in 1..Inline |-> Nil]

Singleton ==
  /\ Len(result) <= 1
  /\ hasCursor = FALSE /\ cursorOpen = FALSE
  /\ pos = Len(result) /\ buf = Len(result) /\ eof = TRUE
  /\ values = IF result = <<>> THEN <<>> ELSE contents(result[1])

Init ==
  /\ result \in Results /\ fetchSize \in FetchSizes
  /\ Opened \/ Singleton
  /\ bad = FALSE /\ ctxDone = FALSE /\ bufIdx = 0 /\ closed = FALSE
  /\ call = Idle /\ told = "none" /\ out = <<>>

Reading ==
  \/ NextBuffered \/ NextFetch \/ NextCancelled
  \/ FetchRow \/ FetchEnd \/ ReadBlobs \/ FetchReturns

Failing == \E transport \in BOOLEAN : FetchFails(transport) \/ BlobFails(transport)

Next == Reading \/ Failing \/ Close \/ CancelContext \/ ConnectionBreaks

\* The caller keeps calling Next, the server answers.
Spec == Init /\ [][Next]_vars /\ WF_vars(Reading)

----------------------------------------------------------------------------
(* Properties *)

\* The rows as the caller should see them.
Cursor == INSTANCE FbCursor
  WITH result <- [i \in DOMAIN result |-> contents(result[i])],
       Results <- {[i \in DOMAIN r |-> contents(r[i])] : r \in Results},
       status <- IF told = "eof" THEN "end" ELSE IF closed \/ told = "error" THEN "failed" ELSE "open"

\* Whatever the batches, the buffers used again and the blobs: the caller gets
\* the rows of the query in order, each with its own values, NULL where it is
\* NULL, and io.EOF only after the last one.
RowsAreTheResult == Cursor!Spec
=============================================================================
