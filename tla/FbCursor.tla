------------------------------ MODULE FbCursor ------------------------------
(***************************************************************************)
(* What driver.Rows promises its caller: the rows of the result, in order, *)
(* each with its own values; the end is reported when there are no more,   *)
(* and an early end is always an error.  Implemented by FbRows.            *)
(***************************************************************************)
EXTENDS Naturals, Sequences

CONSTANT Results   \* the results considered: sequences of rows

VARIABLES
  result,   \* the rows of the query
  out,      \* the rows handed out
  status    \* "open", "end": io.EOF, "failed": an error or closed early

vars == <<result, out, status>>

Init ==
  /\ result \in Results
  /\ out = <<>>
  /\ status = "open"

Row ==
  /\ status = "open"
  /\ Len(out) < Len(result)
  /\ out' = Append(out, result[Len(out) + 1])
  /\ UNCHANGED <<result, status>>

End ==
  /\ status = "open" /\ out = result
  /\ status' = "end"
  /\ UNCHANGED <<result, out>>

Fail ==
  /\ status = "open"
  /\ status' = "failed"
  /\ UNCHANGED <<result, out>>

Next == Row \/ End \/ Fail

\* What may happen, and that a caller who keeps calling Next comes to an end.
Safety == Init /\ [][Next]_vars

Spec == Safety /\ WF_vars(Row \/ End)
=============================================================================
