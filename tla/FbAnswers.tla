----------------------------- MODULE FbAnswers ------------------------------
(***************************************************************************)
(* What the reading side of a connection promises the rest of the driver:  *)
(* the server's answers, each as the server meant it, in order, until the  *)
(* connection breaks, and then none.  Implemented by FbReader.             *)
(***************************************************************************)
EXTENDS Naturals, Sequences

CONSTANTS
  Scripts,      \* sequences of answers that a server may send
  Meaning(_)    \* what the caller should be told of an answer

VARIABLES
  answers,   \* what the server sends
  got,       \* what the caller was told, answer by answer
  broken     \* the connection failed

vars == <<answers, got, broken>>

Init ==
  /\ answers \in Scripts
  /\ got = <<>>
  /\ broken = FALSE

\* The caller gets the next answer.
Deliver ==
  /\ ~broken
  /\ Len(got) < Len(answers)
  /\ got' = Append(got, Meaning(answers[Len(got) + 1]))
  /\ UNCHANGED <<answers, broken>>

Break ==
  /\ ~broken
  /\ broken' = TRUE
  /\ UNCHANGED <<answers, got>>

Next == Deliver \/ Break

Safety == Init /\ [][Next]_vars

\* An answer that is waited for arrives, or the connection breaks.
Spec == Safety /\ WF_vars(Deliver)
=============================================================================
