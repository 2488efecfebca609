----------------------------- MODULE MCFbReader -----------------------------
(* FbReader for TLC: the answers of the server.                             *)
EXTENDS FbReader, TLC

Text(id, len) == [id |-> id, len |-> len, ext |-> FALSE]
Extended(id, len) == [Text(id, len) EXCEPT !.ext = TRUE]

Gds(code) == [tag |-> IscArgGds, v |-> code]
Warning(code) == [tag |-> IscArgWarning, v |-> code]
Num(n) == [tag |-> IscArgNumber, v |-> n]
Arg(tag, id, len) == [tag |-> tag, s |-> Text(id, len)]
Unix(n) == [tag |-> 7, v |-> n]

Generic(dummies, data, items) ==
  [op |-> opResponse, dummies |-> dummies, handle |-> 3, blob |-> 5, data |-> data, items |-> items]

Success == <<Gds(0)>>

\* A code with a template and one without; the same argument tags in each.
MessageTemplates == 11 :> <<-1, 2, -2, 1, 3>>
StateTable == 11 :> Bytes(Text(21, 2)) @@ 12 :> Bytes(Text(22, 2))

Fetch(status, messages) ==
  [op |-> opFetchResponse, dummies |-> 0, status |-> status, messages |-> messages]
Row(messages) == [op |-> opSQLResponse, dummies |-> 1, messages |-> messages]

\* Success; with data that needs padding, a longer window, or an old length;
\* with a warning; errors with every kind of argument; a length out of range.
Plain == {Generic(0, Text(1, 0), Success), Generic(1, Text(2, 3), Success), Fetch(100, 0), Row(1)}
Hard == {Generic(0, Text(3, 9), Success),
         Generic(0, Extended(4, 1), Success),
         Generic(0, Text(1, 0), <<Gds(0), Warning(11), Arg(2, 31, 1)>>),
         Generic(0, Text(5, 2), <<Gds(11), Arg(2, 32, 1), Num(4), Gds(12), Arg(5, 33, 2), Num(0),
                                 Arg(IscArgSQLState, 34, 2)>>),
         Generic(2, Text(1, 0), <<Gds(12), Unix(6), Num(8), Warning(11), Arg(3, 35, 3),
                                 Arg(IscArgSQLState, 36, 2)>>),
         Generic(0, Text(6, 10), Success)}

First == Generic(1, Text(2, 3), Success)
AnswerScripts == {<<a, b>> : a, b \in Plain} \cup {<<a, First>> : a \in Hard} \cup {<<First, b>> : b \in Hard}
=============================================================================
