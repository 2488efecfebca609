------------------------------- MODULE FbWire -------------------------------
(***************************************************************************)
(* Requests and answers on one WireConnection (internal/wire).  Requests   *)
(* are pipelined: a method writes one or several, flushes once and then    *)
(* reads the answers.  The answer to op_free_statement is left unread when *)
(* lazy send is negotiated; deferredCount says how many such answers the   *)
(* next method must discard first.  Nothing in an answer says which        *)
(* request it belongs to: the count is all there is.                       *)
(*                                                                         *)
(* One action is one answer read.  Methods run under conn.mu, so there is  *)
(* at most one of them.                                                    *)
(***************************************************************************)
EXTENDS Naturals, Sequences

CONSTANTS
  LazySend,    \* the outcomes of the negotiation considered: lazy send or not
  Profiles,    \* cases considered: the methods that are called (ops) and the
               \* requests that the server may answer with an error (mayFail)
  MaxUnread,   \* bound: statements are freed while fewer answers are unread
  MaxRows      \* bound: rows in one batch of op_fetch

\* The requests a method writes before its flush.
Requests ==
  [simple   |-> <<"simple">>,            \* one request, one op_response
   prepare  |-> <<"alloc", "prep">>,     \* AllocateAndPrepareWithItems, pool empty
   batch    |-> <<"exec", "commit">>,    \* ExecuteAndCommitRetaining
   execute2 |-> <<"exec2">>,
   fetch    |-> <<"fetch">>,
   readBlob |-> <<"open", "get">>,       \* readBlobDataPipelined
   writeBlob |-> <<"create", "put", "put", "close">>]  \* WriteBlobData, two segments

Request == {"free", "simple", "alloc", "prep", "exec", "commit", "exec2", "fetch",
            "open", "get", "create", "put", "close"}

\* Methods that read all their answers even if one of them is an error.
ReadsOn == {"batch", "readBlob", "writeBlob"}

ASSUME WireAssumption ==
  /\ LazySend \subseteq BOOLEAN
  /\ \A p \in Profiles : p.ops \subseteq DOMAIN Requests /\ p.mayFail \subseteq Request
  /\ MaxUnread \in Nat /\ MaxRows \in Nat

VARIABLES
  profile,        \* the case at hand
  lazySend,       \* WireConnection.lazySend: ptype_lazy_send was negotiated
  sent,           \* requests on their way to the server
  stream,         \* answers sent by the server and not read yet
  deferredCount,  \* WireConnection.deferredCount
  call,           \* the method in progress
  framed,         \* FALSE once a message was left half read
  bad,            \* a transport error closed the socket
  mixed           \* history: an answer was taken for that of another request

vars == <<profile, lazySend, sent, stream, deferredCount, call, framed, bad, mixed>>

\* "mine": written by the method in progress, for the history only.
Sent == [req: Request, mine: BOOLEAN]

\* An answer: its opcode, the request it answers, whether its status is free
\* of errors, whether it is the last message of its kind.
Answer == [op: {"response", "sql", "fetch"}, to: Request, ok: BOOLEAN,
           last: BOOLEAN, mine: BOOLEAN]

Idle == [op |-> "none", todo |-> <<>>, drain |-> FALSE]

----------------------------------------------------------------------------
(* The server *)

response(q, ok) ==
  [op |-> "response", to |-> q.req, ok |-> ok, last |-> TRUE, mine |-> q.mine]

message(q, op, last) ==
  [op |-> op, to |-> q.req, ok |-> TRUE, last |-> last, mine |-> q.mine]

failure(q) == {response(q, FALSE) : x \in {q.req} \cap profile.mayFail}

\* What may come back for one request: a batch of rows ends with an empty
\* message or an error; op_execute2 that returns a row sends two messages.
answers(q) ==
  LET one == {<<response(q, TRUE)>>} \cup {<<a>> : a \in failure(q)}
  IN CASE q.req = "fetch" ->
            {[i \in 1..n+1 |-> IF i <= n THEN message(q, "fetch", FALSE) ELSE e] :
               n \in 0..MaxRows, e \in {message(q, "fetch", TRUE)} \cup failure(q)}
       [] q.req = "exec2" -> one \cup {<<message(q, "sql", FALSE)>> \o a : a \in one}
       [] OTHER -> one

serve ==
  /\ sent # <<>>
  /\ \E a \in answers(Head(sent)) : stream' = stream \o a
  /\ sent' = Tail(sent)
  /\ UNCHANGED <<profile, lazySend, deferredCount, call, framed, bad, mixed>>

----------------------------------------------------------------------------
(* The driver *)

Usable == call = Idle /\ framed /\ ~bad

Old(msgs) == [i \in DOMAIN msgs |-> [msgs[i] EXCEPT !.mine = FALSE]]

write(reqs) ==
  /\ sent' = Old(sent) \o [i \in DOMAIN reqs |-> [req |-> reqs[i], mine |-> TRUE]]
  /\ stream' = Old(stream)

\* Mutant of Call: deferred answers are not drained first.
CallNoDrain(op) ==
  /\ Usable
  /\ op \in {"readBlob", "writeBlob"} => lazySend
  /\ write(Requests[op])
  /\ call' = [op |-> op, todo |-> Requests[op], drain |-> FALSE]
  /\ UNCHANGED <<profile, lazySend, deferredCount, framed, bad, mixed>>

\* A method writes its requests, flushes, and starts to read.  Blobs are
\* pipelined only with lazy send; otherwise they are simple requests.
Call(op) ==
  /\ Usable
  /\ op \in {"readBlob", "writeBlob"} => lazySend
  /\ write(Requests[op])
  /\ call' = [op |-> op, todo |-> Requests[op], drain |-> TRUE]
  /\ UNCHANGED <<profile, lazySend, deferredCount, framed, bad, mixed>>

\* With lazy send the answer is left for later; without, it is read at once.
FreeStatement ==
  /\ Usable
  /\ Len(stream) + Len(sent) < MaxUnread
  /\ write(<<"free">>)
  /\ IF lazySend
     THEN deferredCount' = deferredCount + 1 /\ UNCHANGED call
     ELSE call' = [op |-> "free", todo |-> <<"free">>, drain |-> FALSE]
          /\ UNCHANGED deferredCount
  /\ UNCHANGED <<profile, lazySend, framed, bad, mixed>>

\* The method goes on with the answers in todo, or returns.
continue(todo) ==
  call' = IF todo = <<>> THEN Idle ELSE [call EXCEPT !.todo = todo, !.drain = FALSE]

\* What a method still reads after the error of one answer.
afterError == IF call.op \in ReadsOn THEN Tail(call.todo) ELSE <<>>

\* Mutants of consumeDeferred: it never counts down; it counts down on an error
\* too.
consumeUncounted ==
  /\ call.drain /\ deferredCount > 0
  /\ stream # <<>>
  /\ stream' = Tail(stream)
  /\ UNCHANGED <<profile, lazySend, sent, deferredCount, call, framed, bad, mixed>>

consumeCountsErrors ==
  /\ call.drain /\ deferredCount > 0
  /\ stream # <<>>
  /\ stream' = Tail(stream)
  /\ deferredCount' = deferredCount - 1
  /\ IF Head(stream).ok THEN UNCHANGED call ELSE continue(afterError)
  /\ UNCHANGED <<profile, lazySend, sent, framed, bad, mixed>>

\* consumeDeferred discards one answer.  An error ends it, and the answer it
\* came in is not counted as discarded.
consumeDeferred ==
  /\ call.drain /\ deferredCount > 0
  /\ stream # <<>>
  /\ stream' = Tail(stream)
  /\ LET a == Head(stream)
     IN /\ framed' = (a.op = "response")
        /\ IF a.op = "response" /\ a.ok
           THEN deferredCount' = deferredCount - 1 /\ UNCHANGED call
           ELSE continue(afterError) /\ UNCHANGED deferredCount
  /\ UNCHANGED <<profile, lazySend, sent, bad, mixed>>

\* The opcodes a method accepts at this point.
accepts(req) ==
  CASE req = "fetch" -> {"fetch", "response"}
    [] req = "exec2" -> {"sql", "response"}
    [] OTHER -> {"response"}

\* One answer is read and taken for the answer to the first request in todo.
ReadResponse ==
  /\ call # Idle
  /\ call.drain => deferredCount = 0
  /\ stream # <<>>
  /\ stream' = Tail(stream)
  /\ LET a == Head(stream)
         req == Head(call.todo)
     IN /\ mixed' = (mixed \/ a.to # req \/ ~a.mine)
        /\ framed' = (a.op \in accepts(req))
        /\ continue(IF a.op \notin accepts(req) \/ ~a.ok THEN afterError
                    ELSE IF a.op # "response" /\ ~a.last THEN call.todo
                    ELSE Tail(call.todo))
  /\ UNCHANGED <<profile, lazySend, sent, deferredCount, bad>>

\* A transport error: handleErrorLocked marks the connection bad.
TransportError ==
  /\ call # Idle /\ ~bad
  /\ bad' = TRUE
  /\ call' = Idle
  /\ sent' = <<>> /\ stream' = <<>>
  /\ UNCHANGED <<profile, lazySend, deferredCount, framed, mixed>>

Init ==
  /\ profile \in Profiles
  /\ lazySend \in LazySend
  /\ sent = <<>> /\ stream = <<>>
  /\ deferredCount = 0
  /\ call = Idle
  /\ framed = TRUE /\ bad = FALSE /\ mixed = FALSE

Next ==
  \/ \E op \in profile.ops : Call(op)
  \/ FreeStatement \/ consumeDeferred \/ ReadResponse \/ serve \/ TransportError

\* The server answers and a blocked read returns once there is an answer.
Fairness == WF_vars(serve) /\ WF_vars(consumeDeferred) /\ WF_vars(ReadResponse)

Spec == Init /\ [][Next]_vars /\ Fairness

----------------------------------------------------------------------------
(* Properties *)

\* A message that the deferred count can stand for: one op_response.
Plain(i) == stream[i].op = "response"

\* Between two methods deferredCount is the number of answers still to come,
\* all of them plain responses: the next method will find its own.
InSync ==
  call = Idle /\ ~bad =>
    /\ framed
    /\ deferredCount = Len(sent) + Len(stream)
    /\ \A i \in DOMAIN stream : Plain(i)

\* readResponse drains what is deferred "then reads the actual response": no
\* answer is ever taken for the answer to another request, as long as no
\* op_free_statement fails.  (After one that does, the method that finds the
\* error leaves its own answer to be discarded in its place: InSync holds.)
AnswersMatch == "free" \in profile.mayFail \/ ~mixed

\* Every method returns: none waits for an answer that nobody owes it.
CallsReturn == (call # Idle) ~> (call = Idle)
=============================================================================
