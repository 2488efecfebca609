---------------------------- MODULE FbWire_proofs ----------------------------
(***************************************************************************)
(* Proofs about FbWire: which answers stay readable although nothing in an *)
(* answer says what it belongs to, for any number of deferred answers, any *)
(* batch of rows and any bound on what is unread.                          *)
(***************************************************************************)
EXTENDS FbWire, TLAPS

\* The cases that readResponse handles: op_allocate_statement never fails, and
\* if op_free_statement may, every method in use finds one op_response for each
\* of its requests and reads all of them.
Handles(p) ==
  /\ "alloc" \notin p.mayFail
  /\ "free" \in p.mayFail => p.ops \subseteq {"simple"} \cup ReadsOn

----------------------------------------------------------------------------
(* The inductive invariant *)

TypeInv ==
  /\ profile \in Profiles /\ lazySend \in BOOLEAN
  /\ sent \in Seq(Sent) /\ stream \in Seq(Answer)
  /\ deferredCount \in Nat
  /\ call \in [op: DOMAIN Requests \cup {"free", "none"}, todo: Seq(Request), drain: BOOLEAN]
  /\ call.todo = <<>> <=> call = Idle
  /\ call.op \in profile.ops \cup {"free", "none"}
  /\ call # Idle => call.op # "none"
  /\ framed = TRUE /\ bad \in BOOLEAN /\ mixed \in BOOLEAN
  /\ bad => call = Idle /\ sent = <<>> /\ stream = <<>>

\* A method that stops at an error has nothing left to read after it.
TodoInv ==
  /\ call.op \in {"simple", "execute2", "fetch", "free"} => Len(call.todo) = 1
  /\ call.op = "prepare" => call.todo \in {<<"alloc", "prep">>, <<"prep">>}

\* The request that is answered when x requests, this one included, are still to
\* be answered: the deferred ones come before those of the method.
ReqAt(x) == IF x > Len(call.todo) THEN "free" ELSE call.todo[Len(call.todo) + 1 - x]

\* How many requests are still to be answered.
Owed == deferredCount + Len(call.todo)

\* A message that belongs to request req.
Fits(a, req) ==
  /\ a.to = req /\ a.op \in accepts(req)
  /\ ~a.ok => a.op = "response" /\ req \in profile.mayFail
  /\ a.op = "response" => a.last

\* r[i] is the number of requests still to be answered at message i of the stream.
Places(r) ==
  LET n == Len(stream)
      m == Len(sent)
  IN /\ n = 0 => m = Owed
     /\ n > 0 => r[1] = Owed /\ r[n] = m + 1 /\ stream[n].last
     /\ \A i \in 1..n : i < n => r[i + 1] = IF stream[i].last THEN r[i] - 1 ELSE r[i]
     /\ \A i \in 1..n : \A j \in 1..n :
          i < j => r[j] <= IF stream[i].last THEN r[i] - 1 ELSE r[i]
     /\ \A i \in 1..n :
          /\ m < r[i]
          /\ Fits(stream[i], ReqAt(r[i]))
          /\ call # Idle => (stream[i].mine <=> r[i] <= Len(call.todo))
          /\ r[i] > Len(call.todo) => r[i] = Owed + 1 - i
     /\ \A i \in 1..m :
          /\ sent[i].req = ReqAt(m + 1 - i)
          /\ call # Idle => (sent[i].mine <=> m + 1 - i <= Len(call.todo))

\* If op_free_statement succeeds, every answer is in the place of its request.
InPlace ==
  /\ ~bad => \E r \in [1..Len(stream) -> Nat] : Places(r)
  /\ ~lazySend => deferredCount = 0
  /\ call # Idle /\ ~call.drain => deferredCount = 0
  /\ ~mixed

\* If it may fail, the answers are all alike and their number is right.
Counted ==
  ~bad =>
    /\ Len(stream) + Len(sent) = Owed
    /\ \A i \in DOMAIN stream : stream[i].op = "response"
    /\ \A i \in DOMAIN sent : sent[i].req \notin {"fetch", "exec2"}
    /\ \A i \in DOMAIN call.todo : call.todo[i] \notin {"fetch", "exec2"}

WireInv ==
  /\ TypeInv /\ TodoInv
  /\ IF "free" \in profile.mayFail THEN Counted ELSE InPlace


----------------------------------------------------------------------------
(* The server's answers *)

\* One op_response.
LEMMA Response ==
  ASSUME NEW q \in Sent, NEW ok \in BOOLEAN
  PROVE  /\ response(q, ok) \in Answer /\ response(q, ok).op = "response"
         /\ response(q, ok).to = q.req /\ response(q, ok).ok = ok
         /\ response(q, ok).last = TRUE /\ response(q, ok).mine = q.mine
BY DEF response, Answer, Sent

\* One message of another kind.
LEMMA Message ==
  ASSUME NEW q \in Sent, NEW op \in {"sql", "fetch"}, NEW last \in BOOLEAN
  PROVE  /\ message(q, op, last) \in Answer /\ message(q, op, last).op = op
         /\ message(q, op, last).to = q.req /\ message(q, op, last).ok = TRUE
         /\ message(q, op, last).last = last /\ message(q, op, last).mine = q.mine
BY DEF message, Answer, Sent

\* An answer to one request: its last message, and only that one, says so.
IsAnswer(a, q) ==
  /\ a \in Seq(Answer) /\ Len(a) \in Nat \ {0}
  /\ \A i \in 1..Len(a) : (a[i].last <=> i = Len(a)) /\ Fits(a[i], q.req) /\ a[i].mine = q.mine
  /\ q.req \notin {"fetch", "exec2"} => Len(a) = 1

\* A single op_response, good or bad, is an answer.
LEMMA OneAnswer ==
  ASSUME NEW q \in Sent,
         NEW m \in {response(q, TRUE)} \cup failure(q)
  PROVE  m \in Answer /\ m.op = "response" /\ m.last = TRUE /\ Fits(m, q.req) /\ m.mine = q.mine
<1>1. CASE m = response(q, TRUE)
  <2>1. /\ m \in Answer /\ m.op = "response" /\ m.to = q.req /\ m.ok = TRUE
        /\ m.last = TRUE /\ m.mine = q.mine
    BY <1>1, Response
  <2> QED BY <2>1 DEF Fits, accepts
<1>2. CASE m \in failure(q)
  <2>1. m = response(q, FALSE) /\ q.req \in profile.mayFail
    BY <1>2 DEF failure
  <2>2. /\ m \in Answer /\ m.op = "response" /\ m.to = q.req /\ m.ok = FALSE
        /\ m.last = TRUE /\ m.mine = q.mine
    BY <2>1, Response
  <2> QED BY <2>1, <2>2 DEF Fits, accepts
<1> QED BY <1>1, <1>2

\* The three cases of answers.
LEMMA AnswerCases ==
  ASSUME NEW q, NEW a \in answers(q)
  PROVE  /\ q.req = "fetch" =>
              \E n \in 0..MaxRows, e \in {message(q, "fetch", TRUE)} \cup failure(q) :
                a = [i \in 1..n+1 |-> IF i <= n THEN message(q, "fetch", FALSE) ELSE e]
         /\ q.req # "fetch" => \E e \in {response(q, TRUE)} \cup failure(q) :
              \/ a = <<e>>
              \/ q.req = "exec2" /\ a = <<message(q, "sql", FALSE)>> \o <<e>>
<1> DEFINE one == {<<response(q, TRUE)>>} \cup {<<e>> : e \in failure(q)}
           two == one \cup {<<message(q, "sql", FALSE)>> \o s : s \in one}
           row(n, e) == [i \in 1..n+1 |-> IF i <= n THEN message(q, "fetch", FALSE) ELSE e]
           E == {message(q, "fetch", TRUE)} \cup failure(q)
           N == 0..MaxRows
           batch == {row(n, e) : n \in N, e \in E}
<1>1. answers(q) = CASE q.req = "fetch" -> batch [] q.req = "exec2" -> two [] OTHER -> one
  BY DEF answers
<1>2. /\ q.req = "fetch" => a \in batch
      /\ q.req # "fetch" => a \in one \/ (q.req = "exec2" /\ a \in two)
  <2> HIDE DEF one, two, batch
  <2> QED BY <1>1
<1>3. a \in batch => \E n \in N, e \in E : a = row(n, e)
  <2> HIDE DEF row, E, N, one, two
  <2> QED OBVIOUS
<1>4. \A s \in one : \E e \in {response(q, TRUE)} \cup failure(q) : s = <<e>>
  OBVIOUS
<1>5. a \in two => a \in one \/ \E s \in one : a = <<message(q, "sql", FALSE)>> \o s
  <2> HIDE DEF one
  <2> QED OBVIOUS
<1> HIDE DEF one, two, batch
<1> QED BY <1>2, <1>3, <1>4, <1>5

\* Every answer of the server is one.
LEMMA AnswersAre ==
  ASSUME NEW q \in Sent, NEW a \in answers(q)
  PROVE  IsAnswer(a, q)
<1> DEFINE good == {response(q, TRUE)} \cup failure(q)
<1>2. ASSUME NEW e \in good PROVE IsAnswer(<<e>>, q)
  <2>1. e \in Answer /\ e.op = "response" /\ e.last = TRUE /\ Fits(e, q.req) /\ e.mine = q.mine
    BY <1>2, OneAnswer
  <2> DEFINE s == <<e>>
  <2>2. s \in Seq(Answer) /\ Len(s) = 1 /\ s[1] = e
    BY <2>1
  <2>3. \A i \in 1..Len(s) : i = 1
    BY <2>2
  <2> HIDE DEF s
  <2>4. IsAnswer(s, q)
    BY <2>1, <2>2, <2>3 DEF IsAnswer
  <2> QED BY <2>4 DEF s
<1>3. CASE q.req = "fetch"
  <2>1. PICK n \in 0..MaxRows, e \in {message(q, "fetch", TRUE)} \cup failure(q) :
          a = [i \in 1..n+1 |-> IF i <= n THEN message(q, "fetch", FALSE) ELSE e]
    BY <1>3, AnswerCases
  <2>2. n \in Nat
    BY WireAssumption
  <2>3. e \in Answer /\ e.last = TRUE /\ Fits(e, q.req) /\ e.mine = q.mine
    <3>1. CASE e \in failure(q)
      BY <3>1, OneAnswer
    <3>2. CASE e = message(q, "fetch", TRUE)
      <4>1. /\ e \in Answer /\ e.op = "fetch" /\ e.to = q.req /\ e.ok = TRUE
            /\ e.last = TRUE /\ e.mine = q.mine
        BY <3>2, Message
      <4> QED BY <1>3, <4>1 DEF Fits, accepts
    <3> QED BY <3>1, <3>2
  <2> DEFINE f == message(q, "fetch", FALSE)
  <2>4. f \in Answer /\ f.last = FALSE /\ Fits(f, q.req) /\ f.mine = q.mine
    <3>1. /\ f \in Answer /\ f.op = "fetch" /\ f.to = q.req /\ f.ok = TRUE
          /\ f.last = FALSE /\ f.mine = q.mine
      BY Message
    <3> QED BY <1>3, <3>1 DEF Fits, accepts
  <2>5. a = [i \in 1..n+1 |-> IF i <= n THEN f ELSE e]
    BY <2>1
  <2> HIDE DEF f
  <2>6. a \in [1..n+1 -> Answer]
    BY <2>3, <2>4, <2>5
  <2>7. a \in Seq(Answer) /\ Len(a) = n + 1
    BY <2>2, <2>6
  <2>8. ASSUME NEW i \in 1..Len(a)
        PROVE  (a[i].last <=> i = Len(a)) /\ Fits(a[i], q.req) /\ a[i].mine = q.mine
    <3>1. CASE i <= n
      <4>1. a[i] = f /\ i # Len(a)
        BY <2>2, <2>5, <2>7, <3>1
      <4> QED BY <2>4, <4>1
    <3>2. CASE ~(i <= n)
      <4>1. a[i] = e /\ i = Len(a)
        BY <2>2, <2>5, <2>7, <3>2
      <4> QED BY <2>3, <4>1
    <3> QED BY <3>1, <3>2
  <2> QED BY <1>3, <2>2, <2>7, <2>8 DEF IsAnswer
<1>4. CASE q.req = "exec2"
  <2> DEFINE f == message(q, "sql", FALSE)
  <2>1. PICK e \in good : a = <<e>> \/ a = <<f>> \o <<e>>
    BY <1>4, AnswerCases
  <2>2. CASE a = <<e>>
    BY <1>2, <2>2
  <2>3. CASE a = <<f>> \o <<e>>
    <3>2. e \in Answer /\ e.last = TRUE /\ Fits(e, q.req) /\ e.mine = q.mine
      BY OneAnswer
    <3>3. f \in Answer /\ f.last = FALSE /\ Fits(f, q.req) /\ f.mine = q.mine
      <4>1. /\ f \in Answer /\ f.op = "sql" /\ f.to = q.req /\ f.ok = TRUE
            /\ f.last = FALSE /\ f.mine = q.mine
        BY Message
      <4> QED BY <1>4, <4>1 DEF Fits, accepts
    <3> HIDE DEF f, good
    <3>4. a \in Seq(Answer) /\ Len(a) = 2 /\ a[1] = f /\ a[2] = e
      BY <2>3, <3>2, <3>3
    <3>5. \A i \in 1..Len(a) : i = 1 \/ i = 2
      BY <3>4
    <3> QED BY <1>4, <3>2, <3>3, <3>4, <3>5 DEF IsAnswer
  <2> QED BY <2>1, <2>2, <2>3
<1>5. CASE q.req \notin {"fetch", "exec2"}
  <2>1. \E e \in good : a = <<e>>
    BY <1>5, AnswerCases
  <2> QED BY <1>2, <2>1
<1> QED BY <1>3, <1>4, <1>5

----------------------------------------------------------------------------
(* What the driver writes and reads *)

\* Older messages lose their mark and nothing else.
LEMMA OldSent ==
  ASSUME NEW s \in Seq(Sent)
  PROVE  /\ Old(s) \in Seq(Sent) /\ Len(Old(s)) = Len(s)
         /\ \A i \in 1..Len(s) : Old(s)[i].req = s[i].req /\ Old(s)[i].mine = FALSE
<1>1. \A x \in Sent : [x EXCEPT !.mine = FALSE] \in Sent
  BY DEF Sent
<1>2. \A x \in Sent : [x EXCEPT !.mine = FALSE].req = x.req /\ [x EXCEPT !.mine = FALSE].mine = FALSE
  BY DEF Sent
<1>3. Old(s) = [i \in 1..Len(s) |-> [s[i] EXCEPT !.mine = FALSE]]
  BY DEF Old
<1>4. \A i \in 1..Len(s) : s[i] \in Sent
  OBVIOUS
<1>5. Old(s) \in [1..Len(s) -> Sent]
  BY <1>1, <1>3, <1>4
<1>6. Old(s) \in Seq(Sent) /\ Len(Old(s)) = Len(s)
  BY <1>5
<1> QED BY <1>2, <1>3, <1>4, <1>6

\* The same for answers.
LEMMA OldAnswers ==
  ASSUME NEW s \in Seq(Answer)
  PROVE  /\ Old(s) \in Seq(Answer) /\ Len(Old(s)) = Len(s)
         /\ \A i \in 1..Len(s) :
              /\ Old(s)[i].op = s[i].op /\ Old(s)[i].to = s[i].to /\ Old(s)[i].ok = s[i].ok
              /\ Old(s)[i].last = s[i].last /\ Old(s)[i].mine = FALSE
<1>1. \A x \in Answer : [x EXCEPT !.mine = FALSE] \in Answer
  BY DEF Answer
<1>2. \A x, y \in Answer :
        y = [x EXCEPT !.mine = FALSE] =>
          y.op = x.op /\ y.to = x.to /\ y.ok = x.ok /\ y.last = x.last /\ y.mine = FALSE
  BY DEF Answer
<1>3. Old(s) = [i \in 1..Len(s) |-> [s[i] EXCEPT !.mine = FALSE]]
  BY DEF Old
<1>4. \A i \in 1..Len(s) : s[i] \in Answer
  OBVIOUS
<1>5. Old(s) \in [1..Len(s) -> Answer]
  BY <1>1, <1>3, <1>4
<1>6. Old(s) \in Seq(Answer) /\ Len(Old(s)) = Len(s)
  BY <1>5
<1>7. \A i \in 1..Len(s) : Old(s)[i] = [s[i] EXCEPT !.mine = FALSE] /\ Old(s)[i] \in Answer
  BY <1>1, <1>3, <1>4
<1> QED BY <1>2, <1>4, <1>6, <1>7

\* The requests of a method.
LEMMA RequestsOf ==
  ASSUME NEW op \in DOMAIN Requests
  PROVE  /\ Requests[op] \in Seq(Request) /\ Len(Requests[op]) \in Nat \ {0}
         /\ op \in {"simple", "execute2", "fetch"} => Len(Requests[op]) = 1
         /\ op = "prepare" => Requests[op] = <<"alloc", "prep">>
         /\ op \in {"simple"} \cup ReadsOn =>
              \A i \in DOMAIN Requests[op] : Requests[op][i] \notin {"fetch", "exec2"}
         /\ op \notin {"free", "none"}
<1>1. op \in {"simple", "prepare", "batch", "execute2", "fetch", "readBlob", "writeBlob"}
  BY DEF Requests
<1>2. CASE op = "simple"
  <2>1. Requests[op] = <<"simple">>
    BY <1>2 DEF Requests
  <2> QED BY <1>2, <2>1 DEF Request
<1>3. CASE op = "prepare"
  <2>1. Requests[op] = <<"alloc", "prep">>
    BY <1>3 DEF Requests
  <2> QED BY <1>3, <2>1 DEF Request, ReadsOn
<1>4. CASE op = "batch"
  <2>1. Requests[op] = <<"exec", "commit">>
    BY <1>4 DEF Requests
  <2> QED BY <1>4, <2>1 DEF Request
<1>5. CASE op = "execute2"
  <2>1. Requests[op] = <<"exec2">>
    BY <1>5 DEF Requests
  <2> QED BY <1>5, <2>1 DEF Request, ReadsOn
<1>6. CASE op = "fetch"
  <2>1. Requests[op] = <<"fetch">>
    BY <1>6 DEF Requests
  <2> QED BY <1>6, <2>1 DEF Request, ReadsOn
<1>7. CASE op = "readBlob"
  <2>1. Requests[op] = <<"open", "get">>
    BY <1>7 DEF Requests
  <2> QED BY <1>7, <2>1 DEF Request
<1>8. CASE op = "writeBlob"
  <2>1. Requests[op] = <<"create", "put", "put", "close">>
    BY <1>8 DEF Requests
  <2> QED BY <1>8, <2>1 DEF Request
<1> QED BY <1>1, <1>2, <1>3, <1>4, <1>5, <1>6, <1>7, <1>8

\* What a method writes goes behind what was sent before.
LEMMA Written ==
  ASSUME NEW reqs \in Seq(Request), TypeInv, write(reqs)
  PROVE  /\ sent' \in Seq(Sent) /\ stream' \in Seq(Answer)
         /\ Len(sent') = Len(sent) + Len(reqs) /\ Len(stream') = Len(stream)
         /\ \A i \in 1..Len(sent) : sent'[i].req = sent[i].req /\ sent'[i].mine = FALSE
         /\ \A i \in 1..Len(reqs) :
              sent'[Len(sent) + i].req = reqs[i] /\ sent'[Len(sent) + i].mine = TRUE
         /\ \A i \in 1..Len(stream) :
              /\ stream'[i].op = stream[i].op /\ stream'[i].to = stream[i].to
              /\ stream'[i].ok = stream[i].ok /\ stream'[i].last = stream[i].last
              /\ stream'[i].mine = FALSE
<1> DEFINE new == [i \in 1..Len(reqs) |-> [req |-> reqs[i], mine |-> TRUE]]
           old == Old(sent)
<1>1. sent \in Seq(Sent) /\ stream \in Seq(Answer)
  BY DEF TypeInv
<1>2. sent' = old \o new /\ stream' = Old(stream)
  <2>1. DOMAIN reqs = 1..Len(reqs)
    OBVIOUS
  <2> QED BY <2>1, Zenon DEF write
<1>3. new \in Seq(Sent) /\ Len(new) = Len(reqs)
  <2>1. new \in [1..Len(reqs) -> Sent]
    BY DEF Sent
  <2> HIDE DEF new
  <2> QED BY <2>1
<1>4. old \in Seq(Sent) /\ Len(old) = Len(sent)
      /\ \A i \in 1..Len(sent) : old[i].req = sent[i].req /\ old[i].mine = FALSE
  BY <1>1, OldSent
<1>5. \A i \in 1..Len(reqs) : new[i].req = reqs[i] /\ new[i].mine = TRUE
  OBVIOUS
<1> HIDE DEF new, old
<1>6. sent' \in Seq(Sent) /\ Len(sent') = Len(sent) + Len(reqs)
  BY <1>2, <1>3, <1>4
<1>7. \A i \in 1..Len(sent) : sent'[i] = old[i]
  BY <1>1, <1>2, <1>3, <1>4
<1>8. \A i \in 1..Len(reqs) : sent'[Len(sent) + i] = new[i]
  BY <1>1, <1>2, <1>3, <1>4
<1>9. /\ stream' \in Seq(Answer) /\ Len(stream') = Len(stream)
      /\ \A i \in 1..Len(stream) :
           /\ stream'[i].op = stream[i].op /\ stream'[i].to = stream[i].to
           /\ stream'[i].ok = stream[i].ok /\ stream'[i].last = stream[i].last
           /\ stream'[i].mine = FALSE
  BY <1>1, <1>2, OldAnswers
<1> QED BY <1>4, <1>5, <1>6, <1>7, <1>8, <1>9


----------------------------------------------------------------------------
(* The method in progress *)

\* The requests whose answers are still to be read.
LEMMA TodoSeq ==
  ASSUME TypeInv
  PROVE  /\ call.todo \in Seq(Request) /\ Len(call.todo) \in Nat
         /\ Owed \in Nat /\ Len(call.todo) <= Owed
         /\ call # Idle => /\ Len(call.todo) > 0 /\ Tail(call.todo) \in Seq(Request)
                           /\ Len(Tail(call.todo)) = Len(call.todo) - 1
                           /\ \A i \in 1..Len(call.todo) - 1 : Tail(call.todo)[i] = call.todo[i + 1]
                           /\ Head(call.todo) = call.todo[1]
         /\ call = Idle => Len(call.todo) = 0
<1>1. call.todo \in Seq(Request) /\ deferredCount \in Nat /\ (call.todo = <<>> <=> call = Idle)
  BY DEF TypeInv
<1>2. Len(call.todo) \in Nat /\ Owed \in Nat /\ Len(call.todo) <= Owed
  BY <1>1 DEF Owed
<1>3. call # Idle => call.todo # <<>>
  BY <1>1
<1> DEFINE t == call.todo
<1>4. t \in Seq(Request) /\ t # <<>> =>
        /\ Len(t) > 0 /\ Tail(t) \in Seq(Request) /\ Len(Tail(t)) = Len(t) - 1
        /\ \A i \in 1..Len(t) - 1 : Tail(t)[i] = t[i + 1]
        /\ Head(t) = t[1]
  <2> HIDE DEF t
  <2> QED OBVIOUS
<1> QED BY <1>1, <1>2, <1>3, <1>4

\* The part of TypeInv and TodoInv that is about the method.
CallInv ==
  /\ call \in [op: DOMAIN Requests \cup {"free", "none"}, todo: Seq(Request), drain: BOOLEAN]
  /\ call.todo = <<>> <=> call = Idle
  /\ call.op \in profile.ops \cup {"free", "none"}
  /\ call # Idle => call.op # "none"
  /\ TodoInv

\* No method.
LEMMA IdleCall ==
  /\ Idle.op = "none" /\ Idle.todo = <<>> /\ Idle.drain = FALSE
  /\ Idle \in [op: DOMAIN Requests \cup {"free", "none"}, todo: Seq(Request), drain: BOOLEAN]
BY DEF Idle

\* No method is a legal state of the method.
LEMMA IdleInv == ASSUME call' = Idle PROVE CallInv'
<1>1. call'.op = "none" /\ call'.todo = <<>>
  BY IdleCall
<1> QED BY <1>1, IdleCall DEF CallInv, TodoInv

\* A method goes on with the same answer or the next one.
LEMMA Continues ==
  ASSUME TypeInv, TodoInv, call # Idle, profile' = profile,
         NEW todo \in {call.todo, Tail(call.todo)}, continue(todo)
  PROVE  /\ CallInv' /\ call'.todo = todo
         /\ call' # Idle => ~call'.drain
<1>1. /\ call \in [op: DOMAIN Requests \cup {"free", "none"}, todo: Seq(Request), drain: BOOLEAN]
      /\ call.op \in profile.ops \cup {"free", "none"} /\ call.op # "none"
  BY DEF TypeInv
<1>2. todo \in Seq(Request)
  BY TodoSeq
<1>3. CASE todo = <<>>
  <2>1. call' = Idle
    BY <1>3 DEF continue
  <2> QED BY <1>3, <2>1, IdleCall, IdleInv
<1>4. CASE todo # <<>>
  <2>1. call' = [call EXCEPT !.todo = todo, !.drain = FALSE]
    BY <1>4 DEF continue
  <2>2. /\ call' \in [op: DOMAIN Requests \cup {"free", "none"}, todo: Seq(Request), drain: BOOLEAN]
        /\ call'.op = call.op /\ call'.todo = todo /\ call'.drain = FALSE
    BY <1>1, <1>2, <2>1
  <2>3. call' # Idle
    BY <1>4, <2>2, IdleCall
  <2>4. TodoInv'
    <3>1. CASE todo = call.todo
      BY <2>2, <3>1 DEF TodoInv
    <3>2. CASE todo = Tail(call.todo)
      <4>1. Len(todo) = Len(call.todo) - 1 /\ Len(todo) # 0 /\ Len(call.todo) \in Nat
        BY <1>2, <1>4, <3>2, TodoSeq
      <4>2. Len(call.todo) # 1
        BY <4>1
      <4>3. call.op = "prepare" => todo = <<"prep">>
        <5>1. Tail(<<"alloc", "prep">>) = <<"prep">> /\ Len(<<"prep">>) = 1
          OBVIOUS
        <5> QED BY <3>2, <4>2, <5>1 DEF TodoInv
      <4> QED BY <2>2, <4>2, <4>3 DEF TodoInv
    <3> QED BY <3>1, <3>2
  <2> QED BY <1>1, <1>4, <2>2, <2>3, <2>4 DEF CallInv
<1> QED BY <1>3, <1>4

\* A method stops at an error only if there is nothing after it, as long as it
\* is not op_allocate_statement that fails.
LEMMA AfterError ==
  ASSUME TypeInv, TodoInv, call # Idle,
         call.op \in {"simple", "free"} \cup ReadsOn \/ call.todo[1] # "alloc"
  PROVE  afterError = Tail(call.todo)
<1>1. CASE call.op \in ReadsOn
  BY <1>1 DEF afterError
<1>2. CASE call.op \notin ReadsOn
  <2>1. Len(call.todo) = 1
    <3>1. call.op \in {"simple", "prepare", "execute2", "fetch", "free"}
      <4>1. call.op \in DOMAIN Requests \cup {"free"}
        BY DEF TypeInv
      <4> QED BY <1>2, <4>1 DEF Requests, ReadsOn
    <3>2. CASE call.op = "prepare"
      <4>1. call.todo \in {<<"alloc", "prep">>, <<"prep">>} /\ call.todo[1] # "alloc"
        BY <1>2, <3>2 DEF TodoInv
      <4>2. call.todo = <<"prep">>
        BY <4>1
      <4> QED BY <4>2
    <3> QED BY <3>1, <3>2 DEF TodoInv
  <2>2. Tail(call.todo) = <<>>
    <3>1. Tail(call.todo) \in Seq(Request) /\ Len(Tail(call.todo)) = Len(call.todo) - 1
      BY TodoSeq
    <3>2. Len(Tail(call.todo)) = 0
      BY <2>1, <3>1
    <3>3. \A s \in Seq(Request) : Len(s) = 0 => s = <<>>
      OBVIOUS
    <3> QED BY <3>1, <3>2, <3>3
  <2> QED BY <1>2, <2>2 DEF afterError
<1> QED BY <1>1, <1>2

\* The messages of the stream after the first.
LEMMA TailStream ==
  ASSUME TypeInv, stream # <<>>, stream' = Tail(stream)
  PROVE  /\ Len(stream) \in Nat /\ Len(stream) > 0 /\ stream' \in Seq(Answer)
         /\ Len(stream') = Len(stream) - 1
         /\ \A i \in 1..Len(stream) - 1 : stream'[i] = stream[i + 1]
         /\ Head(stream) = stream[1] /\ Head(stream) \in Answer
BY DEF TypeInv

----------------------------------------------------------------------------
(* Answers in place *)

\* One message is read: it is in the first place, and the others keep theirs.
LEMMA ReadPlace ==
  ASSUME TypeInv, TypeInv', NEW r \in [1..Len(stream) -> Nat], Places(r),
         stream # <<>>, stream' = Tail(stream), UNCHANGED <<sent, profile>>,
         Owed' = IF Head(stream).last THEN Owed - 1 ELSE Owed,
         call' # Idle => call # Idle,
         \A x \in 1..Owed' : (ReqAt(x))' = ReqAt(x) /\ (x <= Len(call'.todo) <=> x <= Len(call.todo))
  PROVE  \E w \in [1..Len(stream') -> Nat] : Places(w)'
<1> DEFINE n == Len(stream)
           m == Len(sent)
<1>1. /\ n \in Nat /\ n > 0 /\ Len(stream') = n - 1 /\ Head(stream) = stream[1]
      /\ \A i \in 1..n - 1 : stream'[i] = stream[i + 1]
  BY TailStream
<1>2. m \in Nat /\ Owed \in Nat /\ Owed' \in Nat /\ Len(sent') = m
  BY TodoSeq DEF TypeInv, Owed
<1>3. Len(call'.todo) \in Nat /\ Len(call.todo) \in Nat
  BY DEF TypeInv
<1>4. PICK w : w = [i \in 1..n - 1 |-> r[i + 1]]
  OBVIOUS
<1>5. \A i \in 1..n - 1 : i + 1 \in 1..n /\ i \in 1..n /\ i < n
  BY <1>1
<1>6. w \in [1..n - 1 -> Nat] /\ \A i \in 1..n - 1 : w[i] = r[i + 1]
  BY <1>4, <1>5
<1>7. r[1] = Owed /\ r[n] = m + 1 /\ stream[n].last /\ 1 \in 1..n
  BY <1>1 DEF Places
<1>8. \A i \in 1..n - 1 : w[i] \in 1..Owed' /\ m < w[i]
  <2>1. ASSUME NEW i \in 1..n - 1 PROVE r[i + 1] \in 1..Owed' /\ m < r[i + 1]
    <3>1. r[i + 1] <= (IF stream[1].last THEN r[1] - 1 ELSE r[1]) /\ m < r[i + 1]
      <4>1. i + 1 \in 1..n /\ 1 < i + 1
        BY <1>1
      <4> QED BY <1>7, <4>1 DEF Places
    <3>2. r[i + 1] \in Nat
      BY <1>5
    <3> QED BY <1>1, <1>2, <1>7, <3>1, <3>2
  <2> QED BY <1>6, <2>1
<1>9. n - 1 = 0 => m = Owed'
  <2>1. SUFFICES ASSUME n = 1 PROVE m = Owed'
    BY <1>1
  <2>2. r[1] = m + 1 /\ stream[1].last
    BY <1>7, <2>1
  <2> QED BY <1>1, <1>2, <1>7, <2>2
<1>10. n - 1 > 0 => w[1] = Owed' /\ w[n - 1] = m + 1 /\ stream'[n - 1].last
  <2>1. SUFFICES ASSUME n > 1 PROVE w[1] = Owed' /\ w[n - 1] = m + 1 /\ stream'[n - 1].last
    BY <1>1
  <2>2. 1 \in 1..n - 1 /\ n - 1 \in 1..n - 1 /\ (n - 1) + 1 = n
    BY <1>1, <2>1
  <2>3. r[1 + 1] = IF stream[1].last THEN r[1] - 1 ELSE r[1]
    BY <1>7, <2>1 DEF Places
  <2>4. w[1] = r[1 + 1] /\ w[n - 1] = r[n] /\ stream'[n - 1] = stream[n]
    <3>1. w[n - 1] = r[(n - 1) + 1] /\ stream'[n - 1] = stream[(n - 1) + 1]
      BY <1>1, <1>6, <2>2
    <3> QED BY <1>6, <2>2, <3>1
  <2> QED BY <1>1, <1>7, <2>3, <2>4
<1>11. ASSUME NEW i \in 1..n - 1, i < n - 1
       PROVE  w[i + 1] = IF stream'[i].last THEN w[i] - 1 ELSE w[i]
  <2>1. i + 1 \in 1..n - 1 /\ i + 1 \in 1..n /\ i + 1 < n
    BY <1>1, <1>11
  <2>2. r[(i + 1) + 1] = IF stream[i + 1].last THEN r[i + 1] - 1 ELSE r[i + 1]
    BY <2>1 DEF Places
  <2>3. w[i + 1] = r[(i + 1) + 1] /\ w[i] = r[i + 1] /\ stream'[i] = stream[i + 1]
    BY <1>1, <1>6, <2>1
  <2> QED BY <2>2, <2>3
<1>12. ASSUME NEW i \in 1..n - 1, NEW j \in 1..n - 1, i < j
       PROVE  w[j] <= IF stream'[i].last THEN w[i] - 1 ELSE w[i]
  <2>1. i + 1 \in 1..n /\ j + 1 \in 1..n /\ i + 1 < j + 1
    BY <1>1, <1>12
  <2>2. r[j + 1] <= IF stream[i + 1].last THEN r[i + 1] - 1 ELSE r[i + 1]
    BY <2>1 DEF Places
  <2>3. w[j] = r[j + 1] /\ w[i] = r[i + 1] /\ stream'[i] = stream[i + 1]
    BY <1>1, <1>6
  <2> QED BY <2>2, <2>3
<1>13. ASSUME NEW i \in 1..n - 1
       PROVE  /\ (Fits(stream[i], ReqAt(w[i])))'
              /\ call' # Idle => (stream'[i].mine <=> w[i] <= Len(call'.todo))
              /\ w[i] > Len(call'.todo) => w[i] = Owed' + 1 - i
  <2>1. i + 1 \in 1..n /\ w[i] = r[i + 1] /\ stream'[i] = stream[i + 1] /\ w[i] \in 1..Owed'
    BY <1>1, <1>5, <1>6, <1>8
  <2>2. /\ Fits(stream[i + 1], ReqAt(w[i]))
        /\ call # Idle => (stream[i + 1].mine <=> w[i] <= Len(call.todo))
        /\ w[i] > Len(call.todo) => w[i] = Owed + 1 - (i + 1)
    BY <2>1 DEF Places
  <2>3. (ReqAt(w[i]))' = ReqAt(w[i]) /\ (w[i] <= Len(call'.todo) <=> w[i] <= Len(call.todo))
    BY <2>1
  <2>4. (Fits(stream[i], ReqAt(w[i])))'
    BY <2>1, <2>2, <2>3 DEF Fits
  <2>5. w[i] > Len(call'.todo) => w[i] = Owed' + 1 - i
    <3>1. SUFFICES ASSUME w[i] > Len(call'.todo) PROVE w[i] = Owed' + 1 - i
      OBVIOUS
    <3>2. w[i] > Len(call.todo)
      BY <1>3, <2>1, <2>3, <3>1
    <3>3. stream[1].last
      <4>1. w[i] = Owed - i
        BY <1>2, <2>2, <3>2
      <4>2. r[1] > Len(call.todo) /\ Fits(stream[1], ReqAt(r[1]))
        <5>1. r[1] > Len(call.todo)
          BY <1>2, <1>3, <1>7, <2>1, <3>2, <4>1
        <5> QED BY <1>7, <5>1 DEF Places
      <4>3. ReqAt(r[1]) = "free"
        BY <4>2 DEF ReqAt
      <4> QED BY <4>2, <4>3 DEF Fits, accepts
    <3> QED BY <1>1, <1>2, <2>2, <3>2, <3>3
  <2> QED BY <2>1, <2>2, <2>3, <2>4, <2>5
<1>14. ASSUME NEW i \in 1..m
       PROVE  /\ sent'[i].req = (ReqAt(m + 1 - i))'
              /\ call' # Idle => (sent'[i].mine <=> m + 1 - i <= Len(call'.todo))
  <2>1. m <= Owed'
    <3>1. CASE n = 1
      BY <1>1, <1>2, <1>9, <3>1
    <3>2. CASE n > 1
      <4>1. 1 \in 1..n - 1
        BY <1>1, <3>2
      <4>2. m < w[1] /\ w[1] \in 1..Owed'
        BY <1>8, <4>1
      <4> QED BY <1>2, <4>2
    <3> QED BY <1>1, <3>1, <3>2
  <2>2. m + 1 - i \in 1..Owed'
    BY <1>2, <2>1
  <2>3. /\ sent[i].req = ReqAt(m + 1 - i)
        /\ call # Idle => (sent[i].mine <=> m + 1 - i <= Len(call.todo))
    BY DEF Places
  <2>4. PICK x : x = m + 1 - i
    OBVIOUS
  <2>5. (ReqAt(x))' = ReqAt(x) /\ (x <= Len(call'.todo) <=> x <= Len(call.todo))
    BY <2>2, <2>4
  <2>6. sent' = sent
    OBVIOUS
  <2>7. (m + 1 - i)' = x
    BY <2>4, <2>6
  <2> QED BY <2>3, <2>4, <2>5, <2>6, <2>7
<1>15. Places(w)'
  BY <1>1, <1>2, <1>8, <1>9, <1>10, <1>11, <1>12, <1>13, <1>14 DEF Places
<1> QED BY <1>1, <1>6, <1>15


\* The server answers the first request it was sent, behind what it answered before.
LEMMA ServePlace ==
  ASSUME TypeInv, NEW r \in [1..Len(stream) -> Nat], Places(r), sent # <<>>,
         NEW a \in Seq(Answer), IsAnswer(a, Head(sent)), stream' = stream \o a, sent' = Tail(sent),
         UNCHANGED <<call, deferredCount, profile>>
  PROVE  \E w \in [1..Len(stream') -> Nat] : Places(w)'
<1> DEFINE n == Len(stream)
           m == Len(sent)
           q == Head(sent)
           l == Len(a)
           k == Len(call.todo)
<1>1. stream \in Seq(Answer) /\ sent \in Seq(Sent) /\ n \in Nat
  BY DEF TypeInv
<1>2. l \in Nat /\ l > 0
      /\ \A i \in 1..l : (a[i].last <=> i = l) /\ Fits(a[i], q.req) /\ a[i].mine = q.mine
      /\ (q.req \notin {"fetch", "exec2"} => l = 1)
  BY DEF IsAnswer
<1>3. /\ Len(stream') = n + l
      /\ \A i \in 1..n : stream'[i] = stream[i]
      /\ \A i \in n + 1 .. n + l : stream'[i] = a[i - n] /\ i - n \in 1..l
  <2> HIDE DEF l
  <2>1. l = Len(a)
    BY DEF l
  <2> QED BY <1>1, <1>2, <2>1
<1>4. /\ m \in Nat /\ m > 0 /\ Len(sent') = m - 1 /\ q = sent[1]
      /\ \A i \in 1..m - 1 : sent'[i] = sent[i + 1]
  BY <1>1
<1>5. Owed \in Nat /\ Owed' = Owed /\ k \in Nat /\ k <= Owed
  BY TodoSeq DEF Owed
<1>6. PICK w : w = [i \in 1..n + l |-> IF i <= n THEN r[i] ELSE m]
  OBVIOUS
<1>7. w \in [1..n + l -> Nat]
      /\ (\A i \in 1..n : w[i] = r[i]) /\ (\A i \in n + 1 .. n + l : w[i] = m)
  <2>1. \A i \in 1..n + l : i <= n => i \in 1..n
    BY <1>1, <1>2
  <2>2. \A i \in 1..n : i \in 1..n + l /\ i <= n
    BY <1>1, <1>2
  <2>3. \A i \in n + 1 .. n + l : i \in 1..n + l /\ ~(i <= n)
    BY <1>1, <1>2
  <2> HIDE DEF n, l
  <2>4. \A i \in 1..n : r[i] \in Nat
    BY DEF n
  <2> QED BY <1>4, <1>6, <2>1, <2>2, <2>3, <2>4
<1>8. \A i \in 1..n : r[i] \in Nat /\ m < r[i]
  BY DEF Places
<1>9. q.req = ReqAt(m) /\ (call # Idle => (q.mine <=> m <= k))
  <2>1. 1 \in 1..m /\ m + 1 - 1 = m
    BY <1>4
  <2>2. /\ sent[1].req = ReqAt(m + 1 - 1)
        /\ call # Idle => (sent[1].mine <=> m + 1 - 1 <= Len(call.todo))
    BY <2>1 DEF Places
  <2> QED BY <1>4, <2>1, <2>2
<1>10. \A i \in 1..n + l : i \in 1..n \/ i \in n + 1 .. n + l
  BY <1>1, <1>2
<1>11. w[1] = Owed
  <2>1. CASE n = 0
    <3>1. m = Owed
      BY <2>1 DEF Places
    <3>2. 1 \in n + 1 .. n + l
      BY <1>2, <2>1
    <3> QED BY <1>7, <3>1, <3>2
  <2>2. CASE n > 0
    <3>1. r[1] = Owed
      BY <2>2 DEF Places
    <3>2. 1 \in 1..n
      BY <1>1, <2>2
    <3> QED BY <1>7, <3>1, <3>2
  <2> QED BY <1>1, <2>1, <2>2
<1>12. w[n + l] = (m - 1) + 1 /\ stream'[n + l].last
  <2>1. n + l \in n + 1 .. n + l /\ (n + l) - n = l
    BY <1>1, <1>2
  <2>2. w[n + l] = m /\ m = (m - 1) + 1
    BY <1>4, <1>7, <2>1
  <2>3. stream'[n + l] = a[l] /\ l \in 1..l
    BY <1>3, <2>1
  <2> QED BY <1>2, <2>2, <2>3
<1>13. ASSUME NEW i \in 1..n + l, i < n + l
       PROVE  w[i + 1] = IF stream'[i].last THEN w[i] - 1 ELSE w[i]
  <2>1. CASE i < n
    <3>1. i \in 1..n /\ i + 1 \in 1..n
      BY <1>1, <2>1
    <3>2. r[i + 1] = IF stream[i].last THEN r[i] - 1 ELSE r[i]
      BY <2>1, <3>1 DEF Places
    <3> QED BY <1>3, <1>7, <3>1, <3>2
  <2>2. CASE i = n
    <3>1. n \in 1..n /\ n + 1 \in n + 1 .. n + l
      BY <1>1, <1>2, <2>2
    <3>2. r[n] = m + 1 /\ stream[n].last
      BY <3>1 DEF Places
    <3>3. w[i + 1] = m /\ w[i] = m + 1 /\ stream'[i].last
      BY <1>3, <1>7, <2>2, <3>1, <3>2
    <3> QED BY <1>4, <3>3
  <2>3. CASE i > n
    <3>1. i \in n + 1 .. n + l /\ i + 1 \in n + 1 .. n + l /\ i - n # l
      BY <1>1, <1>2, <1>13, <2>3
    <3>2. ~stream'[i].last
      BY <1>2, <1>3, <3>1
    <3> QED BY <1>7, <3>1, <3>2
  <2> QED BY <1>1, <1>2, <2>1, <2>2, <2>3
<1>14. ASSUME NEW i \in 1..n + l, NEW j \in 1..n + l, i < j
       PROVE  w[j] <= IF stream'[i].last THEN w[i] - 1 ELSE w[i]
  <2>1. CASE j <= n
    <3>1. i \in 1..n /\ j \in 1..n
      BY <1>1, <1>14, <2>1
    <3>2. r[j] <= IF stream[i].last THEN r[i] - 1 ELSE r[i]
      BY <1>14, <3>1 DEF Places
    <3> QED BY <1>3, <1>7, <3>1, <3>2
  <2>2. CASE i <= n /\ j > n
    <3>1. i \in 1..n /\ j \in n + 1 .. n + l
      BY <1>1, <1>2, <2>2
    <3>2. w[j] = m /\ w[i] = r[i] /\ m < r[i] /\ r[i] \in Nat
      BY <1>7, <1>8, <3>1
    <3> QED BY <1>4, <3>2
  <2>3. CASE i > n
    <3>1. i \in n + 1 .. n + l /\ j \in n + 1 .. n + l /\ i - n # l
      BY <1>1, <1>2, <1>14, <2>3
    <3>2. ~stream'[i].last
      BY <1>2, <1>3, <3>1
    <3> QED BY <1>4, <1>7, <3>1, <3>2
  <2> QED BY <1>1, <1>2, <2>1, <2>2, <2>3
<1>15. ASSUME NEW i \in 1..n + l
       PROVE  /\ m - 1 < w[i]
              /\ Fits(stream'[i], ReqAt(w[i]))
              /\ call # Idle => (stream'[i].mine <=> w[i] <= k)
              /\ w[i] > k => w[i] = Owed + 1 - i
  <2>1. CASE i \in 1..n
    <3>1. /\ m < r[i] /\ Fits(stream[i], ReqAt(r[i]))
          /\ call # Idle => (stream[i].mine <=> r[i] <= k)
          /\ r[i] > k => r[i] = Owed + 1 - i
      BY <2>1 DEF Places
    <3>2. w[i] = r[i] /\ stream'[i] = stream[i] /\ m - 1 < r[i]
      BY <1>3, <1>4, <1>7, <1>8, <2>1
    <3> QED BY <3>1, <3>2
  <2>2. CASE i \in n + 1 .. n + l
    <3>1. w[i] = m /\ stream'[i] = a[i - n] /\ i - n \in 1..l
      BY <1>3, <1>7, <2>2
    <3>2. Fits(a[i - n], q.req) /\ a[i - n].mine = q.mine
      BY <1>2, <3>1
    <3>3. ASSUME m > k PROVE m = Owed + 1 - i
      <4>1. q.req = "free"
        BY <1>9, <3>3 DEF ReqAt
      <4>2. l = 1 /\ i = n + 1
        <5>1. l = 1
          BY <1>2, <4>1
        <5> QED BY <1>1, <2>2, <5>1
      <4>3. CASE n = 0
        <5>1. m = Owed
          BY <4>3 DEF Places
        <5> QED BY <1>5, <4>2, <4>3, <5>1
      <4>4. CASE n > 0
        <5>1. n \in 1..n /\ r[n] = m + 1
          BY <1>1, <4>4 DEF Places
        <5>2. r[n] > k
          BY <1>4, <1>5, <3>3, <5>1
        <5>3. r[n] = Owed + 1 - n
          BY <5>1, <5>2 DEF Places
        <5> HIDE DEF n, m, l, k
        <5> QED BY <1>1, <1>4, <1>5, <4>2, <5>1, <5>3
      <4> QED BY <1>1, <4>3, <4>4
    <3> QED BY <1>4, <1>9, <3>1, <3>2, <3>3
  <2> QED BY <1>10, <2>1, <2>2
<1>16. ASSUME NEW i \in 1..m - 1
       PROVE  /\ sent'[i].req = ReqAt((m - 1) + 1 - i)
              /\ call # Idle => (sent'[i].mine <=> (m - 1) + 1 - i <= k)
  <2>1. i + 1 \in 1..m /\ (m - 1) + 1 - i = m + 1 - (i + 1) /\ sent'[i] = sent[i + 1]
    <3>1. sent'[i] = sent[i + 1]
      BY <1>4
    <3> HIDE DEF m
    <3> QED BY <1>4, <3>1
  <2>2. /\ sent[i + 1].req = ReqAt(m + 1 - (i + 1))
        /\ call # Idle => (sent[i + 1].mine <=> m + 1 - (i + 1) <= k)
    BY <2>1 DEF Places
  <2> QED BY <2>1, <2>2
<1> HIDE DEF n, m, l, k, q
<1>17. Len(stream') = n + l /\ n + l # 0 /\ n + l \in Nat /\ Len(sent') = m - 1
      /\ Len(call'.todo) = k /\ call' = call
  BY <1>1, <1>2, <1>3, <1>4 DEF k
<1>18. \A i \in 1..n + l :
        (/\ Len(sent) < w[i] /\ Fits(stream[i], ReqAt(w[i]))
         /\ call # Idle => (stream[i].mine <=> w[i] <= Len(call.todo))
         /\ w[i] > Len(call.todo) => w[i] = Owed + 1 - i)'
  BY <1>5, <1>15, <1>17 DEF Fits, ReqAt
<1>19. \A i \in 1..m - 1 :
        (/\ sent[i].req = ReqAt(Len(sent) + 1 - i)
         /\ call # Idle => (sent[i].mine <=> Len(sent) + 1 - i <= Len(call.todo)))'
  BY <1>16, <1>17 DEF ReqAt
<1>20. Places(w)'
  <2>1. (Len(stream) = 0 => Len(sent) = Owed)'
    BY <1>17
  <2>2. (Len(stream) > 0 => w[1] = Owed /\ w[Len(stream)] = Len(sent) + 1 /\ stream[Len(stream)].last)'
    BY <1>5, <1>11, <1>12, <1>17
  <2>3. (\A i \in 1..Len(stream) : i < Len(stream) =>
           w[i + 1] = IF stream[i].last THEN w[i] - 1 ELSE w[i])'
    BY <1>13, <1>17
  <2>4. (\A i \in 1..Len(stream) : \A j \in 1..Len(stream) :
           i < j => w[j] <= IF stream[i].last THEN w[i] - 1 ELSE w[i])'
    BY <1>14, <1>17
  <2>5. (\A i \in 1..Len(stream) :
          /\ Len(sent) < w[i] /\ Fits(stream[i], ReqAt(w[i]))
          /\ call # Idle => (stream[i].mine <=> w[i] <= Len(call.todo))
          /\ w[i] > Len(call.todo) => w[i] = Owed + 1 - i)'
    BY <1>17, <1>18
  <2>6. (\A i \in 1..Len(sent) :
          /\ sent[i].req = ReqAt(Len(sent) + 1 - i)
          /\ call # Idle => (sent[i].mine <=> Len(sent) + 1 - i <= Len(call.todo)))'
    BY <1>17, <1>19
  <2> QED BY <2>1, <2>2, <2>3, <2>4, <2>5, <2>6 DEF Places
<1> QED BY <1>7, <1>17, <1>20


\* A method writes requests: what was owed before keeps its place in front of them.
LEMMA WritePlace ==
  ASSUME TypeInv, call = Idle, NEW r \in [1..Len(stream) -> Nat], Places(r),
         NEW reqs \in Seq(Request), write(reqs), profile' = profile,
         Owed' = Owed + Len(reqs), call' # Idle => Len(call'.todo) = Len(reqs),
         \A x \in Nat \ {0} :
           (ReqAt(x))' = IF x > Len(reqs) THEN "free" ELSE reqs[Len(reqs) + 1 - x]
  PROVE  \E w \in [1..Len(stream') -> Nat] : Places(w)'
<1> DEFINE n == Len(stream)
           m == Len(sent)
           c == Len(reqs)
<1>1. /\ n \in Nat /\ m \in Nat /\ c \in Nat /\ Owed \in Nat /\ Len(call.todo) = 0
  BY TodoSeq DEF TypeInv
<1>2. /\ Len(sent') = m + c /\ Len(stream') = n
      /\ \A i \in 1..m : sent'[i].req = sent[i].req /\ sent'[i].mine = FALSE
      /\ \A i \in 1..c : sent'[m + i].req = reqs[i] /\ sent'[m + i].mine = TRUE
      /\ \A i \in 1..n :
           /\ stream'[i].op = stream[i].op /\ stream'[i].to = stream[i].to
           /\ stream'[i].ok = stream[i].ok /\ stream'[i].last = stream[i].last
           /\ stream'[i].mine = FALSE
  BY Written
<1>3. PICK w : w = [i \in 1..n |-> r[i] + c]
  OBVIOUS
<1>4. \A i \in 1..n : r[i] \in Nat
  OBVIOUS
<1>5. w \in [1..n -> Nat] /\ \A i \in 1..n : w[i] = r[i] + c
  <2> HIDE DEF n, c
  <2> QED BY <1>1, <1>3, <1>4
<1>6. \A x \in Nat \ {0} : ReqAt(x) = "free"
  BY <1>1 DEF ReqAt
<1>7. \A i \in 1..n : m < r[i] /\ Fits(stream[i], ReqAt(r[i])) /\ r[i] = Owed + 1 - i
  <2>1. \A i \in 1..n : m < r[i] /\ Fits(stream[i], ReqAt(r[i]))
                        /\ (r[i] > Len(call.todo) => r[i] = Owed + 1 - i)
    BY DEF Places
  <2>2. \A i \in 1..n : m < r[i] => r[i] > Len(call.todo)
    <3> HIDE DEF m, n
    <3> QED BY <1>1, <1>4
  <2> QED BY <2>1, <2>2
<1>8. (n = 0 => m = Owed) /\ (n > 0 => r[1] = Owed /\ r[n] = m + 1 /\ stream[n].last)
  BY DEF Places
<1>9. \A i \in 1..n : i < n => r[i + 1] = IF stream[i].last THEN r[i] - 1 ELSE r[i]
  BY DEF Places
<1>10. \A i \in 1..n : \A j \in 1..n : i < j => r[j] <= IF stream[i].last THEN r[i] - 1 ELSE r[i]
  BY DEF Places
<1>11. \A i \in 1..m : sent[i].req = "free"
  <2>1. \A i \in 1..m : sent[i].req = ReqAt(m + 1 - i)
    BY DEF Places
  <2>2. \A i \in 1..m : m + 1 - i \in Nat \ {0}
    <3> HIDE DEF m
    <3> QED BY <1>1
  <2> QED BY <1>6, <2>1, <2>2
<1>12. \A i \in 1..m + c : i \in 1..m \/ (i - m \in 1..c /\ m + (i - m) = i)
  <2> HIDE DEF m, c
  <2> QED BY <1>1
<1> HIDE DEF n, m, c
<1>13. Len(stream') = n /\ Len(sent') = m + c /\ Owed' = Owed + c
       /\ (call' # Idle => Len(call'.todo) = c)
       /\ \A x \in Nat \ {0} : (ReqAt(x))' = IF x > c THEN "free" ELSE reqs[c + 1 - x]
  BY <1>2 DEF c
<1>14. (Len(stream) = 0 => Len(sent) = Owed)'
  BY <1>1, <1>8, <1>13
<1>15. (Len(stream) > 0 => w[1] = Owed /\ w[Len(stream)] = Len(sent) + 1 /\ stream[Len(stream)].last)'
  <2>1. SUFFICES ASSUME n > 0
                 PROVE  w[1] = Owed + c /\ w[n] = (m + c) + 1 /\ stream'[n].last
    BY <1>13
  <2>2. 1 \in 1..n /\ n \in 1..n
    BY <1>1, <2>1
  <2>3. w[1] = Owed + c /\ w[n] = (m + 1) + c
    BY <1>5, <1>8, <2>1, <2>2
  <2>4. stream'[n].last
    BY <1>2, <1>8, <2>1, <2>2
  <2> QED BY <1>1, <2>3, <2>4
<1>16. (\A i \in 1..Len(stream) : i < Len(stream) =>
          w[i + 1] = IF stream[i].last THEN w[i] - 1 ELSE w[i])'
  <2>1. SUFFICES ASSUME NEW i \in 1..n, i < n
                 PROVE  w[i + 1] = IF stream'[i].last THEN w[i] - 1 ELSE w[i]
    BY <1>13
  <2>2. i + 1 \in 1..n
    BY <1>1, <2>1
  <2>3. w[i] = r[i] + c /\ w[i + 1] = r[i + 1] + c /\ stream'[i].last = stream[i].last
        /\ r[i] \in Nat /\ r[i + 1] \in Nat
    BY <1>2, <1>4, <1>5, <2>2
  <2>4. r[i + 1] = IF stream[i].last THEN r[i] - 1 ELSE r[i]
    BY <1>9, <2>1
  <2>5. r[i] > 0
    BY <1>1, <1>4, <1>7
  <2> QED BY <1>1, <2>3, <2>4, <2>5
<1>17. (\A i \in 1..Len(stream) : \A j \in 1..Len(stream) :
          i < j => w[j] <= IF stream[i].last THEN w[i] - 1 ELSE w[i])'
  <2>1. SUFFICES ASSUME NEW i \in 1..n, NEW j \in 1..n, i < j
                 PROVE  w[j] <= IF stream'[i].last THEN w[i] - 1 ELSE w[i]
    BY <1>13
  <2>2. w[i] = r[i] + c /\ w[j] = r[j] + c /\ stream'[i].last = stream[i].last
        /\ r[i] \in Nat /\ r[j] \in Nat
    BY <1>2, <1>4, <1>5
  <2>3. r[j] <= IF stream[i].last THEN r[i] - 1 ELSE r[i]
    BY <1>10, <2>1
  <2> QED BY <1>1, <2>2, <2>3
<1>18. (\A i \in 1..Len(stream) :
         /\ Len(sent) < w[i] /\ Fits(stream[i], ReqAt(w[i]))
         /\ call # Idle => (stream[i].mine <=> w[i] <= Len(call.todo))
         /\ w[i] > Len(call.todo) => w[i] = Owed + 1 - i)'
  <2>1. SUFFICES ASSUME NEW i \in 1..n
                 PROVE  (/\ Len(sent) < w[i] /\ Fits(stream[i], ReqAt(w[i]))
                         /\ call # Idle => (stream[i].mine <=> w[i] <= Len(call.todo))
                         /\ w[i] > Len(call.todo) => w[i] = Owed + 1 - i)'
    BY <1>13
  <2>2. w[i] = r[i] + c /\ r[i] \in Nat /\ m < r[i] /\ r[i] = Owed + 1 - i
        /\ Fits(stream[i], ReqAt(r[i]))
    BY <1>4, <1>5, <1>7
  <2>3. w[i] \in Nat \ {0} /\ r[i] \in Nat \ {0} /\ w[i] > c /\ ~(w[i] <= c) /\ m + c < w[i]
        /\ w[i] = (Owed + c) + 1 - i
    BY <1>1, <2>2
  <2>4. (ReqAt(w[i]))' = "free" /\ ReqAt(r[i]) = "free"
    BY <1>6, <1>13, <2>3
  <2>5. (Fits(stream[i], ReqAt(w[i])))'
    BY <1>2, <2>2, <2>4 DEF Fits
  <2>6. stream'[i].mine = FALSE
    BY <1>2
  <2> QED BY <1>13, <2>3, <2>5, <2>6
<1>19. (\A i \in 1..Len(sent) :
         /\ sent[i].req = ReqAt(Len(sent) + 1 - i)
         /\ call # Idle => (sent[i].mine <=> Len(sent) + 1 - i <= Len(call.todo)))'
  <2>1. SUFFICES ASSUME NEW i \in 1..m + c, NEW x, x = (m + c) + 1 - i
                 PROVE  /\ sent'[i].req = (ReqAt(x))'
                        /\ call' # Idle => (sent'[i].mine <=> x <= c)
    BY <1>13
  <2>2. x \in Nat \ {0}
    BY <1>1, <2>1
  <2>3. CASE i \in 1..m
    <3>1. x > c /\ ~(x <= c)
      BY <1>1, <2>1, <2>3
    <3> QED BY <1>2, <1>11, <1>13, <2>2, <2>3, <3>1
  <2>4. CASE i - m \in 1..c /\ m + (i - m) = i
    <3>1. ~(x > c) /\ x <= c /\ c + 1 - x = i - m
      BY <1>1, <2>1, <2>4
    <3>2. sent'[i].req = reqs[i - m] /\ sent'[i].mine = TRUE
      BY <1>2, <2>4
    <3> QED BY <1>13, <2>2, <3>1, <3>2
  <2> QED BY <1>12, <2>3, <2>4
<1>20. Places(w)'
  BY <1>14, <1>15, <1>16, <1>17, <1>18, <1>19 DEF Places
<1> QED BY <1>5, <1>13, <1>20

----------------------------------------------------------------------------
(* Every step *)

\* The type invariant after a step that keeps the connection good.
LEMMA TypeStep ==
  ASSUME TypeInv, UNCHANGED <<profile, lazySend, bad>>, CallInv',
         sent' \in Seq(Sent), stream' \in Seq(Answer), deferredCount' \in Nat,
         framed' = TRUE, mixed' \in BOOLEAN,
         bad => call' = Idle /\ sent' = <<>> /\ stream' = <<>>
  PROVE  TypeInv' /\ TodoInv'
BY DEF TypeInv, CallInv

\* The first message of the stream belongs to the first request that is owed.
LEMMA FirstPlace ==
  ASSUME TypeInv, NEW r \in [1..Len(stream) -> Nat], Places(r), stream # <<>>
  PROVE  /\ Fits(Head(stream), ReqAt(Owed)) /\ Owed > 0 /\ Head(stream) = stream[1]
         /\ call # Idle => (Head(stream).mine <=> Owed <= Len(call.todo))
<1>1. Len(stream) \in Nat /\ Len(stream) > 0 /\ Head(stream) = stream[1] /\ Len(sent) \in Nat
  BY DEF TypeInv
<1>2. 1 \in 1..Len(stream) /\ r[1] = Owed /\ r[1] \in Nat
  BY <1>1 DEF Places
<1>3. /\ Len(sent) < r[1] /\ Fits(stream[1], ReqAt(r[1]))
      /\ call # Idle => (stream[1].mine <=> r[1] <= Len(call.todo))
  BY <1>2 DEF Places
<1> QED BY <1>1, <1>2, <1>3

\* A new method.
LEMMA CallStep ==
  ASSUME WireInv, Handles(profile), NEW op \in profile.ops, Call(op) PROVE WireInv'
<1> DEFINE reqs == Requests[op]
<1>1. /\ TypeInv /\ call = Idle /\ ~bad /\ framed /\ write(reqs)
      /\ call' = [op |-> op, todo |-> reqs, drain |-> TRUE]
      /\ UNCHANGED <<profile, lazySend, deferredCount, framed, bad, mixed>>
  BY DEF WireInv, Call, Usable
<1>2. op \in DOMAIN Requests
  BY <1>1, WireAssumption DEF TypeInv
<1>3. /\ reqs \in Seq(Request) /\ Len(reqs) \in Nat \ {0}
      /\ op \in {"simple", "execute2", "fetch"} => Len(reqs) = 1
      /\ op = "prepare" => reqs = <<"alloc", "prep">>
      /\ op \in {"simple"} \cup ReadsOn => \A i \in DOMAIN reqs : reqs[i] \notin {"fetch", "exec2"}
      /\ op \notin {"free", "none"}
  BY <1>2, RequestsOf
<1> HIDE DEF reqs
<1>4. /\ call' \in [op: DOMAIN Requests \cup {"free", "none"}, todo: Seq(Request), drain: BOOLEAN]
      /\ call'.op = op /\ call'.todo = reqs /\ call'.drain = TRUE
  BY <1>1, <1>2, <1>3
<1>5. call' # Idle /\ reqs # <<>>
  BY <1>3, <1>4, IdleCall
<1>6. CallInv'
  BY <1>1, <1>3, <1>4, <1>5 DEF CallInv, TodoInv
<1>7. /\ sent' \in Seq(Sent) /\ stream' \in Seq(Answer)
      /\ Len(sent') = Len(sent) + Len(reqs) /\ Len(stream') = Len(stream)
      /\ \A i \in 1..Len(sent) : sent'[i].req = sent[i].req /\ sent'[i].mine = FALSE
      /\ \A i \in 1..Len(reqs) :
           sent'[Len(sent) + i].req = reqs[i] /\ sent'[Len(sent) + i].mine = TRUE
      /\ \A i \in 1..Len(stream) :
           /\ stream'[i].op = stream[i].op /\ stream'[i].to = stream[i].to
           /\ stream'[i].ok = stream[i].ok /\ stream'[i].last = stream[i].last
           /\ stream'[i].mine = FALSE
  BY <1>1, <1>3, Written
<1>8. TypeInv' /\ TodoInv'
  BY <1>1, <1>6, <1>7, TypeStep DEF TypeInv
<1>9. Len(call.todo) = 0 /\ Owed = deferredCount /\ Owed' = Owed + Len(reqs) /\ Owed \in Nat
  BY <1>1, <1>3, <1>4, TodoSeq DEF Owed, TypeInv
<1>10. CASE "free" \notin profile.mayFail
  <2>1. InPlace
    BY <1>10 DEF WireInv
  <2>2. PICK r \in [1..Len(stream) -> Nat] : Places(r)
    BY <1>1, <2>1 DEF InPlace
  <2>3. \A x \in Nat \ {0} :
          (ReqAt(x))' = IF x > Len(reqs) THEN "free" ELSE reqs[Len(reqs) + 1 - x]
    BY <1>4 DEF ReqAt
  <2>4. \E w \in [1..Len(stream') -> Nat] : Places(w)'
    BY <1>1, <1>3, <1>4, <1>9, <2>2, <2>3, WritePlace
  <2>5. InPlace'
    BY <1>1, <1>4, <2>1, <2>4 DEF InPlace
  <2> QED BY <1>1, <1>8, <1>10, <2>5 DEF WireInv
<1>11. CASE "free" \in profile.mayFail
  <2>1. Counted
    BY <1>11 DEF WireInv
  <2>2. op \in {"simple"} \cup ReadsOn
    BY <1>11 DEF Handles
  <2>3. (Len(stream) + Len(sent) = Owed)'
    <3>1. Len(stream) + Len(sent) = Owed
      BY <1>1, <2>1 DEF Counted
    <3> QED BY <1>1, <1>3, <1>7, <1>9, <3>1 DEF TypeInv
  <2>4. (\A i \in DOMAIN stream : stream[i].op = "response")'
    <3>1. \A i \in 1..Len(stream) : stream[i].op = "response"
      BY <1>1, <2>1 DEF Counted, TypeInv
    <3> QED BY <1>7, <3>1
  <2>5. (\A i \in DOMAIN sent : sent[i].req \notin {"fetch", "exec2"})'
    <3>1. \A i \in 1..Len(sent) : sent[i].req \notin {"fetch", "exec2"}
      BY <1>1, <2>1 DEF Counted, TypeInv
    <3>2. Len(sent) \in Nat
      BY <1>1 DEF TypeInv
    <3>3. \A i \in 1..Len(sent) + Len(reqs) :
            i \in 1..Len(sent) \/ (i - Len(sent) \in 1..Len(reqs) /\ Len(sent) + (i - Len(sent)) = i)
      BY <1>3, <3>2
    <3>4. \A i \in 1..Len(reqs) : reqs[i] \notin {"fetch", "exec2"}
      BY <1>3, <2>2
    <3>5. ASSUME NEW i \in 1..Len(sent) + Len(reqs) PROVE sent'[i].req \notin {"fetch", "exec2"}
      <4>1. CASE i \in 1..Len(sent)
        BY <1>7, <3>1, <4>1
      <4>2. ASSUME NEW j \in 1..Len(reqs), i = Len(sent) + j
            PROVE  sent'[i].req \notin {"fetch", "exec2"}
        BY <1>7, <3>4, <4>2
      <4> QED BY <3>3, <4>1, <4>2
    <3>6. DOMAIN sent' = 1..Len(sent) + Len(reqs)
      BY <1>7
    <3> QED BY <3>5, <3>6
  <2>6. (\A i \in DOMAIN call.todo : call.todo[i] \notin {"fetch", "exec2"})'
    BY <1>3, <1>4, <2>2
  <2>7. Counted'
    BY <2>3, <2>4, <2>5, <2>6 DEF Counted
  <2> QED BY <1>1, <1>8, <1>11, <2>7 DEF WireInv
<1> QED BY <1>10, <1>11


\* op_free_statement: deferred, or a method of its own.
LEMMA FreeStep ==
  ASSUME WireInv, FreeStatement PROVE WireInv'
<1> DEFINE reqs == <<"free">>
<1>1. /\ TypeInv /\ call = Idle /\ ~bad /\ write(reqs)
      /\ UNCHANGED <<profile, lazySend, framed, bad, mixed>>
  BY DEF WireInv, FreeStatement, Usable
<1>2. reqs \in Seq(Request) /\ Len(reqs) = 1 /\ reqs[1] = "free" /\ reqs # <<>>
  BY DEF Request
<1>3. \/ lazySend /\ deferredCount' = deferredCount + 1 /\ call' = call
      \/ ~lazySend /\ deferredCount' = deferredCount
         /\ call' = [op |-> "free", todo |-> reqs, drain |-> FALSE]
  BY DEF FreeStatement
<1>4. \A i \in DOMAIN reqs : i = 1
  OBVIOUS
<1> HIDE DEF reqs
<1>5. /\ sent' \in Seq(Sent) /\ stream' \in Seq(Answer)
      /\ Len(sent') = Len(sent) + Len(reqs) /\ Len(stream') = Len(stream)
      /\ \A i \in 1..Len(sent) : sent'[i].req = sent[i].req /\ sent'[i].mine = FALSE
      /\ \A i \in 1..Len(reqs) :
           sent'[Len(sent) + i].req = reqs[i] /\ sent'[Len(sent) + i].mine = TRUE
      /\ \A i \in 1..Len(stream) :
           /\ stream'[i].op = stream[i].op /\ stream'[i].to = stream[i].to
           /\ stream'[i].ok = stream[i].ok /\ stream'[i].last = stream[i].last
           /\ stream'[i].mine = FALSE
  BY <1>1, <1>2, Written
<1>6. deferredCount \in Nat /\ call.todo = <<>> /\ Len(sent) \in Nat /\ Len(stream) \in Nat
  BY <1>1 DEF TypeInv
<1>7. /\ CallInv' /\ deferredCount' \in Nat /\ Owed' = Owed + Len(reqs)
      /\ (call' # Idle => call'.todo = reqs /\ ~lazySend /\ deferredCount' = deferredCount)
      /\ (call' = Idle => call'.todo = <<>> /\ lazySend)
  <2>1. CASE lazySend /\ deferredCount' = deferredCount + 1 /\ call' = call
    <3>1. call' = Idle /\ call'.todo = <<>>
      BY <1>1, <1>6, <2>1
    <3>2. CallInv'
      BY <3>1, IdleInv
    <3> QED BY <1>2, <1>6, <2>1, <3>1, <3>2 DEF Owed
  <2>2. CASE /\ ~lazySend /\ deferredCount' = deferredCount
             /\ call' = [op |-> "free", todo |-> reqs, drain |-> FALSE]
    <3>1. /\ call' \in [op: DOMAIN Requests \cup {"free", "none"}, todo: Seq(Request), drain: BOOLEAN]
          /\ call'.op = "free" /\ call'.todo = reqs
      BY <1>2, <2>2
    <3>2. call' # Idle
      BY <3>1, IdleCall
    <3>3. CallInv'
      BY <1>2, <3>1, <3>2 DEF CallInv, TodoInv
    <3>4. Len(call'.todo) = 1 /\ Len(call.todo) = 0 /\ deferredCount' = deferredCount
      BY <1>2, <1>6, <2>2, <3>1
    <3>5. Owed' = Owed + Len(reqs)
      BY <1>2, <1>6, <3>4 DEF Owed
    <3> QED BY <1>6, <2>2, <3>1, <3>2, <3>3, <3>5
  <2> QED BY <1>3, <2>1, <2>2
<1>8. TypeInv' /\ TodoInv'
  BY <1>1, <1>5, <1>7, TypeStep DEF TypeInv
<1>9. \A x \in Nat \ {0} :
        (ReqAt(x))' = IF x > Len(reqs) THEN "free" ELSE reqs[Len(reqs) + 1 - x]
  <2>1. SUFFICES ASSUME NEW x \in Nat \ {0} PROVE (ReqAt(x))' = "free"
    <3>1. \A x \in Nat \ {0} : ~(x > Len(reqs)) => reqs[Len(reqs) + 1 - x] = "free"
      BY <1>2
    <3> QED BY <3>1
  <2>2. CASE call' = Idle
    <3>1. Len(call'.todo) = 0
      BY <1>7, <2>2
    <3> QED BY <3>1 DEF ReqAt
  <2>3. CASE call' # Idle
    <3>1. call'.todo = reqs
      BY <1>7, <2>3
    <3>2. ~(x > Len(reqs)) => reqs[Len(reqs) + 1 - x] = "free"
      BY <1>2
    <3> QED BY <3>1, <3>2 DEF ReqAt
  <2> QED BY <2>2, <2>3
<1>10. CASE "free" \notin profile.mayFail
  <2>1. InPlace
    BY <1>10 DEF WireInv
  <2>2. PICK r \in [1..Len(stream) -> Nat] : Places(r)
    BY <1>1, <2>1 DEF InPlace
  <2>3. call' # Idle => Len(call'.todo) = Len(reqs)
    BY <1>7
  <2>4. \E w \in [1..Len(stream') -> Nat] : Places(w)'
    BY <1>1, <1>2, <1>7, <1>9, <2>2, <2>3, WritePlace
  <2>5. InPlace'
    BY <1>1, <1>7, <2>1, <2>4 DEF InPlace
  <2> QED BY <1>1, <1>8, <1>10, <2>5 DEF WireInv
<1>11. CASE "free" \in profile.mayFail
  <2>1. Counted
    BY <1>11 DEF WireInv
  <2>2. (Len(stream) + Len(sent) = Owed)'
    <3>1. Len(stream) + Len(sent) = Owed /\ Owed \in Nat
      BY <1>1, <2>1, TodoSeq DEF Counted
    <3> QED BY <1>2, <1>5, <1>6, <1>7, <3>1
  <2>3. (\A i \in DOMAIN stream : stream[i].op = "response")'
    <3>1. \A i \in 1..Len(stream) : stream[i].op = "response"
      BY <1>1, <2>1 DEF Counted, TypeInv
    <3> QED BY <1>5, <3>1
  <2>4. (\A i \in DOMAIN sent : sent[i].req \notin {"fetch", "exec2"})'
    <3>1. \A i \in 1..Len(sent) : sent[i].req \notin {"fetch", "exec2"}
      BY <1>1, <2>1 DEF Counted, TypeInv
    <3>2. DOMAIN sent' = 1..Len(sent) + 1
      BY <1>2, <1>5
    <3>3. ASSUME NEW i \in 1..Len(sent) + 1 PROVE sent'[i].req \notin {"fetch", "exec2"}
      <4>1. CASE i \in 1..Len(sent)
        BY <1>5, <3>1, <4>1
      <4>2. CASE i = Len(sent) + 1
        <5>1. 1 \in 1..Len(reqs)
          BY <1>2
        <5>2. sent'[Len(sent) + 1].req = reqs[1]
          BY <1>5, <5>1
        <5> QED BY <1>2, <4>2, <5>2
      <4> QED BY <1>6, <4>1, <4>2
    <3> QED BY <3>2, <3>3
  <2>5. (\A i \in DOMAIN call.todo : call.todo[i] \notin {"fetch", "exec2"})'
    <3>1. CASE call' = Idle
      <4>1. DOMAIN call'.todo = {}
        BY <1>7, <3>1
      <4> QED BY <4>1
    <3>2. CASE call' # Idle
      BY <1>2, <1>4, <1>7, <3>2
    <3> QED BY <3>1, <3>2
  <2>6. Counted'
    BY <2>2, <2>3, <2>4, <2>5 DEF Counted
  <2> QED BY <1>1, <1>8, <1>11, <2>6 DEF WireInv
<1> QED BY <1>10, <1>11

\* The server answers.
LEMMA ServeStep ==
  ASSUME WireInv, serve PROVE WireInv'
<1> DEFINE q == Head(sent)
<1>1. PICK a \in answers(q) : stream' = stream \o a
  BY DEF serve
<1>2. /\ TypeInv /\ TodoInv /\ sent # <<>> /\ sent' = Tail(sent)
      /\ UNCHANGED <<profile, lazySend, deferredCount, call, framed, bad, mixed>>
  BY DEF WireInv, serve
<1>3. sent \in Seq(Sent) /\ stream \in Seq(Answer) /\ q \in Sent /\ q = sent[1] /\ ~bad
  BY <1>2 DEF TypeInv
<1>4. IsAnswer(a, q) /\ a \in Seq(Answer)
  BY <1>3, AnswersAre DEF IsAnswer
<1>5. sent' \in Seq(Sent) /\ stream' \in Seq(Answer) /\ Len(sent) > 0
      /\ Len(sent') = Len(sent) - 1 /\ Len(stream') = Len(stream) + Len(a)
      /\ (\A i \in 1..Len(sent) - 1 : sent'[i] = sent[i + 1])
      /\ DOMAIN sent' = 1..Len(sent) - 1 /\ DOMAIN stream' = 1..Len(stream) + Len(a)
  <2> HIDE DEF q
  <2> QED BY <1>1, <1>2, <1>3, <1>4
<1>6. TypeInv' /\ TodoInv'
  BY <1>2, <1>3, <1>5 DEF TypeInv, TodoInv
<1>7. CASE "free" \notin profile.mayFail
  <2>1. InPlace
    BY <1>7 DEF WireInv
  <2>2. PICK r \in [1..Len(stream) -> Nat] : Places(r)
    BY <1>3, <2>1 DEF InPlace
  <2>3. \E w \in [1..Len(stream') -> Nat] : Places(w)'
    BY <1>1, <1>2, <1>4, <2>2, ServePlace
  <2>4. InPlace'
    BY <1>2, <2>1, <2>3 DEF InPlace
  <2> QED BY <1>2, <1>6, <1>7, <2>4 DEF WireInv
<1>8. CASE "free" \in profile.mayFail
  <2>1. /\ Len(stream) + Len(sent) = Owed
        /\ \A i \in DOMAIN stream : stream[i].op = "response"
        /\ \A i \in DOMAIN sent : sent[i].req \notin {"fetch", "exec2"}
        /\ \A i \in DOMAIN call.todo : call.todo[i] \notin {"fetch", "exec2"}
    BY <1>3, <1>8 DEF WireInv, Counted
  <2>2. q.req \notin {"fetch", "exec2"}
    <3>1. 1 \in DOMAIN sent
      BY <1>3, <1>5
    <3> QED BY <1>3, <2>1, <3>1
  <2>3. Len(a) = 1 /\ a[1].op = "response"
    <3>1. Len(a) = 1 /\ Fits(a[1], q.req)
      BY <1>4, <2>2 DEF IsAnswer
    <3> QED BY <2>2, <3>1 DEF Fits, accepts
  <2>4. (Len(stream) + Len(sent) = Owed)'
    <3>1. Owed' = Owed
      BY <1>2 DEF Owed
    <3>2. Len(sent) \in Nat /\ Len(stream) \in Nat
      BY <1>3
    <3> QED BY <1>5, <2>1, <2>3, <3>1, <3>2
  <2>5. (\A i \in DOMAIN stream : stream[i].op = "response")'
    <3>1. ASSUME NEW i \in 1..Len(stream) + 1 PROVE stream'[i].op = "response"
      <4>1. CASE i \in 1..Len(stream)
        <5>1. stream'[i] = stream[i] /\ i \in DOMAIN stream
          BY <1>1, <1>3, <1>4, <4>1
        <5> QED BY <2>1, <5>1
      <4>2. CASE i = Len(stream) + 1
        <5>1. stream'[i] = a[1]
          <6>1. Len(stream) \in Nat /\ i \in 1..Len(stream) + Len(a) /\ i > Len(stream)
                /\ i - Len(stream) = 1
            BY <1>3, <2>3, <4>2
          <6>2. (stream \o a)[i] = a[i - Len(stream)]
            BY <1>3, <1>4, <6>1
          <6> QED BY <1>1, <6>1, <6>2
        <5> QED BY <2>3, <5>1
      <4>3. Len(stream) \in Nat
        BY <1>3
      <4> QED BY <4>1, <4>2, <4>3
    <3>2. DOMAIN stream' = 1..Len(stream) + 1
      BY <1>5, <2>3
    <3> QED BY <3>1, <3>2
  <2>6. (\A i \in DOMAIN sent : sent[i].req \notin {"fetch", "exec2"})'
    <3>1. ASSUME NEW i \in 1..Len(sent) - 1 PROVE sent'[i].req \notin {"fetch", "exec2"}
      <4>1. i + 1 \in DOMAIN sent /\ sent'[i] = sent[i + 1]
        BY <1>3, <1>5
      <4> QED BY <2>1, <4>1
    <3> QED BY <1>5, <3>1
  <2>7. Counted'
    BY <1>2, <2>1, <2>4, <2>5, <2>6 DEF Counted
  <2> QED BY <1>2, <1>6, <1>8, <2>7 DEF WireInv
<1> QED BY <1>7, <1>8


\* A deferred answer is discarded; if it is an error, the method's first answer
\* will be discarded in its place.
LEMMA ConsumeStep ==
  ASSUME WireInv, Handles(profile), consumeDeferred PROVE WireInv'
<1> DEFINE a == Head(stream)
<1>1. /\ TypeInv /\ TodoInv /\ call.drain /\ deferredCount > 0 /\ stream # <<>>
      /\ stream' = Tail(stream) /\ framed' = (a.op = "response")
      /\ UNCHANGED <<profile, lazySend, sent, bad, mixed>>
  BY DEF WireInv, consumeDeferred
<1>2. call # Idle /\ ~bad /\ deferredCount \in Nat /\ sent \in Seq(Sent) /\ stream \in Seq(Answer)
  BY <1>1, IdleCall DEF TypeInv
<1>3. \/ a.op = "response" /\ a.ok /\ deferredCount' = deferredCount - 1 /\ call' = call
      \/ ~(a.op = "response" /\ a.ok) /\ continue(afterError) /\ deferredCount' = deferredCount
  BY DEF consumeDeferred
<1>4. /\ Len(stream) \in Nat /\ Len(stream) > 0 /\ stream' \in Seq(Answer)
      /\ Len(stream') = Len(stream) - 1
      /\ \A i \in 1..Len(stream) - 1 : stream'[i] = stream[i + 1]
      /\ a = stream[1] /\ a \in Answer
  BY <1>1, TailStream
<1>5. /\ call.todo \in Seq(Request) /\ Len(call.todo) \in Nat /\ Len(call.todo) > 0
      /\ Tail(call.todo) \in Seq(Request) /\ Len(Tail(call.todo)) = Len(call.todo) - 1
      /\ \A i \in 1..Len(call.todo) - 1 : Tail(call.todo)[i] = call.todo[i + 1]
  BY <1>1, <1>2, TodoSeq
<1>6. ASSUME call' = call PROVE CallInv'
  BY <1>1, <1>6 DEF CallInv, TypeInv, TodoInv
<1> HIDE DEF a
<1>7. CASE "free" \notin profile.mayFail
  <2>1. InPlace
    BY <1>7 DEF WireInv
  <2>2. PICK r \in [1..Len(stream) -> Nat] : Places(r)
    BY <1>2, <2>1 DEF InPlace
  <2>3. Fits(a, ReqAt(Owed))
    BY <1>1, <2>2, FirstPlace DEF a
  <2>4. Owed = deferredCount + Len(call.todo) /\ Owed > Len(call.todo) /\ Owed \in Nat
    BY <1>1, <1>2, <1>5 DEF Owed
  <2>5. ReqAt(Owed) = "free"
    BY <2>4 DEF ReqAt
  <2>6. a.op = "response" /\ a.ok /\ a.last
    BY <1>7, <2>3, <2>5 DEF Fits, accepts
  <2>7. deferredCount' = deferredCount - 1 /\ call' = call /\ framed' = TRUE
    BY <1>1, <1>3, <2>6
  <2>8. TypeInv' /\ TodoInv'
    <3>1. deferredCount' \in Nat
      BY <1>1, <1>2, <2>7
    <3> QED BY <1>1, <1>2, <1>4, <1>6, <2>7, <3>1, TypeStep DEF TypeInv
  <2>9. Owed' = IF Head(stream).last THEN Owed - 1 ELSE Owed
    <3>1. Owed' = Owed - 1
      BY <1>2, <1>5, <2>4, <2>7 DEF Owed
    <3> QED BY <2>6, <3>1 DEF a
  <2>10. \A x \in 1..Owed' :
           (ReqAt(x))' = ReqAt(x) /\ (x <= Len(call'.todo) <=> x <= Len(call.todo))
    BY <2>7 DEF ReqAt
  <2>11. \E w \in [1..Len(stream') -> Nat] : Places(w)'
    BY <1>1, <1>2, <2>2, <2>8, <2>9, <2>10, ReadPlace
  <2>12. InPlace'
    BY <1>1, <1>2, <2>1, <2>7, <2>11 DEF InPlace
  <2> QED BY <1>1, <1>7, <2>8, <2>12 DEF WireInv
<1>8. CASE "free" \in profile.mayFail
  <2>1. /\ Len(stream) + Len(sent) = Owed
        /\ \A i \in DOMAIN stream : stream[i].op = "response"
        /\ \A i \in DOMAIN sent : sent[i].req \notin {"fetch", "exec2"}
        /\ \A i \in DOMAIN call.todo : call.todo[i] \notin {"fetch", "exec2"}
    BY <1>2, <1>8 DEF WireInv, Counted
  <2>2. a.op = "response" /\ framed' = TRUE
    <3>1. 1 \in DOMAIN stream
      BY <1>2, <1>4
    <3> QED BY <1>1, <1>4, <2>1, <3>1
  <2>3. call.op \in {"simple", "free"} \cup ReadsOn
    BY <1>1, <1>2, <1>8 DEF TypeInv, Handles
  <2>4. afterError = Tail(call.todo)
    BY <1>1, <1>2, <2>3, AfterError
  <2>5. /\ CallInv' /\ deferredCount' \in Nat /\ Owed' = Owed - 1
        /\ \A i \in DOMAIN call'.todo : call'.todo[i] \notin {"fetch", "exec2"}
    <3>1. CASE deferredCount' = deferredCount - 1 /\ call' = call
      <4>1. deferredCount' \in Nat /\ Owed' = Owed - 1
        BY <1>1, <1>2, <1>5, <3>1 DEF Owed
      <4> QED BY <1>6, <2>1, <3>1, <4>1
    <3>2. CASE continue(afterError) /\ deferredCount' = deferredCount
      <4>1. CallInv' /\ call'.todo = Tail(call.todo)
        BY <1>1, <1>2, <2>4, <3>2, Continues
      <4>2. Owed' = Owed - 1
        BY <1>2, <1>5, <3>2, <4>1 DEF Owed
      <4>3. ASSUME NEW i \in DOMAIN call'.todo PROVE call'.todo[i] \notin {"fetch", "exec2"}
        <5>1. i \in 1..Len(call.todo) - 1
          BY <1>5, <4>1
        <5>2. call'.todo[i] = call.todo[i + 1] /\ i + 1 \in DOMAIN call.todo
          BY <1>5, <4>1, <5>1
        <5> QED BY <2>1, <5>2
      <4> QED BY <1>2, <3>2, <4>1, <4>2, <4>3
    <3> QED BY <1>3, <3>1, <3>2
  <2>6. TypeInv' /\ TodoInv'
    BY <1>1, <1>2, <1>4, <2>2, <2>5, TypeStep DEF TypeInv
  <2>7. (Len(stream) + Len(sent) = Owed)'
    <3>1. Len(sent) \in Nat /\ sent' = sent
      BY <1>1, <1>2
    <3> QED BY <1>4, <2>1, <2>5, <3>1
  <2>8. (\A i \in DOMAIN stream : stream[i].op = "response")'
    <3>1. ASSUME NEW i \in DOMAIN stream' PROVE stream'[i].op = "response"
      <4>1. i \in 1..Len(stream) - 1
        BY <1>4
      <4>2. stream'[i] = stream[i + 1] /\ i + 1 \in DOMAIN stream
        BY <1>2, <1>4, <4>1
      <4> QED BY <2>1, <4>2
    <3> QED BY <3>1
  <2>9. Counted'
    BY <1>1, <2>1, <2>5, <2>7, <2>8 DEF Counted
  <2> QED BY <1>1, <1>8, <2>6, <2>9 DEF WireInv
<1> QED BY <1>7, <1>8


\* An answer is read: it is that of the request the method waits for, unless
\* op_free_statement may fail, and then it is one of the right number.
LEMMA ReadStep ==
  ASSUME WireInv, Handles(profile), ReadResponse PROVE WireInv'
<1> DEFINE a == Head(stream)
           req == Head(call.todo)
           next == IF a.op \notin accepts(req) \/ ~a.ok THEN afterError
                   ELSE IF a.op # "response" /\ ~a.last THEN call.todo
                   ELSE Tail(call.todo)
<1>1. /\ TypeInv /\ TodoInv /\ call # Idle /\ (call.drain => deferredCount = 0) /\ stream # <<>>
      /\ stream' = Tail(stream) /\ framed' = (a.op \in accepts(req))
      /\ mixed' = (mixed \/ a.to # req \/ ~a.mine)
      /\ UNCHANGED <<profile, lazySend, sent, deferredCount, bad>>
  BY DEF WireInv, ReadResponse
<1>2. continue(next)
  BY DEF ReadResponse
<1>3. ~bad /\ deferredCount \in Nat /\ sent \in Seq(Sent) /\ stream \in Seq(Answer)
      /\ mixed' \in BOOLEAN
  BY <1>1 DEF TypeInv
<1>4. /\ Len(stream) \in Nat /\ Len(stream) > 0 /\ stream' \in Seq(Answer)
      /\ Len(stream') = Len(stream) - 1
      /\ \A i \in 1..Len(stream) - 1 : stream'[i] = stream[i + 1]
      /\ a = stream[1] /\ a \in Answer
  BY <1>1, TailStream
<1>5. /\ call.todo \in Seq(Request) /\ Len(call.todo) \in Nat /\ Len(call.todo) > 0
      /\ Tail(call.todo) \in Seq(Request) /\ Len(Tail(call.todo)) = Len(call.todo) - 1
      /\ \A i \in 1..Len(call.todo) - 1 : Tail(call.todo)[i] = call.todo[i + 1]
      /\ req = call.todo[1]
  BY <1>1, TodoSeq
<1> HIDE DEF a, req
<1>6. CASE "free" \notin profile.mayFail
  <2>1. InPlace
    BY <1>6 DEF WireInv
  <2>2. PICK r \in [1..Len(stream) -> Nat] : Places(r)
    BY <1>3, <2>1 DEF InPlace
  <2>3. deferredCount = 0 /\ Owed = Len(call.todo)
    BY <1>1, <1>5, <2>1 DEF InPlace, Owed
  <2>4. Fits(a, ReqAt(Owed)) /\ (a.mine <=> Owed <= Len(call.todo))
    BY <1>1, <2>2, FirstPlace DEF a
  <2>5. ReqAt(Owed) = req
    <3>1. ~(Owed > Len(call.todo)) /\ Len(call.todo) + 1 - Owed = 1
      BY <1>5, <2>3
    <3> QED BY <1>5, <3>1 DEF ReqAt
  <2>6. /\ a.to = req /\ a.op \in accepts(req) /\ (~a.ok => a.op = "response" /\ req # "alloc")
        /\ (a.op = "response" => a.last) /\ a.mine
    <3>1. Owed <= Len(call.todo)
      BY <1>5, <2>3
    <3> QED BY <2>4, <2>5, <3>1 DEF Fits, Handles
  <2>7. framed' = TRUE
    BY <1>1, <2>6
  <2>8. ~mixed'
    BY <1>1, <2>1, <2>6 DEF InPlace
  <2>9. ~a.ok => afterError = Tail(call.todo)
    BY <1>1, <1>5, <2>6, AfterError
  <2>10. next = IF a.last THEN Tail(call.todo) ELSE call.todo
    BY <2>6, <2>9
  <2> HIDE DEF next
  <2>11. CallInv' /\ call'.todo = next /\ (call' # Idle => ~call'.drain)
    BY <1>1, <1>2, <2>10, Continues
  <2>12. TypeInv' /\ TodoInv'
    BY <1>1, <1>3, <1>4, <2>7, <2>11, TypeStep DEF TypeInv
  <2>13. Owed' = Len(next)
    <3>1. deferredCount' = 0 /\ call'.todo = next /\ Len(next) \in Nat
      BY <1>1, <1>5, <2>3, <2>10, <2>11
    <3> QED BY <3>1 DEF Owed
  <2>14. Owed' = IF Head(stream).last THEN Owed - 1 ELSE Owed
    BY <1>5, <2>3, <2>10, <2>13 DEF a
  <2>15. \A x \in 1..Owed' :
           (ReqAt(x))' = ReqAt(x) /\ (x <= Len(call'.todo) <=> x <= Len(call.todo))
    <3>1. SUFFICES ASSUME NEW x \in 1..Len(next)
                   PROVE  /\ (ReqAt(x))' = ReqAt(x)
                          /\ (x <= Len(next) <=> x <= Len(call.todo))
      BY <2>11, <2>13
    <3>2. CASE next = call.todo
      BY <2>11, <3>2 DEF ReqAt
    <3>3. CASE next = Tail(call.todo)
      <4>1. Len(next) = Len(call.todo) - 1 /\ ~(x > Len(next)) /\ ~(x > Len(call.todo))
            /\ x <= Len(next) /\ x <= Len(call.todo)
        BY <1>5, <3>3
      <4>2. next[Len(next) + 1 - x] = call.todo[Len(call.todo) + 1 - x]
        <5>1. Len(next) + 1 - x \in 1..Len(call.todo) - 1
              /\ (Len(next) + 1 - x) + 1 = Len(call.todo) + 1 - x
          BY <1>5, <4>1
        <5>2. Tail(call.todo)[Len(next) + 1 - x] = call.todo[(Len(next) + 1 - x) + 1]
          BY <1>5, <5>1
        <5> QED BY <3>3, <5>1, <5>2
      <4>3. (ReqAt(x))' = next[Len(next) + 1 - x]
        BY <2>11, <4>1 DEF ReqAt
      <4>4. ReqAt(x) = call.todo[Len(call.todo) + 1 - x]
        BY <4>1 DEF ReqAt
      <4> QED BY <4>1, <4>2, <4>3, <4>4
    <3> QED BY <2>10, <3>2, <3>3
  <2>16. \E w \in [1..Len(stream') -> Nat] : Places(w)'
    BY <1>1, <2>2, <2>12, <2>14, <2>15, ReadPlace
  <2>17. InPlace'
    BY <1>1, <2>3, <2>8, <2>11, <2>16 DEF InPlace
  <2> QED BY <1>1, <1>6, <2>12, <2>17 DEF WireInv
<1>7. CASE "free" \in profile.mayFail
  <2>1. /\ Len(stream) + Len(sent) = Owed
        /\ \A i \in DOMAIN stream : stream[i].op = "response"
        /\ \A i \in DOMAIN sent : sent[i].req \notin {"fetch", "exec2"}
        /\ \A i \in DOMAIN call.todo : call.todo[i] \notin {"fetch", "exec2"}
    BY <1>3, <1>7 DEF WireInv, Counted
  <2>2. a.op = "response" /\ a.op \in accepts(req) /\ framed' = TRUE
    <3>1. 1 \in DOMAIN stream
      BY <1>3, <1>4
    <3>2. a.op = "response"
      BY <1>4, <2>1, <3>1
    <3> QED BY <1>1, <3>2 DEF accepts
  <2>3. call.op \in {"simple", "free"} \cup ReadsOn
    BY <1>1, <1>7 DEF TypeInv, Handles
  <2>4. next = Tail(call.todo)
    <3>1. afterError = Tail(call.todo)
      BY <1>1, <2>3, AfterError
    <3> QED BY <2>2, <3>1
  <2> HIDE DEF next
  <2>5. CallInv' /\ call'.todo = Tail(call.todo)
    BY <1>1, <1>2, <2>4, Continues
  <2>6. TypeInv' /\ TodoInv'
    BY <1>1, <1>3, <1>4, <2>2, <2>5, TypeStep DEF TypeInv
  <2>7. (Len(stream) + Len(sent) = Owed)'
    <3>1. Owed' = Owed - 1
      BY <1>1, <1>3, <1>5, <2>5 DEF Owed
    <3>2. Len(sent) \in Nat /\ sent' = sent
      BY <1>1, <1>3
    <3> QED BY <1>4, <2>1, <3>1, <3>2
  <2>8. (\A i \in DOMAIN stream : stream[i].op = "response")'
    <3>1. ASSUME NEW i \in DOMAIN stream' PROVE stream'[i].op = "response"
      <4>1. i \in 1..Len(stream) - 1
        BY <1>4
      <4>2. stream'[i] = stream[i + 1] /\ i + 1 \in DOMAIN stream
        BY <1>3, <1>4, <4>1
      <4> QED BY <2>1, <4>2
    <3> QED BY <3>1
  <2>9. (\A i \in DOMAIN call.todo : call.todo[i] \notin {"fetch", "exec2"})'
    <3>1. ASSUME NEW i \in DOMAIN call'.todo PROVE call'.todo[i] \notin {"fetch", "exec2"}
      <4>1. i \in 1..Len(call.todo) - 1
        BY <1>5, <2>5
      <4>2. call'.todo[i] = call.todo[i + 1] /\ i + 1 \in DOMAIN call.todo
        BY <1>5, <2>5, <4>1
      <4> QED BY <2>1, <4>2
    <3> QED BY <3>1
  <2>10. Counted'
    BY <1>1, <2>1, <2>7, <2>8, <2>9 DEF Counted
  <2> QED BY <1>1, <1>7, <2>6, <2>10 DEF WireInv
<1> QED BY <1>6, <1>7

\* The socket is closed: nothing is left to be read.
LEMMA ErrorStep == ASSUME WireInv, TransportError PROVE WireInv'
<1>1. /\ TypeInv /\ bad' = TRUE /\ call' = Idle /\ sent' = <<>> /\ stream' = <<>>
      /\ UNCHANGED <<profile, lazySend, deferredCount, framed, mixed>>
  BY DEF WireInv, TransportError
<1>2. CallInv'
  BY <1>1, IdleInv
<1>3. TypeInv' /\ TodoInv'
  BY <1>1, <1>2 DEF TypeInv, CallInv
<1>4. CASE "free" \in profile.mayFail
  BY <1>1, <1>3, <1>4 DEF WireInv, Counted
<1>5. CASE "free" \notin profile.mayFail
  BY <1>1, <1>3, <1>5 DEF WireInv, InPlace
<1> QED BY <1>4, <1>5

\* A connection that was just opened.
LEMMA InitWire == ASSUME Init PROVE WireInv
<1>1. /\ profile \in Profiles /\ lazySend \in BOOLEAN /\ sent = <<>> /\ stream = <<>>
      /\ deferredCount = 0 /\ call = Idle /\ framed = TRUE /\ bad = FALSE /\ mixed = FALSE
  BY WireAssumption DEF Init
<1>2. call.op = "none" /\ call.todo = <<>>
  BY <1>1, IdleCall
<1>3. TypeInv
  <2>1. sent \in Seq(Sent) /\ stream \in Seq(Answer) /\ deferredCount \in Nat
    BY <1>1
  <2>2. /\ call \in [op: DOMAIN Requests \cup {"free", "none"}, todo: Seq(Request), drain: BOOLEAN]
        /\ call.op \in profile.ops \cup {"free", "none"} /\ (call.todo = <<>> <=> call = Idle)
        /\ (call # Idle => call.op # "none")
    BY <1>1, <1>2, IdleCall
  <2>3. bad \in BOOLEAN /\ mixed \in BOOLEAN /\ ~bad
    BY <1>1
  <2> QED BY <1>1, <2>1, <2>2, <2>3 DEF TypeInv
<1>4. TodoInv
  BY <1>2 DEF TodoInv
<1>5. Len(stream) = 0 /\ Len(sent) = 0 /\ Owed = 0 /\ DOMAIN stream = {} /\ DOMAIN sent = {}
      /\ DOMAIN call.todo = {}
  BY <1>1, <1>2 DEF Owed
<1>6. Counted
  BY <1>5 DEF Counted
<1>7. InPlace
  <2>1. PICK r : r = [i \in 1..Len(stream) |-> 0]
    OBVIOUS
  <2>2. r \in [1..Len(stream) -> Nat]
    BY <2>1
  <2>3. Places(r)
    BY <1>5 DEF Places
  <2> QED BY <1>1, <2>2, <2>3 DEF InPlace
<1> QED BY <1>3, <1>4, <1>6, <1>7 DEF WireInv

\* Every step preserves the invariant.
LEMMA StepWire == ASSUME WireInv, Handles(profile), [Next]_vars PROVE WireInv'
<1>1. CASE UNCHANGED vars
  <2>1. UNCHANGED <<profile, lazySend, sent, stream, deferredCount, call, framed, bad, mixed>>
    BY <1>1 DEF vars
  <2>2. TypeInv' /\ TodoInv'
    BY <2>1 DEF WireInv, TypeInv, TodoInv
  <2>3. Counted => Counted'
    BY <2>1 DEF Counted, Owed
  <2>4. ASSUME InPlace PROVE InPlace'
    <3>1. SUFFICES ASSUME ~bad PROVE \E r \in [1..Len(stream) -> Nat] : Places(r)'
      BY <2>1, <2>4 DEF InPlace
    <3>2. PICK r \in [1..Len(stream) -> Nat] : Places(r)
      BY <2>4, <3>1 DEF InPlace
    <3>3. Owed' = Owed /\ \A x : ReqAt(x)' = ReqAt(x)
      BY <2>1 DEF Owed, ReqAt
    <3>4. \A a, q : Fits(a, q)' = Fits(a, q)
      BY <2>1 DEF Fits
    <3>5. Places(r)'
      BY <2>1, <3>2, <3>3, <3>4 DEF Places
    <3> QED BY <3>5
  <2> QED BY <2>1, <2>2, <2>3, <2>4 DEF WireInv
<1> QED BY <1>1, CallStep, FreeStep, ConsumeStep, ReadStep, ServeStep, ErrorStep DEF Next

\* The deferred count, the requests on their way and the answers not read yet
\* match, request by request, whatever the requests in between were.
THEOREM WireInvariant ==
  ASSUME \A p \in Profiles : Handles(p) PROVE Spec => []WireInv
<1>1. Init => WireInv
  BY InitWire
<1>2. WireInv => Handles(profile)
  BY DEF WireInv, TypeInv
<1>3. WireInv /\ [Next]_vars => WireInv'
  BY <1>2, StepWire
<1> QED BY <1>1, <1>3, PTL DEF Spec

\* Between two methods deferredCount is the number of answers still to come, all
\* of them plain responses (consumeDeferred and readResponse).
THEOREM ConnectionsStayInSync ==
  ASSUME \A p \in Profiles : Handles(p) PROVE Spec => []InSync
<1>1. ASSUME WireInv PROVE InSync
  <2>1. SUFFICES ASSUME call = Idle, ~bad
                 PROVE  /\ framed /\ deferredCount = Len(sent) + Len(stream)
                        /\ \A i \in DOMAIN stream : stream[i].op = "response"
    BY DEF InSync, Plain
  <2>2. /\ TypeInv /\ framed /\ deferredCount \in Nat /\ sent \in Seq(Sent) /\ stream \in Seq(Answer)
        /\ Len(call.todo) = 0
    BY <1>1, <2>1, TodoSeq DEF WireInv, TypeInv
  <2>3. Owed = deferredCount /\ Len(sent) \in Nat /\ Len(stream) \in Nat
    BY <2>2 DEF Owed
  <2>4. CASE "free" \in profile.mayFail
    BY <1>1, <2>1, <2>2, <2>3, <2>4 DEF WireInv, Counted
  <2>5. CASE "free" \notin profile.mayFail
    <3>1. PICK r \in [1..Len(stream) -> Nat] : Places(r)
      BY <1>1, <2>1, <2>5 DEF WireInv, InPlace
    <3>2. ASSUME NEW i \in 1..Len(stream)
          PROVE  stream[i].op = "response" /\ r[i] = Owed + 1 - i
      <4>1. Len(sent) < r[i] /\ r[i] \in Nat
        BY <3>1 DEF Places
      <4>2. r[i] > Len(call.todo)
        BY <2>2, <2>3, <4>1
      <4>3. ReqAt(r[i]) = "free"
        BY <4>2 DEF ReqAt
      <4>4. Fits(stream[i], "free") /\ r[i] = Owed + 1 - i
        BY <3>1, <4>2, <4>3 DEF Places
      <4> QED BY <4>4 DEF Fits, accepts
    <3>3. deferredCount = Len(sent) + Len(stream)
      <4>1. CASE Len(stream) = 0
        BY <2>3, <3>1, <4>1 DEF Places
      <4>2. CASE Len(stream) > 0
        <5>1. Len(stream) \in 1..Len(stream) /\ r[Len(stream)] = Len(sent) + 1
          BY <2>3, <3>1, <4>2 DEF Places
        <5>2. r[Len(stream)] = Owed + 1 - Len(stream)
          BY <3>2, <5>1
        <5> QED BY <2>2, <2>3, <5>1, <5>2
      <4> QED BY <2>3, <4>1, <4>2
    <3> QED BY <2>2, <3>2, <3>3
  <2> QED BY <2>4, <2>5
<1> QED BY <1>1, WireInvariant, PTL

\* No answer is taken for that of another request, as long as no
\* op_free_statement fails (readResponse).
THEOREM AnswersFindTheirRequests ==
  ASSUME \A p \in Profiles : Handles(p) PROVE Spec => []AnswersMatch
<1>1. WireInv => AnswersMatch
  BY DEF WireInv, InPlace, AnswersMatch
<1> QED BY <1>1, WireInvariant, PTL

============================================================================
