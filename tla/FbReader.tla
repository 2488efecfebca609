------------------------------ MODULE FbReader ------------------------------
(***************************************************************************)
(* The reading side of a connection, byte by byte: the window of           *)
(* internal/wire/reader.go over a socket that hands out the stream in      *)
(* pieces of any size, and the messages that response.go and status.go     *)
(* read through it.                                                        *)
(*                                                                         *)
(* A method that needs n bytes goes through ensure (move or grow the       *)
(* window), some reads of the socket, and takes the bytes.  Which method   *)
(* is running and how far it has come is the variable at; what remains to  *)
(* be read of the message is plan.                                         *)
(***************************************************************************)
EXTENDS FbStatus

CONSTANTS
  W,          \* bytes of a word: 4
  BufSize,    \* defaultReadBufSize
  MaxLength,  \* maxWireBufferLen
  Pieces,     \* bound: how many bytes the socket returns at a time, if it has them
  Half,       \* 2^16: a length whose upper half is all ones was sign-extended
  Scripts     \* sequences of answers that the server may send

ASSUME ReaderAssumption ==
  /\ W \in Nat \ {0} /\ BufSize \in Nat \ {0}
  /\ MaxLength \in Nat /\ Half \in Nat \ {0}
  /\ Pieces \subseteq Nat \ {0} /\ Pieces # {}

VARIABLES
  answers,   \* what the server sends in this behaviour
  net,       \* its bytes that have not been read from the socket
  buf,       \* Reader.buf, stale bytes included
  start,     \* Reader.start and Reader.end: the unread bytes of buf
  end,
  err,       \* Reader.err
  at,        \* what is read next, "idle" between two calls
  filling,   \* ensure has made room and reads the socket
  plan,      \* fields of the message still to be read
  resp,      \* the message so far
  auxBuf,    \* Reader.auxBuf
  got        \* what the callers were told

window == <<net, buf, start, end, err, filling>>
vars == <<answers, window, at, plan, resp, auxBuf, got>>

----------------------------------------------------------------------------
(* Bytes.  A byte is the k-th of a word, of a number of two words, of a    *)
(* string, or padding; a misplaced one is not taken for another.           *)

opResponse == 9
opFetchResponse == 66
opDummy == 71
opSQLResponse == 78

Word(v) == [k \in 1..W |-> <<0, v, k>>]
Int64(v) == [k \in 1..2 * W |-> <<1, v, k>>]
Bytes(s) == [k \in 1..s.len |-> <<2, s.id, k>>]

pad(l) == (W - l) % W
Padding(n) == [k \in 1..n |-> <<3, 0, 0>>]

\* A buffer on the wire; ext: an old server sign-extended its length.
Buffer(s) ==
  Word(IF s.ext THEN Half * (Half - 1) + s.len ELSE s.len) \o Bytes(s) \o Padding(pad(s.len))

Garbage == -1
wordOf(view) == IF view = Word(view[1][2]) THEN view[1][2] ELSE Garbage
int64Of(view) == IF view = Int64(view[1][2]) THEN view[1][2] ELSE Garbage

----------------------------------------------------------------------------
(* The server *)

\* A length fits in a word and is not one that was sign-extended; an old server
\* extends the sign of lengths of two bytes.
Str == {s \in [id : Int, len : Nat, ext : BOOLEAN] : s.len < (IF s.ext THEN Half ELSE Half * (Half - 1))}

\* Tags of the vector are followed by a string or by a word, the end by nothing.
StringTag == IscArgString \cup {IscArgSQLState}
Items == [tag : StringTag, s : Str] \cup [tag : Int \ (StringTag \cup {IscArgEnd}), v : Int]

Answer ==
  [op : {opResponse}, dummies : Nat, handle : Int, blob : Int, data : Str, items : Seq(Items)]
    \cup [op : {opFetchResponse}, dummies : Nat, status : Int, messages : Int]
    \cup [op : {opSQLResponse}, dummies : Nat, messages : Int]

ASSUME ScriptsAssumption == Scripts \subseteq Seq(Answer)

\* A code of zero comes first, if at all.  Less is needed: no SQLSTATE follows a code
\* of zero if an entry of the same list came before, or the parser gives it to that
\* entry.
Regular(items) ==
  \A h, i, j \in DOMAIN items :
    /\ h < i /\ i < j
    /\ items[i].tag \in {IscArgGds, IscArgWarning} /\ items[h].tag = items[i].tag
    /\ items[h].v # 0 /\ items[i].v = 0 /\ items[j].tag = IscArgSQLState
    => \E k \in i+1..j : items[k].tag \in {IscArgGds, IscArgWarning}

ASSUME RegularAssumption ==
  \A s \in Scripts : \A i \in DOMAIN s : s[i].op = opResponse => Regular(s[i].items)

Concat(seqs) ==
  LET c[i \in 0..Len(seqs)] == IF i = 0 THEN <<>> ELSE c[i - 1] \o seqs[i]
  IN c[Len(seqs)]

itemBytes(it) ==
  Word(it.tag) \o
    (IF it.tag \in StringTag THEN Buffer(it.s) ELSE Word(it.v))

answerBytes(a) ==
  Concat([i \in 1..a.dummies |-> Word(opDummy)]) \o Word(a.op) \o
  CASE a.op = opResponse ->
         Word(a.handle) \o Int64(a.blob) \o Buffer(a.data)
           \o Concat([i \in DOMAIN a.items |-> itemBytes(a.items[i])]) \o Word(IscArgEnd)
    [] a.op = opFetchResponse -> Word(a.status) \o Word(a.messages)
    [] a.op = opSQLResponse   -> Word(a.messages)

----------------------------------------------------------------------------
(* The window *)

unread == end - start

\* How many bytes the method at hand needs.
need ==
  CASE at \in {"data", "string"} -> resp.len + pad(resp.len)
    [] at = "peek"  -> 3 * W
    [] at = "int64" -> 2 * W
    [] OTHER        -> W

Smallest(S) == CHOOSE m \in S : \A n \in S : m <= n

\* The size that doubling reaches.
doubled(size, n) ==
  LET d[k \in 0..n] == IF k = 0 THEN size ELSE 2 * d[k - 1]
  IN d[Smallest({k \in 0..n : d[k] >= n})]

\* What is unread, at the front of a buffer of the given size; behind it stays
\* what was there.
moved(size, old) ==
  [k \in 1..size |-> IF k <= unread THEN buf[start + k] ELSE old[k]]

compacted == moved(Len(buf), buf)

\* ensure, up to its loop.
ensure ==
  /\ at # "idle" /\ err = "none" /\ ~filling /\ unread < need
  /\ filling' = TRUE
  /\ IF need > Len(buf)
     THEN /\ buf' = moved(doubled(Len(buf), need), [k \in 1..doubled(Len(buf), need) |-> <<3, 0, 0>>])
          /\ start' = 0 /\ end' = unread
     ELSE IF unread > 0 /\ start > 0
     THEN buf' = compacted /\ start' = 0 /\ end' = unread
     ELSE IF unread = 0 THEN start' = 0 /\ end' = 0 /\ UNCHANGED buf
     ELSE UNCHANGED <<buf, start, end>>
  /\ UNCHANGED <<answers, net, err, at, plan, resp, auxBuf, got>>

\* The socket returns the next m bytes: as many as asked for, sent and fitting.
readSocket(m) ==
  /\ filling /\ err = "none" /\ unread < need
  /\ net # <<>>
  /\ buf' = [k \in DOMAIN buf |-> IF k \in end+1..end+m THEN net[k - end] ELSE buf[k]]
  /\ end' = end + m
  /\ net' = SubSeq(net, m + 1, Len(net))
  /\ UNCHANGED <<answers, start, err, at, filling, plan, resp, auxBuf, got>>

\* The socket fails: the method returns the error, which stays.
socketFails ==
  /\ filling /\ err = "none" /\ unread < need
  /\ err' = "transport"
  /\ at' = "idle"
  /\ UNCHANGED <<answers, net, buf, start, end, filling, plan, resp, auxBuf, got>>

\* readView: the bytes, and the window after them.
enough(where) == at = where /\ err = "none" /\ unread >= need
view(n) == SubSeq(buf, start + 1, start + n)
advance(n) == start' = start + n /\ filling' = FALSE /\ UNCHANGED <<answers, net, buf, end>>

----------------------------------------------------------------------------
(* Messages *)

Fields(op) ==
  CASE op = opResponse      -> <<"int", "int64", "data", "status">>
    [] op = opFetchResponse -> <<"int", "int">>
    [] OTHER                -> <<"int">>

Empty == [op |-> 0, ints |-> <<>>, len |-> 0, tag |-> 0, data |-> 0, sv |-> StartVector]

\* What the caller of ReadResponse gets.
told(r) ==
  IF HasError(r.sv)
  THEN [error |-> TRUE, code |-> GDSCode(r.sv), state |-> SQLState(r.sv), text |-> Error(r.sv)]
  ELSE [error |-> FALSE, op |-> r.op, ints |-> r.ints, data |-> SubSeq(auxBuf, 1, r.data),
        warnings |-> r.sv.warnings]

\* Where the reading of a field begins.
entry(field) ==
  CASE field = "data" -> "length" [] field = "status" -> "peek" [] OTHER -> field

\* The field at hand is read, r is the message with it.
nextField(r) ==
  /\ plan' = Tail(plan)
  /\ resp' = r
  /\ IF Tail(plan) = <<>>
     THEN at' = "idle" /\ got' = Append(got, told(r))
     ELSE at' = entry(plan[2]) /\ UNCHANGED got

\* A method asks for the next answer.
ReadResponse ==
  /\ at = "idle" /\ err = "none"
  /\ Len(got) < Len(answers)
  /\ at' = "opcode" /\ resp' = Empty
  /\ UNCHANGED <<answers, window, plan, auxBuf, got>>

Unexpected == [error |-> TRUE, code |-> 0, state |-> NoState, text |-> <<>>]

\* Keep-alives are skipped; for an opcode that is no answer the caller gets an
\* error, and the rest of the message stays unread.
ReadOpcode ==
  /\ enough("opcode")
  /\ LET op == wordOf(view(W))
     IN CASE op = opDummy -> UNCHANGED <<at, plan, resp, got>>
          [] op \in {opResponse, opFetchResponse, opSQLResponse} ->
               /\ plan' = Fields(op) /\ at' = entry(Fields(op)[1])
               /\ resp' = [resp EXCEPT !.op = op] /\ UNCHANGED got
          [] OTHER -> at' = "idle" /\ got' = Append(got, Unexpected) /\ UNCHANGED <<plan, resp>>
  /\ advance(W)
  /\ UNCHANGED <<err, auxBuf>>

ReadInt32 ==
  /\ enough("int")
  /\ nextField([resp EXCEPT !.ints = Append(@, wordOf(view(W)))])
  /\ advance(W)
  /\ UNCHANGED <<err, auxBuf>>

ReadInt64 ==
  /\ enough("int64")
  /\ nextField([resp EXCEPT !.ints = Append(@, int64Of(view(2 * W)))])
  /\ advance(2 * W)
  /\ UNCHANGED <<err, auxBuf>>

fixup(ulen) == IF ulen \div Half = Half - 1 THEN ulen % Half ELSE ulen

\* The first half of ReadBuffer, for a field or for a string of the vector.
ReadLength ==
  /\ at \in {"length", "strlen"} /\ enough(at)
  /\ LET length == fixup(wordOf(view(W)))
     IN IF length \in 0..MaxLength
        THEN /\ resp' = [resp EXCEPT !.len = length]
             /\ at' = (IF at = "length" THEN "data" ELSE "string")
             /\ UNCHANGED err
        ELSE err' = "length" /\ at' = "idle" /\ UNCHANGED resp
  /\ advance(W)
  /\ UNCHANGED <<plan, auxBuf, got>>

\* readGenericResponse copies its data out of the window into auxBuf, which is
\* replaced only if it is too short.
ReadData ==
  /\ enough("data")
  /\ LET l == resp.len
         data == view(l)
     IN /\ auxBuf' = (IF l > Len(auxBuf) THEN data
                      ELSE [k \in DOMAIN auxBuf |-> IF k <= l THEN data[k] ELSE auxBuf[k]])
        /\ nextField([resp EXCEPT !.data = l])
  /\ advance(need)
  /\ UNCHANGED err

\* Mutant of fastPath: a vector that begins with success is taken for success.
fastPathEarly(v) == SubSeq(v, 1, 2 * W) = Word(IscArgGds) \o Word(0)

fastPath(v) == v = Word(IscArgGds) \o Word(0) \o Word(IscArgEnd)

\* readStatusVector: success is recognised without consuming anything else.
PeekStatus ==
  /\ enough("peek")
  /\ IF fastPath(view(3 * W))
     THEN advance(3 * W) /\ nextField(resp)
     ELSE advance(0) /\ at' = "tag" /\ UNCHANGED <<plan, resp, got>>
  /\ UNCHANGED <<err, auxBuf>>

\* readStatusVectorSlow: a tag, then a word or a string.
ReadTag ==
  /\ enough("tag")
  /\ LET tag == wordOf(view(W))
     IN IF tag = IscArgEnd THEN nextField(resp)
        ELSE /\ resp' = [resp EXCEPT !.tag = tag]
             /\ at' = (IF tag \in StringTag THEN "strlen" ELSE "word")
             /\ UNCHANGED <<plan, got>>
  /\ advance(W)
  /\ UNCHANGED <<err, auxBuf>>

ReadWordItem ==
  /\ enough("word")
  /\ resp' = [resp EXCEPT !.sv = wordItem(@, resp.tag, wordOf(view(W)))]
  /\ at' = "tag"
  /\ advance(W)
  /\ UNCHANGED <<err, plan, auxBuf, got>>

ReadStringItem ==
  /\ enough("string")
  /\ resp' = [resp EXCEPT !.sv = stringItem(@, resp.tag, view(resp.len))]
  /\ at' = "tag"
  /\ advance(need)
  /\ UNCHANGED <<err, plan, auxBuf, got>>

Init ==
  /\ answers \in Scripts
  /\ net = Concat([i \in DOMAIN answers |-> answerBytes(answers[i])])
  /\ buf = Padding(BufSize)
  /\ start = 0 /\ end = 0
  /\ err = "none" /\ at = "idle" /\ filling = FALSE
  /\ plan = <<>> /\ resp = Empty /\ auxBuf = <<>> /\ got = <<>>

Driver ==
  \/ ReadResponse \/ ensure \/ ReadOpcode \/ ReadInt32 \/ ReadInt64 \/ ReadLength \/ ReadData
  \/ PeekStatus \/ ReadTag \/ ReadWordItem \/ ReadStringItem

Network == \E p \in Pieces : readSocket(Smallest({p, Len(net), Len(buf) - end}))

Next == Driver \/ Network \/ socketFails

\* The driver runs, and bytes that were sent arrive.
Spec == Init /\ [][Next]_vars /\ WF_vars(Driver) /\ WF_vars(Network)

----------------------------------------------------------------------------
(* What an answer means, from the server's side: the codes that are not    *)
(* zero are errors or warnings, each with the arguments that follow it.    *)

isCode(it) == it.tag \in {IscArgGds, IscArgWarning}
isArg(it) == it.tag \in IscArgString \cup {IscArgNumber}

\* The members of I up to n, from the least on.
inOrder(I, n) ==
  LET o[i \in 0..n] == IF i = 0 THEN <<>> ELSE IF i \in I THEN Append(o[i - 1], i) ELSE o[i - 1]
  IN o[n]

\* Of the first n items, those that belong to the code at i.
argsOf(items, i, n) == {j \in i+1..n : \A k \in i+1..j : ~isCode(items[k])}

valueOf(it) == IF it.tag = IscArgNumber THEN Number(it.v) ELSE String(Bytes(it.s))

entryOf(items, i, n) ==
  LET args == argsOf(items, i, n)
      shown == inOrder({j \in args : isArg(items[j])}, n)
      states == inOrder({j \in args : items[j].tag = IscArgSQLState}, n)
  IN [code |-> items[i].v,
      state |-> IF states = <<>> THEN NoState ELSE Bytes(items[states[Len(states)]].s),
      params |-> [k \in DOMAIN shown |-> valueOf(items[shown[k]])]]

\* What the first n items say.
entries(items, tag, n) ==
  LET codes == inOrder({i \in DOMAIN items : items[i].tag = tag /\ items[i].v # 0}, n)
  IN [k \in DOMAIN codes |-> entryOf(items, codes[k], n)]

Meaning(a) ==
  CASE a.op = opFetchResponse ->
         [error |-> FALSE, op |-> a.op, ints |-> <<a.status, a.messages>>, data |-> <<>>, warnings |-> <<>>]
    [] a.op = opSQLResponse ->
         [error |-> FALSE, op |-> a.op, ints |-> <<a.messages>>, data |-> <<>>, warnings |-> <<>>]
    [] OTHER ->
         LET n == Len(a.items)
             sv == [errors |-> entries(a.items, IscArgGds, n), warnings |-> entries(a.items, IscArgWarning, n)]
         IN IF sv.errors # <<>>
            THEN [error |-> TRUE, code |-> sv.errors[1].code, state |-> SQLState(sv), text |-> Error(sv)]
            ELSE [error |-> FALSE, op |-> a.op, ints |-> <<a.handle, a.blob>>,
                  data |-> Bytes(a.data), warnings |-> sv.warnings]

meanings == [a \in UNION {{s[i] : i \in DOMAIN s} : s \in Scripts} |-> Meaning(a)]
MeaningOf(a) == meanings[a]

Abs == INSTANCE FbAnswers WITH Meaning <- MeaningOf, broken <- err # "none"

----------------------------------------------------------------------------
(* Properties *)

\* However the socket cuts the stream, and whatever the window has to move or
\* grow, the callers get the server's answers in order, whole and with the
\* right errors, until the connection breaks; and an answer that was sent is
\* got (Reader, readGenericResponse, readStatusVector).
DeliversAnswers == Abs!Spec

\* The window stays within its buffer, and between two answers nothing is left
\* over: the unread bytes and those still to come begin with the next answer.
\* A vector read too far or not far enough shows here.
Framed ==
  /\ 0 <= start /\ start <= end /\ end <= Len(buf)
  /\ at = "idle" /\ err = "none" =>
    view(unread) \o net =
      Concat([i \in 1..Len(answers) - Len(got) |-> answerBytes(answers[Len(got) + i])])
=============================================================================
