--------------------------- MODULE FbCancel_proofs ---------------------------
(* Theorems about FbCancel, for every number of operations and round trips. *)
EXTENDS FbCancel, TLAPS

USE CancelAssumption

Pc == {"idle", "write", "send", "read", "stop", "join"}
WatcherState == {"select", "cancel", "cancelling", "grace", "expired", "finished"}
Message == [kind: {"request", "cancel"}, op: Nat, key: Nat]

\* The variables have the types of what they stand for.
TypeOK ==
  /\ op \in [n: 0..MaxOps, pc: Pc, trips: Nat]
  /\ ctx \in [Op -> {"none", "live", "done"}]
  /\ watcher \in [Op -> WatcherState]
  /\ writeMu \in BOOLEAN
  /\ cipher \in Nat /\ readPos \in Nat
  /\ key \in [Writer -> Nat]
  /\ socket \in Seq(Message)
  /\ srv \in {"idle", "running", "lock wait"}
  /\ deadline \in BOOLEAN /\ bad \in BOOLEAN /\ stalled \in BOOLEAN /\ wronged \in BOOLEAN

\* The writers between Lock and Unlock of writeMu.
Holds(w) == IF w = 0 THEN At("send") ELSE watcher[w] = "cancelling"

\* writeMu excludes, and what its holder has encrypted is the next message that
\* the server expects after those on the socket.
MutexInv ==
  /\ \A w \in Writer : Holds(w) => writeMu
  /\ \A v, w \in Writer : Holds(v) /\ Holds(w) => v = w
  /\ ~bad /\ ~writeMu => cipher = readPos + Len(socket)
  /\ ~bad => \A w \in Writer :
       Holds(w) => key[w] = cipher /\ cipher = readPos + Len(socket) + 1

\* A watcher lives only as long as its operation.
WatcherInv ==
  /\ ~At("idle") => op.n # 0 /\ op.trips # 0
  /\ \A w \in Op : watcher[w] # "finished" => w = op.n /\ ~At("idle")

\* The request of the operation in progress is on the socket at most once and
\* before it runs; whatever comes after it is about the same operation.
OrderInv ==
  /\ \A i \in DOMAIN socket : socket[i].kind = "request" => At("read") /\ srv = "idle"
  /\ \A i, j \in DOMAIN socket :
       socket[i].kind = "request" /\ i < j => socket[j].kind = "cancel" /\ socket[j].op = op.n
  /\ srv # "idle" => At("read") /\ \A i \in DOMAIN socket : socket[i].op = op.n
  /\ bad => socket = <<>> /\ op.pc \in {"stop", "join", "idle"}

CancelInv ==
  /\ TypeOK /\ MutexInv /\ WatcherInv /\ OrderInv
  /\ KeystreamInOrder /\ CancelHitsItsOperation

----------------------------------------------------------------------------
(* The socket *)

\* A message that is written is the last one.
LEMMA AppendMessage ==
  ASSUME NEW S, NEW s \in Seq(S), NEW m \in S
  PROVE  /\ Append(s, m) \in Seq(S)
         /\ Len(Append(s, m)) = Len(s) + 1
         /\ DOMAIN Append(s, m) = 1..Len(s) + 1 /\ DOMAIN s = 1..Len(s)
         /\ \A i \in 1..Len(s) : Append(s, m)[i] = s[i]
         /\ Append(s, m)[Len(s) + 1] = m
OBVIOUS

\* A message that is read was the first one.
LEMMA TailMessage ==
  ASSUME NEW S, NEW s \in Seq(S), s # <<>>
  PROVE  /\ Head(s) \in S /\ Head(s) = s[1] /\ 1 \in DOMAIN s
         /\ Tail(s) \in Seq(S)
         /\ Len(Tail(s)) = Len(s) - 1
         /\ DOMAIN Tail(s) = 1..Len(s) - 1 /\ DOMAIN s = 1..Len(s)
         /\ \A i \in 1..Len(s) - 1 : Tail(s)[i] = s[i + 1] /\ i + 1 \in 1..Len(s)
OBVIOUS

----------------------------------------------------------------------------
(* The operation *)

\* The next operation starts when the watcher of the last one is gone.
LEMMA StartInv ==
  ASSUME CancelInv, NEW c \in {"none", "live"}, Start(c)
  PROVE  CancelInv'
<1> USE DEF CancelInv, Start
<1>1. PICK trips \in 1..MaxTrips : op' = [n |-> op.n + 1, pc |-> "write", trips |-> trips]
  OBVIOUS
<1>2. op.n \in 0..MaxOps /\ op.n < MaxOps /\ op.n + 1 \in Op /\ op.pc = "idle"
  <2>1. op \in [n: 0..MaxOps, pc: Pc, trips: Nat]
    BY DEF TypeOK
  <2>2. op.n < MaxOps /\ op.pc = "idle"
    BY DEF At
  <2> QED BY <2>1, <2>2 DEF Op
<1>3. TypeOK'
  <2>1. op' \in [n: 0..MaxOps, pc: Pc, trips: Nat]
    BY <1>1, <1>2 DEF Op, Pc
  <2>2. ctx' \in [Op -> {"none", "live", "done"}] /\ watcher' \in [Op -> WatcherState]
    BY DEF TypeOK, WatcherState
  <2> QED BY <2>1, <2>2 DEF TypeOK
<1>4. \A w \in Op : watcher[w] = "finished"
  BY <1>2 DEF WatcherInv, At
<1>5. \A w \in Op : watcher'[w] # "cancelling"
                    /\ (watcher'[w] # "finished" => w = op.n + 1)
  BY <1>2, <1>4 DEF TypeOK
<1>6. \A w \in Writer : ~Holds(w)'
  BY <1>1, <1>5 DEF Holds, At, Writer, Op
<1>7. WatcherInv'
  <2>1. op'.n = op.n + 1 /\ op'.trips # 0 /\ op'.pc = "write" /\ op'.n # 0
    BY <1>1, <1>2
  <2> QED BY <1>5, <2>1 DEF WatcherInv, At
<1>8. MutexInv'
  BY <1>6 DEF MutexInv
<1>9. OrderInv'
  BY <1>1, <1>2 DEF OrderInv, At
<1>10. KeystreamInOrder' /\ CancelHitsItsOperation'
  BY DEF KeystreamInOrder, CancelHitsItsOperation
<1> QED BY <1>3, <1>7, <1>8, <1>9, <1>10

\* flush locks writeMu and encrypts.
LEMMA OpEncryptInv == ASSUME CancelInv, opEncrypt PROVE CancelInv'
<1> USE DEF CancelInv, opEncrypt, encrypt, Goto
<1>0. op \in [n: 0..MaxOps, pc: Pc, trips: Nat] /\ socket \in Seq(Message)
      /\ cipher \in Nat /\ readPos \in Nat
  BY DEF TypeOK
<1>1. /\ 0 \in Writer /\ op.pc = "write" /\ op'.pc = "send" /\ op'.n = op.n
      /\ op'.trips = op.trips /\ Len(socket) \in Nat
  BY <1>0 DEF Writer, At
<1>2. TypeOK'
  <2>1. op' \in [n: 0..MaxOps, pc: Pc, trips: Nat] /\ cipher' \in Nat
    BY <1>0 DEF Pc
  <2>2. key' \in [Writer -> Nat]
    BY <2>1 DEF TypeOK
  <2> QED BY <2>1, <2>2 DEF TypeOK
<1>3. \A w \in Writer : Holds(w)' <=> w = 0
  BY <1>1 DEF MutexInv, Holds, At
<1>4. key'[0] = cipher' /\ cipher' = cipher + 1
  BY <1>1 DEF TypeOK
<1>5. MutexInv'
  BY <1>0, <1>1, <1>3, <1>4 DEF MutexInv
<1>6. WatcherInv' /\ OrderInv'
  BY <1>1 DEF WatcherInv, OrderInv, At
<1>7. KeystreamInOrder' /\ CancelHitsItsOperation'
  BY DEF KeystreamInOrder, CancelHitsItsOperation
<1> QED BY <1>2, <1>5, <1>6, <1>7

\* What a send of writer w does to the socket and to the keystream.
LEMMA SendInv ==
  ASSUME CancelInv, NEW w \in Writer, Holds(w), NEW kind \in {"request", "cancel"},
         NEW n \in Nat, send(w, kind, n), ~bad, UNCHANGED <<cipher, key, readPos, bad>>
  PROVE  /\ socket' = Append(socket, [kind |-> kind, op |-> n, key |-> key[w]])
         /\ socket' \in Seq(Message)
         /\ KeystreamInOrder'
         /\ ~writeMu'
         /\ cipher' = readPos' + Len(socket')
<1> DEFINE m == [kind |-> kind, op |-> n, key |-> key[w]]
<1>1. socket' = Append(socket, m)
  BY DEF send
<1>2. m \in Message /\ socket \in Seq(Message) /\ readPos \in Nat
  BY DEF CancelInv, TypeOK, Message
<1>3. m.key = cipher /\ cipher = readPos + Len(socket) + 1
  BY DEF CancelInv, MutexInv
<1> HIDE DEF m
<1>4. socket' \in Seq(Message) /\ Len(socket') = Len(socket) + 1
      /\ DOMAIN socket' = 1..Len(socket) + 1 /\ DOMAIN socket = 1..Len(socket)
      /\ (\A i \in 1..Len(socket) : socket'[i] = socket[i])
      /\ socket'[Len(socket) + 1] = m /\ Len(socket) \in Nat
  BY <1>1, <1>2, AppendMessage
<1>5. KeystreamInOrder'
  <2> SUFFICES ASSUME NEW i \in 1..Len(socket) + 1 PROVE socket'[i].key = readPos + i
    BY <1>4 DEF KeystreamInOrder
  <2>1. CASE i = Len(socket) + 1
    BY <1>2, <1>3, <1>4, <2>1
  <2>2. CASE i \in 1..Len(socket)
    BY <1>4, <2>2 DEF CancelInv, KeystreamInOrder
  <2> QED BY <1>4, <2>1, <2>2
<1>6. cipher' = readPos' + Len(socket')
  BY <1>2, <1>3, <1>4
<1>7. ~writeMu'
  BY DEF send
<1> QED BY <1>1, <1>4, <1>5, <1>6, <1>7 DEF m

\* flush writes the request and unlocks writeMu.
LEMMA OpSendInv == ASSUME CancelInv, opSend PROVE CancelInv'
<1> USE DEF CancelInv, opSend, Goto
<1>0. op \in [n: 0..MaxOps, pc: Pc, trips: Nat]
  BY DEF TypeOK
<1>1. /\ 0 \in Writer /\ op.pc = "send" /\ Holds(0) /\ op.n \in Nat /\ ~bad
      /\ op'.pc = "read" /\ op'.n = op.n /\ op'.trips = op.trips /\ srv = "idle"
  <2>1. 0 \in Writer /\ op.n \in Nat
    BY <1>0 DEF Writer
  <2>2. op'.pc = "read" /\ op'.n = op.n /\ op'.trips = op.trips
    BY <1>0
  <2> QED BY <2>1, <2>2 DEF At, Holds, OrderInv
<1> DEFINE m == [kind |-> "request", op |-> op.n, key |-> key[0]]
<1>2. /\ socket' = Append(socket, m) /\ socket' \in Seq(Message)
      /\ KeystreamInOrder' /\ ~writeMu' /\ cipher' = readPos' + Len(socket')
  BY <1>1, SendInv
<1>3. m \in Message /\ socket \in Seq(Message) /\ m.kind = "request"
  BY <1>1 DEF TypeOK, Message, Writer
<1> HIDE DEF m
<1>4. TypeOK'
  <2>1. op' \in [n: 0..MaxOps, pc: Pc, trips: Nat]
    BY <1>0 DEF Pc
  <2> QED BY <1>2, <2>1 DEF TypeOK, send
<1>5. \A w \in Writer : ~Holds(w)'
  BY <1>1 DEF MutexInv, Holds, At
<1>6. MutexInv' /\ WatcherInv'
  BY <1>1, <1>2, <1>5 DEF MutexInv, WatcherInv, At
<1>7. OrderInv'
  <2>1. /\ DOMAIN socket' = 1..Len(socket) + 1 /\ DOMAIN socket = 1..Len(socket)
        /\ \A i \in 1..Len(socket) : socket'[i] = socket[i]
        /\ Len(socket) \in Nat
    BY <1>2, <1>3, AppendMessage
  <2>2. \A i \in 1..Len(socket) : socket[i].kind # "request"
    BY <1>1, <2>1 DEF OrderInv, At
  <2> QED BY <1>1, <2>1, <2>2 DEF OrderInv, At
<1>8. CancelHitsItsOperation'
  BY DEF CancelHitsItsOperation
<1> QED BY <1>2, <1>4, <1>6, <1>7, <1>8

\* The blocked read times out and the socket is closed.
LEMMA ReadTimesOutInv == ASSUME CancelInv, readTimesOut PROVE CancelInv'
<1> USE DEF CancelInv, readTimesOut, Goto
<1>0. op \in [n: 0..MaxOps, pc: Pc, trips: Nat]
  BY DEF TypeOK
<1>1. op.pc = "read" /\ op'.pc = "stop" /\ op'.n = op.n /\ op'.trips = op.trips
  BY <1>0 DEF At
<1>2. TypeOK'
  <2>1. op' \in [n: 0..MaxOps, pc: Pc, trips: Nat]
    BY <1>0 DEF Pc
  <2>2. socket' \in Seq(Message)
    OBVIOUS
  <2> QED BY <2>1, <2>2 DEF TypeOK
<1>3. \A w \in Writer : Holds(w)' <=> Holds(w)
  BY <1>1 DEF Holds, At
<1>4. MutexInv' /\ WatcherInv' /\ OrderInv'
  BY <1>1, <1>3 DEF MutexInv, WatcherInv, OrderInv, At
<1> QED BY <1>2, <1>4 DEF KeystreamInOrder, CancelHitsItsOperation

\* close(done), and the wait for the watcher.
LEMMA StopJoinInv == ASSUME CancelInv, stop \/ join PROVE CancelInv'
<1> USE DEF CancelInv, stop, join, Goto
<1>1. /\ op.pc \in {"stop", "join"} /\ op'.pc \in {"join", "idle"} /\ op'.n = op.n
      /\ op'.trips = op.trips
      /\ (op'.pc = "idle" => watcher[op.n] = "finished")
      /\ UNCHANGED <<ctx, watcher, writeMu, cipher, key, socket, readPos, srv, deadline, bad,
                     stalled, wronged>>
  BY DEF At, TypeOK
<1>2. TypeOK'
  BY <1>1 DEF TypeOK, Pc
<1>3. \A w \in Writer : Holds(w)' <=> Holds(w)
  BY <1>1 DEF Holds, At
<1>4. MutexInv'
  BY <1>1, <1>3 DEF MutexInv
<1>5. WatcherInv' /\ OrderInv'
  BY <1>1 DEF WatcherInv, OrderInv, At
<1> QED BY <1>1, <1>2, <1>4, <1>5 DEF KeystreamInOrder, CancelHitsItsOperation

----------------------------------------------------------------------------
(* The watcher *)

\* Steps that touch neither the keystream nor the socket.
LEMMA WatchInv ==
  ASSUME CancelInv, NEW w \in Op, NEW from \in WatcherState \ {"finished", "cancelling"},
         NEW to \in WatcherState \ {"cancelling"}, Watch(w, from, to),
         UNCHANGED <<writeMu, cipher, key, socket>>, deadline' \in BOOLEAN
  PROVE  CancelInv'
<1> USE DEF CancelInv, Watch
<1>1. TypeOK'
  BY DEF TypeOK, WatcherState
<1>2. \A v \in Writer : Holds(v)' <=> Holds(v)
  <2>1. \A v \in Writer : v # 0 => v \in Op
    BY DEF Writer, Op
  <2>2. \A v \in Op : watcher'[v] = "cancelling" <=> watcher[v] = "cancelling"
    BY DEF TypeOK
  <2> QED BY <2>1, <2>2 DEF Holds, At
<1>3. MutexInv'
  BY <1>2 DEF MutexInv
<1>4. WatcherInv'
  BY DEF WatcherInv, At, TypeOK
<1>5. OrderInv'
  BY DEF OrderInv, At
<1> QED BY <1>1, <1>3, <1>4, <1>5 DEF KeystreamInOrder, CancelHitsItsOperation

\* Cancel locks writeMu and encrypts.
LEMMA CancelEncryptInv == ASSUME CancelInv, NEW w \in Op, cancelEncrypt(w) PROVE CancelInv'
<1> USE DEF CancelInv, cancelEncrypt, Watch, encrypt
<1>0. watcher \in [Op -> WatcherState] /\ key \in [Writer -> Nat]
      /\ socket \in Seq(Message) /\ cipher \in Nat /\ readPos \in Nat
  BY DEF TypeOK
<1>1. w \in Writer /\ w # 0 /\ Len(socket) \in Nat /\ \A v \in Writer : v # 0 => v \in Op
  BY <1>0 DEF Writer, Op
<1>2. TypeOK'
  <2>1. watcher' \in [Op -> WatcherState]
    BY <1>0 DEF WatcherState
  <2>2. cipher' \in Nat
    BY <1>0
  <2>3. key' \in [Writer -> Nat]
    BY <1>0, <2>2
  <2> QED BY <2>1, <2>2, <2>3 DEF TypeOK
<1>3. \A v \in Writer : Holds(v)' <=> v = w
  <2>1. \A v \in Writer : ~Holds(v)
    BY DEF MutexInv
  <2>2. \A v \in Op : watcher'[v] = IF v = w THEN "cancelling" ELSE watcher[v]
    BY <1>0
  <2> QED BY <1>1, <2>1, <2>2 DEF Holds, At
<1>4. key'[w] = cipher' /\ cipher' = cipher + 1
  BY <1>1 DEF TypeOK
<1>5. MutexInv'
  BY <1>0, <1>1, <1>3, <1>4 DEF MutexInv
<1>6. WatcherInv' /\ OrderInv'
  BY DEF WatcherInv, OrderInv, At, TypeOK
<1> QED BY <1>2, <1>5, <1>6 DEF KeystreamInOrder, CancelHitsItsOperation

\* Cancel writes op_cancel and unlocks writeMu: the operation it is meant for
\* is still the one in progress.
LEMMA CancelSendInv == ASSUME CancelInv, NEW w \in Op, cancelSend(w) PROVE CancelInv'
<1> USE DEF CancelInv, cancelSend, Watch
<1>0. watcher \in [Op -> WatcherState]
  BY DEF TypeOK
<1>1. w \in Writer /\ w # 0 /\ w \in Nat /\ Holds(w) /\ w = op.n
  <2>1. w \in Writer /\ w # 0 /\ w \in Nat
    BY DEF Writer, Op
  <2> QED BY <2>1 DEF Holds, WatcherInv
<1>2. \A v \in Writer : ~Holds(v)'
  <2>1. \A v \in Writer : v # 0 => v \in Op
    BY DEF Writer, Op
  <2>2. \A v \in Op : watcher'[v] = IF v = w THEN "grace" ELSE watcher[v]
    BY <1>0
  <2> QED BY <1>1, <2>1, <2>2 DEF MutexInv, Holds, At
<1>6. watcher' \in [Op -> WatcherState]
  BY <1>0 DEF WatcherState
<1>3. WatcherInv'
  BY DEF WatcherInv, At, TypeOK
<1>4. CASE bad
  <2>1. socket' = socket /\ ~writeMu'
    BY <1>4 DEF send
  <2>2. TypeOK'
    BY <1>6, <2>1 DEF TypeOK, send
  <2>3. MutexInv' /\ OrderInv'
    BY <1>2, <1>4, <2>1 DEF MutexInv, OrderInv, At
  <2> QED BY <1>3, <1>4, <2>2, <2>3 DEF KeystreamInOrder, CancelHitsItsOperation
<1>5. CASE ~bad
  <2> DEFINE m == [kind |-> "cancel", op |-> w, key |-> key[w]]
  <2>1. /\ socket' = Append(socket, m) /\ socket' \in Seq(Message)
        /\ KeystreamInOrder' /\ ~writeMu' /\ cipher' = readPos' + Len(socket')
    BY <1>1, <1>5, SendInv
  <2>2. m \in Message /\ socket \in Seq(Message) /\ m.kind = "cancel" /\ m.op = op.n
    BY <1>1 DEF TypeOK, Message
  <2> HIDE DEF m
  <2>3. TypeOK'
    BY <1>6, <2>1 DEF TypeOK, send
  <2>4. MutexInv'
    BY <1>2, <2>1 DEF MutexInv
  <2>5. OrderInv'
    <3>1. /\ DOMAIN socket' = 1..Len(socket) + 1 /\ DOMAIN socket = 1..Len(socket)
          /\ \A i \in 1..Len(socket) : socket'[i] = socket[i]
          /\ socket'[Len(socket) + 1] = m /\ Len(socket) \in Nat
      BY <2>1, <2>2, AppendMessage
    <3> QED BY <1>5, <2>2, <3>1 DEF OrderInv, At
  <2> QED BY <1>3, <2>1, <2>3, <2>4, <2>5 DEF CancelHitsItsOperation
<1> QED BY <1>4, <1>5

\* Every step of a watcher.
LEMMA WatcherStepInv == ASSUME CancelInv, NEW w \in Op, Watcher(w) PROVE CancelInv'
<1>1. CASE cancelEncrypt(w)
  BY <1>1, CancelEncryptInv
<1>2. CASE cancelSend(w)
  BY <1>2, CancelSendInv
<1>3. CASE select(w) \/ graceDone(w) \/ graceEnds(w) \/ setReadDeadline(w)
  <2>1. \E from \in WatcherState \ {"finished", "cancelling"},
           to \in WatcherState \ {"cancelling"} :
          Watch(w, from, to) /\ UNCHANGED <<writeMu, cipher, key, socket>> /\ deadline' \in BOOLEAN
    BY <1>3 DEF select, graceDone, graceEnds, setReadDeadline, WatcherState, CancelInv, TypeOK
  <2> QED BY <2>1, WatchInv
<1> QED BY <1>1, <1>2, <1>3 DEF Watcher

----------------------------------------------------------------------------
(* The server *)

\* What the server has read is no longer on the socket, and the next message
\* is the next one of the keystream.
LEMMA ReadInv ==
  ASSUME CancelInv, socket # <<>>, socket' = Tail(socket), readPos' = readPos + 1,
         UNCHANGED <<watcher, writeMu, cipher, key, bad>>,
         At("send") <=> At("send")'
  PROVE  socket' \in Seq(Message) /\ MutexInv' /\ KeystreamInOrder'
<1> USE DEF CancelInv
<1>0. socket \in Seq(Message) /\ readPos \in Nat /\ cipher \in Nat
  BY DEF TypeOK
<1>1. Len(socket) \in Nat /\ Len(socket) >= 1
  BY <1>0
<1>2. /\ socket' \in Seq(Message) /\ Len(socket') = Len(socket) - 1
      /\ DOMAIN socket' = 1..Len(socket) - 1 /\ DOMAIN socket = 1..Len(socket)
      /\ \A i \in 1..Len(socket) - 1 : socket'[i] = socket[i + 1] /\ i + 1 \in 1..Len(socket)
  BY <1>0, TailMessage
<1>3. \A w \in Writer : Holds(w)' <=> Holds(w)
  BY DEF Holds, At
<1>4. MutexInv'
  BY <1>0, <1>1, <1>2, <1>3 DEF MutexInv
<1>5. KeystreamInOrder'
  <2> SUFFICES ASSUME ~bad, NEW i \in 1..Len(socket) - 1 PROVE socket'[i].key = readPos' + i
    BY <1>2 DEF KeystreamInOrder
  <2>1. socket[i + 1].key = readPos + (i + 1)
    BY <1>2 DEF KeystreamInOrder
  <2> QED BY <1>0, <1>1, <1>2, <2>1
<1> QED BY <1>2, <1>4, <1>5

\* The server starts on the request: whatever is behind it on the socket is
\* about the same operation.
LEMMA SrvRequestInv == ASSUME CancelInv, srvRequest PROVE CancelInv'
<1>0. socket \in Seq(Message) /\ readPos \in Nat
  BY DEF CancelInv, TypeOK
<1>1. Len(socket) \in Nat
  BY <1>0
<1>r. readPos' \in Nat
  <2>1. readPos' = readPos + 1
    BY DEF srvRequest
  <2> QED BY <1>0, <2>1
<1>a. \A i \in 1..Len(socket) - 1 : 1 < i + 1
  BY <1>1
<1> USE DEF CancelInv, srvRequest
<1>2. /\ socket' \in Seq(Message) /\ MutexInv' /\ KeystreamInOrder'
  BY ReadInv DEF At
<1>3. /\ DOMAIN socket' = 1..Len(socket) - 1 /\ DOMAIN socket = 1..Len(socket)
      /\ \A i \in 1..Len(socket) - 1 : socket'[i] = socket[i + 1] /\ i + 1 \in 1..Len(socket)
      /\ 1 \in DOMAIN socket /\ socket[1].kind = "request"
  BY <1>0, TailMessage
<1>4. op.pc = "read" /\ ~bad
  BY <1>3 DEF OrderInv, At
<1>5. \A i \in DOMAIN socket' : socket'[i].kind = "cancel" /\ socket'[i].op = op.n
  <2> SUFFICES ASSUME NEW i \in 1..Len(socket) - 1
               PROVE  socket'[i].kind = "cancel" /\ socket'[i].op = op.n
    BY <1>3
  <2>1. i + 1 \in DOMAIN socket /\ socket'[i] = socket[i + 1]
    BY <1>3
  <2> QED BY <1>a, <1>3, <2>1 DEF OrderInv
<1>6. TypeOK'
  BY <1>r, <1>2 DEF TypeOK
<1>7. OrderInv' /\ WatcherInv'
  BY <1>4, <1>5 DEF OrderInv, WatcherInv, At
<1> QED BY <1>2, <1>6, <1>7 DEF CancelHitsItsOperation

\* The operation goes on or ends after an answer.
LEMMA AnsweredType ==
  ASSUME TypeOK, WatcherInv, NEW interrupted \in BOOLEAN, answered(interrupted), At("read")
  PROVE  /\ op' \in [n: 0..MaxOps, pc: Pc, trips: Nat]
         /\ op'.n = op.n /\ op'.pc \in {"stop", "write"} /\ op'.trips # 0
<1>0. op \in [n: 0..MaxOps, pc: Pc, trips: Nat] /\ op.trips # 0
  BY DEF TypeOK, WatcherInv, At
<1>1. CASE op' = [op EXCEPT !.pc = "stop"]
  BY <1>0, <1>1 DEF Pc
<1>2. CASE op' = [op EXCEPT !.pc = "write", !.trips = @ - 1] /\ op.trips # 1
  <2>1. op.trips - 1 \in Nat \ {0}
    BY <1>0, <1>2
  <2> QED BY <1>0, <1>2, <2>1 DEF Pc
<1> QED BY <1>1, <1>2 DEF answered

\* An op_cancel that interrupts what is running was meant for it.
LEMMA SrvCancelInv == ASSUME CancelInv, srvCancel PROVE CancelInv'
<1>0. socket \in Seq(Message) /\ readPos \in Nat
  BY DEF CancelInv, TypeOK
<1>1. Len(socket) \in Nat
  BY <1>0
<1>r. readPos' \in Nat
  <2>1. readPos' = readPos + 1
    BY DEF srvCancel
  <2> QED BY <1>0, <2>1
<1> USE DEF CancelInv, srvCancel
<1>2. /\ DOMAIN socket' = 1..Len(socket) - 1 /\ DOMAIN socket = 1..Len(socket)
      /\ \A i \in 1..Len(socket) - 1 : socket'[i] = socket[i + 1] /\ i + 1 \in 1..Len(socket)
      /\ 1 \in DOMAIN socket /\ Head(socket) = socket[1]
  BY <1>0, TailMessage
<1>3. ~bad
  BY DEF OrderInv
<1>4. CASE srv = "running" /\ At("read") /\ ~deadline
  <2>1. /\ op' \in [n: 0..MaxOps, pc: Pc, trips: Nat]
        /\ op'.n = op.n /\ op'.pc \in {"stop", "write"} /\ op'.trips # 0 /\ op.pc = "read"
    BY <1>4, AnsweredType DEF At
  <2>2. socket' \in Seq(Message) /\ MutexInv' /\ KeystreamInOrder'
    BY <2>1, ReadInv DEF At
  <2>3. ~wronged'
    BY <1>2, <1>4 DEF OrderInv, CancelHitsItsOperation
  <2>4. TypeOK'
    BY <1>4, <2>1, <2>2, <2>3, <1>r DEF TypeOK
  <2>5. WatcherInv'
    BY <2>1 DEF WatcherInv, At
  <2>6. \A i \in DOMAIN socket : socket[i].kind # "request"
    BY <1>4 DEF OrderInv
  <2>7. OrderInv'
    BY <1>2, <1>3, <1>4, <2>6 DEF OrderInv
  <2> QED BY <2>2, <2>3, <2>4, <2>5, <2>7 DEF CancelHitsItsOperation
<1>5. CASE UNCHANGED <<op, srv, wronged>>
  <2>1. socket' \in Seq(Message) /\ MutexInv' /\ KeystreamInOrder'
    BY <1>5, ReadInv DEF At
  <2>2. TypeOK' /\ WatcherInv'
    <3>1. TypeOK'
      BY <1>r, <1>5, <2>1 DEF TypeOK
    <3> QED BY <1>5, <3>1 DEF WatcherInv, At
  <2>3. OrderInv'
    BY <1>1, <1>2, <1>3, <1>5 DEF OrderInv, At
  <2> QED BY <1>5, <2>1, <2>2, <2>3 DEF CancelHitsItsOperation
<1> QED BY <1>4, <1>5

\* The answer ends the round trip.
LEMMA SrvAnswerInv == ASSUME CancelInv, srvAnswer PROVE CancelInv'
<1> USE DEF CancelInv, srvAnswer
<1>1. /\ op' \in [n: 0..MaxOps, pc: Pc, trips: Nat]
      /\ op'.n = op.n /\ op'.pc \in {"stop", "write"} /\ op'.trips # 0 /\ op.pc = "read"
  BY AnsweredType DEF At
<1>2. TypeOK'
  BY <1>1 DEF TypeOK
<1>3. \A w \in Writer : Holds(w)' <=> Holds(w)
  BY <1>1 DEF Holds, At
<1>4. MutexInv' /\ WatcherInv'
  BY <1>1, <1>3 DEF MutexInv, WatcherInv, At
<1>5. OrderInv'
  BY <1>1 DEF OrderInv, At
<1> QED BY <1>2, <1>4, <1>5 DEF KeystreamInOrder, CancelHitsItsOperation

\* A context that ends and a peer that stops reading change nothing of this.
LEMMA SurroundingsInv == ASSUME CancelInv, ctxEnds \/ srvStalls PROVE CancelInv'
<1>1. /\ UNCHANGED <<op, watcher, writeMu, cipher, key, socket, readPos, srv, deadline, bad, wronged>>
      /\ ctx' \in [Op -> {"none", "live", "done"}] /\ stalled' \in BOOLEAN
  BY DEF CancelInv, TypeOK, ctxEnds, srvStalls
<1>2. \A w \in Writer : Holds(w)' <=> Holds(w)
  BY <1>1 DEF Holds, At
<1> QED BY <1>1, <1>2 DEF CancelInv, TypeOK, MutexInv, WatcherInv, OrderInv, At,
                          KeystreamInOrder, CancelHitsItsOperation

----------------------------------------------------------------------------
(* The theorems *)

\* The inductive invariant of withCancel: who holds writeMu, where the
\* keystream is, which watcher lives, and what may be on the socket.
THEOREM CancelInvariant == Spec => []CancelInv
<1>1. Init => CancelInv
  <2> SUFFICES ASSUME Init PROVE CancelInv
    OBVIOUS
  <2>1. TypeOK
    <3>1. op \in [n: 0..MaxOps, pc: Pc, trips: Nat]
      BY DEF Init, Pc
    <3>2. socket \in Seq(Message) /\ cipher \in Nat /\ readPos \in Nat /\ key \in [Writer -> Nat]
      BY DEF Init
    <3> QED BY <3>1, <3>2 DEF Init, TypeOK, WatcherState
  <2>2. \A w \in Writer : ~Holds(w)
    BY DEF Init, Holds, At, Op, Writer
  <2> QED BY <2>1, <2>2 DEF Init, CancelInv, MutexInv, WatcherInv, OrderInv, At,
                            KeystreamInOrder, CancelHitsItsOperation
<1>2. CancelInv /\ [Next]_vars => CancelInv'
  <2> SUFFICES ASSUME CancelInv, [Next]_vars PROVE CancelInv'
    OBVIOUS
  <2>1. CASE UNCHANGED vars
    <3>1. \A w \in Writer : Holds(w)' <=> Holds(w)
      BY <2>1 DEF vars, Holds, At
    <3> QED BY <2>1, <3>1 DEF vars, CancelInv, TypeOK, MutexInv, WatcherInv, OrderInv, At,
                              KeystreamInOrder, CancelHitsItsOperation
  <2> QED BY <2>1, StartInv, OpEncryptInv, OpSendInv, ReadTimesOutInv, StopJoinInv,
             WatcherStepInv, SrvRequestInv, SrvCancelInv, SrvAnswerInv, SurroundingsInv
          DEF Next, Operation, Server
<1> QED BY <1>1, <1>2, PTL DEF Spec

\* Messages reach the socket in keystream order for any number of operations
\* and watchers (flush and Cancel under writeMu).
THEOREM KeystreamIsInOrder == Spec => []KeystreamInOrder
BY CancelInvariant, PTL DEF CancelInv

\* No op_cancel interrupts an operation other than the one whose context ended
\* (withCancel's stop waits for the watcher).
THEOREM CancelsHitTheirOperation == Spec => []CancelHitsItsOperation
BY CancelInvariant, PTL DEF CancelInv
=============================================================================
