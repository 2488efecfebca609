------------------------------ MODULE FbCancel ------------------------------
(***************************************************************************)
(* A cancellable operation of a conn: the goroutine that holds conn.mu and *)
(* makes round trips, the goroutine that withCancel starts to watch the    *)
(* context, the socket they share, and the server.                         *)
(*                                                                         *)
(* withCancel sends op_cancel when the context ends, gives the server a    *)
(* grace period, and then forces the blocked read to return by setting a   *)
(* read deadline in the past.  Both goroutines write to the same encrypted *)
(* stream; writeMu keeps a message's place in the keystream and its place  *)
(* on the socket together.                                                 *)
(***************************************************************************)
EXTENDS Naturals, Sequences

CONSTANTS
  MaxOps,       \* bound: operations on the connection, one after another
  MaxTrips      \* bound: round trips of one operation

ASSUME CancelAssumption == MaxOps \in Nat \ {0} /\ MaxTrips \in Nat \ {0}

VARIABLES
  op,        \* the operation: its number, where it is, round trips to go
  ctx,       \* the context of each operation: "none" (never ends), "live", "done"
  watcher,   \* the goroutine withCancel started for each operation
  writeMu,   \* wc.writeMu is locked
  cipher,    \* position of the write cipher's keystream
  key,       \* where in the keystream a goroutine encrypted what it writes next
  socket,    \* messages written and not yet read by the server
  readPos,   \* position of the server's read cipher
  srv,       \* the server: "idle", "running", "lock wait"
  deadline,  \* the socket's read deadline is in the past
  bad,       \* conn.bad
  stalled,   \* the server stopped reading
  wronged    \* history: an op_cancel interrupted an operation it was not meant for

vars == <<op, ctx, watcher, writeMu, cipher, key, socket, readPos, srv, deadline, bad,
          stalled, wronged>>

Op == 1..MaxOps

\* The writers: watcher w is w, the goroutine of the operations is 0.
Writer == 0..MaxOps

----------------------------------------------------------------------------
(* Both goroutines write like this *)

\* Mutant of encrypt: writeMu is not waited for.
encryptUnlocked(w) ==
  /\ writeMu' = TRUE
  /\ cipher' = cipher + 1
  /\ key' = [key EXCEPT ![w] = cipher']

\* flush and Cancel: lock writeMu and encrypt ...
encrypt(w) ==
  /\ ~writeMu
  /\ writeMu' = TRUE
  /\ cipher' = cipher + 1
  /\ key' = [key EXCEPT ![w] = cipher']

\* ... then write, unless the socket was closed meanwhile, and unlock.
send(w, kind, n) ==
  /\ ~stalled
  /\ socket' = IF bad THEN socket
               ELSE Append(socket, [kind |-> kind, op |-> n, key |-> key[w]])
  /\ writeMu' = FALSE

----------------------------------------------------------------------------
(* The operation *)

At(pc) == op.pc = pc
Goto(pc) == op' = [op EXCEPT !.pc = pc]

\* Lock, the closed/bad and context checks, and withCancel.  A context
\* without a Done channel is not watched.
Start(c) ==
  /\ At("idle") /\ ~bad
  /\ op.n < MaxOps
  /\ \E trips \in 1..MaxTrips :
       op' = [n |-> op.n + 1, pc |-> "write", trips |-> trips]
  /\ ctx' = [ctx EXCEPT ![op.n + 1] = c]
  /\ watcher' = [watcher EXCEPT ![op.n + 1] = IF c = "none" THEN "finished" ELSE "select"]
  /\ UNCHANGED <<writeMu, cipher, key, socket, readPos, srv, deadline, bad, stalled, wronged>>

opEncrypt ==
  /\ At("write")
  /\ encrypt(0)
  /\ Goto("send")
  /\ UNCHANGED <<ctx, watcher, socket, readPos, srv, deadline, bad, stalled, wronged>>

opSend ==
  /\ At("send")
  /\ send(0, "request", op.n)
  /\ Goto("read")
  /\ UNCHANGED <<ctx, watcher, cipher, key, readPos, srv, deadline, bad, stalled, wronged>>

\* The read returns the server's answer; an error status ends the operation.
answered(interrupted) ==
  op' = IF interrupted \/ op.trips = 1 THEN [op EXCEPT !.pc = "stop"]
        ELSE [op EXCEPT !.pc = "write", !.trips = @ - 1]

\* A deadline in the past fails every read: a transport error, so the
\* connection is marked bad and the socket closed.
readTimesOut ==
  /\ At("read") /\ deadline
  /\ bad' = TRUE
  /\ Goto("stop")
  /\ socket' = <<>> /\ srv' = "idle"
  /\ UNCHANGED <<ctx, watcher, writeMu, cipher, key, readPos, deadline, stalled, wronged>>

\* stop: close(done) ...
stop ==
  /\ At("stop")
  /\ Goto("join")
  /\ UNCHANGED <<ctx, watcher, writeMu, cipher, key, socket, readPos, srv, deadline, bad,
                 stalled, wronged>>

\* Mutant of join: the mutex is unlocked while the watcher still runs.
joinAtOnce ==
  /\ At("join")
  /\ Goto("idle")
  /\ UNCHANGED <<ctx, watcher, writeMu, cipher, key, socket, readPos, srv, deadline, bad,
                 stalled, wronged>>

\* ... and wait for finished; then the mutex is unlocked.
join ==
  /\ At("join")
  /\ watcher[op.n] = "finished"
  /\ Goto("idle")
  /\ UNCHANGED <<ctx, watcher, writeMu, cipher, key, socket, readPos, srv, deadline, bad,
                 stalled, wronged>>

----------------------------------------------------------------------------
(* The watcher of operation w *)

done(w) == op.n > w \/ At("join") \/ At("idle")

ctxEnds ==
  /\ ~At("idle") /\ ctx[op.n] = "live"
  /\ ctx' = [ctx EXCEPT ![op.n] = "done"]
  /\ UNCHANGED <<op, watcher, writeMu, cipher, key, socket, readPos, srv, deadline, bad,
                 stalled, wronged>>

Watch(w, from, to) ==
  /\ watcher[w] = from
  /\ watcher' = [watcher EXCEPT ![w] = to]
  /\ UNCHANGED <<op, ctx, readPos, srv, bad, stalled, wronged>>

\* select: when both channels are ready either may be taken.
select(w) ==
  /\ \/ ctx[w] = "done" /\ Watch(w, "select", "cancel")
     \/ done(w) /\ Watch(w, "select", "finished")
  /\ UNCHANGED <<writeMu, cipher, key, socket, deadline>>

\* Cancel(CancelRaise).
cancelEncrypt(w) ==
  /\ Watch(w, "cancel", "cancelling")
  /\ encrypt(w)
  /\ UNCHANGED <<socket, deadline>>

cancelSend(w) ==
  /\ Watch(w, "cancelling", "grace")
  /\ send(w, "cancel", w)
  /\ UNCHANGED <<cipher, key, deadline>>

\* The operation returned in time.
graceDone(w) ==
  /\ done(w)
  /\ Watch(w, "grace", "finished")
  /\ UNCHANGED <<writeMu, cipher, key, socket, deadline>>

\* cancelGracePeriod is over.  The timer was started by this select, so it can
\* only win while done is still open ...
graceEnds(w) ==
  /\ ~done(w)
  /\ Watch(w, "grace", "expired")
  /\ UNCHANGED <<writeMu, cipher, key, socket, deadline>>

\* Mutant of setReadDeadline: the watcher gives up and the read stays blocked.
setNoDeadline(w) ==
  /\ Watch(w, "expired", "finished")
  /\ UNCHANGED <<writeMu, cipher, key, socket, deadline>>

\* ... but the operation may return before SetReadDeadline(now) is called.
setReadDeadline(w) ==
  /\ Watch(w, "expired", "finished")
  /\ deadline' = TRUE
  /\ UNCHANGED <<writeMu, cipher, key, socket>>

----------------------------------------------------------------------------
(* The server *)

\* An operation that waits for a lock cannot be interrupted.
srvRequest ==
  /\ socket # <<>> /\ ~stalled /\ Head(socket).kind = "request"
  /\ srv' \in {"running", "lock wait"}
  /\ socket' = Tail(socket)
  /\ readPos' = readPos + 1
  /\ UNCHANGED <<op, ctx, watcher, writeMu, cipher, key, deadline, bad, stalled, wronged>>

\* op_cancel raises an error in what is running; an idle server ignores it.
srvCancel ==
  /\ socket # <<>> /\ ~stalled /\ Head(socket).kind = "cancel"
  /\ socket' = Tail(socket)
  /\ readPos' = readPos + 1
  /\ IF srv = "running" /\ At("read") /\ ~deadline
     THEN /\ answered(TRUE)
          /\ srv' = "idle"
          /\ wronged' = (wronged \/ Head(socket).op # op.n)
     ELSE UNCHANGED <<op, srv, wronged>>
  /\ UNCHANGED <<ctx, watcher, writeMu, cipher, key, deadline, bad, stalled>>

\* The answer reaches the blocked read, if that has not timed out.
srvAnswer ==
  /\ srv # "idle" /\ At("read") /\ ~deadline
  /\ srv' = "idle"
  /\ answered(FALSE)
  /\ UNCHANGED <<ctx, watcher, writeMu, cipher, key, socket, readPos, deadline, bad, stalled,
                 wronged>>

\* The peer stops reading: from here on a write blocks.
srvStalls ==
  /\ ~stalled
  /\ stalled' = TRUE
  /\ UNCHANGED <<op, ctx, watcher, writeMu, cipher, key, socket, readPos, srv, deadline, bad,
                 wronged>>

----------------------------------------------------------------------------
Init ==
  /\ op = [n |-> 0, pc |-> "idle", trips |-> 0]
  /\ ctx = [w \in Op |-> "none"]
  /\ watcher = [w \in Op |-> "finished"]
  /\ writeMu = FALSE
  /\ cipher = 0 /\ readPos = 0 /\ key = [w \in Writer |-> 0]
  /\ socket = <<>>
  /\ srv = "idle"
  /\ deadline = FALSE /\ bad = FALSE /\ stalled = FALSE /\ wronged = FALSE

Operation == opEncrypt \/ opSend \/ readTimesOut \/ stop \/ join
Watcher(w) ==
  \/ select(w) \/ cancelEncrypt(w) \/ cancelSend(w)
  \/ graceDone(w) \/ graceEnds(w) \/ setReadDeadline(w)
Server == srvRequest \/ srvCancel \/ srvAnswer \/ srvStalls

Next ==
  \/ \E c \in {"none", "live"} : Start(c)
  \/ Operation \/ ctxEnds \/ Server
  \/ \E w \in Op : Watcher(w)

\* The runtime schedules both goroutines and the timer fires.  The server
\* owes nothing: a lock wait may last forever.
Fairness == WF_vars(Operation) /\ \A w \in Op : WF_vars(Watcher(w))

Spec == Init /\ [][Next]_vars /\ Fairness

----------------------------------------------------------------------------
(* Properties *)

\* The server decrypts what the driver encrypted: messages reach the socket in
\* the order in which they took their place in the keystream, although two
\* goroutines write them.
KeystreamInOrder ==
  ~bad => \A i \in DOMAIN socket : socket[i].key = readPos + i

\* op_cancel only ever interrupts the operation whose context ended: stop
\* returns after the watcher is gone, so an op_cancel is on the socket before
\* the next operation's request.
CancelHitsItsOperation == ~wronged

\* A context that ends bounds the operation, even if the server never answers
\* (connection.go: "bounds a cancelled context to a finite wait instead of
\* hanging forever on a contended row").  A peer that stops reading is the
\* exception, which COMPATIBILITY.md ("never hangs forever") does not make: the
\* write it blocks holds writeMu, Cancel waits for it, and the grace period never
\* starts.
CancelIsBounded == (~At("idle") /\ ctx[op.n] = "done") ~> (At("idle") \/ stalled)
=============================================================================
