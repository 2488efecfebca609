----------------------------- MODULE FbSession -----------------------------
(***************************************************************************)
(* One database/sql connection of the driver: the conn of connection.go,   *)
(* the stmt, rows and transaction objects that share it, and what the      *)
(* Firebird server keeps for it.                                           *)
(*                                                                         *)
(* Every exported method holds conn.mu from its first to its last          *)
(* statement and talks to the server one round trip at a time.  A method   *)
(* is therefore a start action followed by one action per round trip;      *)
(* call.stage is the round trip being made and call # NoCall means that    *)
(* the mutex is held.  Between two round trips only the network moves.     *)
(* A method that fails its closed/bad check, or is given an ended context, *)
(* returns at once and changes nothing: that is a stuttering step.         *)
(***************************************************************************)
EXTENDS Naturals, Sequences, FiniteSets

CONSTANTS
  None,            \* the zero handle, the nil object, "no change"
  TxHandle,        \* transaction handles the server can hand out
  StmtHandle,      \* statement handles the server can hand out
  Change,          \* changes to the database the application asks for
  RowsObj,         \* rows objects alive at the same time
  StmtObj,         \* stmt objects alive at the same time
  TxObj,           \* transaction objects
  MaxFreeHandles,  \* wire.maxFreeHandles
  Raw,             \* FALSE: callers are database/sql's pool; TRUE: a pinned sql.Conn
  SelectMayWrite   \* TRUE: statements described as SELECT may change data

ASSUME SessionAssumption ==
  /\ None \notin TxHandle \cup StmtHandle \cup Change \cup RowsObj \cup StmtObj \cup TxObj
  /\ "auto" \notin TxObj /\ "none" \notin TxObj
  /\ MaxFreeHandles \in Nat
  /\ Raw \in BOOLEAN
  /\ SelectMayWrite \in BOOLEAN

VARIABLES
  conn,       \* the conn struct and the handle pool of its WireConnection
  stmts,      \* stmt objects
  rows,       \* rows objects
  txs,        \* transaction objects
  call,       \* the method that holds conn.mu and its local variables
  srv,        \* the server's side of the connection
  committed,  \* changes that are durable
  ledger      \* who asked for each change and what he was told (history)

vars == <<conn, stmts, rows, txs, call, srv, committed, ledger>>

----------------------------------------------------------------------------
(* Types *)

StmtType == {"select", "dml", "proc"}   \* proc: StmtExecProcedure
Fn == {"none", "exec", "query", "prepare", "begin", "commit", "rollback",
       "close rows", "next", "close stmt", "ping"}
Stage == {"none", "getAutoTx", "lateAutoTx", "prepare", "describe", "params", "execute", "commitRetaining",
          "info", "commitAuto", "start", "end", "free", "commitOnClose", "fetch",
          "recycle", "info database"}
TxState == {"none", "open", "committing", "committed", "commit failed",
            "rolling back", "rolled back"}
Ack == {"none", "open", "ok", "error", "retry"}

OptTx == TxHandle \cup {None}
OptStmt == StmtHandle \cup {None}

ConnType == [closed: BOOLEAN, bad: BOOLEAN, activeTx: OptTx, autoTx: OptTx,
             dirtyAutoTx: BOOLEAN, freeHandles: Seq(StmtHandle)]
StmtRec == [open: BOOLEAN, handle: OptStmt, typ: StmtType]
RowsRec == [open: BOOLEAN, handle: OptStmt, tx: OptTx, autoFree: BOOLEAN,
            commitOnClose: BOOLEAN, hasCursor: BOOLEAN, chg: Change \cup {None}]
TxRec == [st: TxState, handle: OptTx]
CallType == [fn: Fn, stage: Stage, auto: BOOLEAN, tx: OptTx, handle: OptStmt,
             typ: StmtType, stmt: StmtObj \cup {None},
             rows: RowsObj \cup {None}, obj: TxObj \cup {None},
             chg: Change \cup {None}]
SrvType == [up: BOOLEAN, tx: SUBSET TxHandle, pend: [TxHandle -> SUBSET Change],
            stmt: SUBSET StmtHandle, cursor: SUBSET StmtHandle]
Entry == [by: {"none", "auto"} \cup TxObj, ack: Ack]

NoStmt == [open |-> FALSE, handle |-> None, typ |-> "select"]
NoRows == [open |-> FALSE, handle |-> None, tx |-> None, autoFree |-> FALSE,
           commitOnClose |-> FALSE, hasCursor |-> FALSE, chg |-> None]
NoCall == [fn |-> "none", stage |-> "none", auto |-> FALSE, tx |-> None, handle |-> None,
           typ |-> "select", stmt |-> None, rows |-> None, obj |-> None, chg |-> None]
SrvDown == [up |-> FALSE, tx |-> {}, pend |-> [h \in TxHandle |-> {}],
            stmt |-> {}, cursor |-> {}]

----------------------------------------------------------------------------
(* What the driver does to its own state, as functions of the conn struct  *)

Changes(chg) == {chg} \ {None}

Usable == ~conn.closed /\ ~conn.bad

\* Mutant of markBad: the connection is marked and the handles are kept.
markBadKeepsHandles(c) == [c EXCEPT !.bad = TRUE]

\* markBadLocked; the socket it closes takes the server's side down with it.
markBad(c) ==
  IF c.bad THEN c
  ELSE [c EXCEPT !.bad = TRUE, !.activeTx = None, !.autoTx = None, !.dirtyAutoTx = FALSE]

\* The abandoned transaction stays alive on the server.
invalidateAutoTx(c) == [c EXCEPT !.autoTx = None, !.dirtyAutoTx = FALSE]

\* Mutant of invalidateIfAuto: the auto-commit transaction survives an error.
invalidateNever(c) == c

invalidateIfAuto(c) == IF call.auto THEN invalidateAutoTx(c) ELSE c

\* The transaction a statement runs in when one exists already.
currentTx == IF conn.activeTx # None THEN conn.activeTx ELSE conn.autoTx

\* getAutoTx makes a round trip only when there is no transaction to reuse.
AutoTxOr(stage) == IF currentTx = None THEN "getAutoTx" ELSE stage

\* RecycleStatement, FreeStatement: the handle is pooled, or dropped when the pool is full.
PoolFull(c) == Len(c.freeHandles) >= MaxFreeHandles

\* Mutant of recycle: the handle is zeroed before it is pooled.
recycleZeroed(c, h) ==
  IF PoolFull(c) THEN c ELSE [c EXCEPT !.freeHandles = Append(@, None)]

recycle(c, h) ==
  IF PoolFull(c) THEN c ELSE [c EXCEPT !.freeHandles = Append(@, h)]

closeCursor(s, h) == [s EXCEPT !.cursor = @ \ {h}]

drop(s, h) == [s EXCEPT !.stmt = @ \ {h}, !.cursor = @ \ {h}]

srvRecycle(c, s, h) == IF PoolFull(c) THEN drop(s, h) ELSE s

\* An ad-hoc statement is dropped when its method fails; a prepared one is kept.
dropIfAdHoc(s) == IF call.stmt = None THEN drop(s, call.handle) ELSE s

----------------------------------------------------------------------------
(* The method in progress *)

At(stage) == call.stage = stage

\* The order of the round trips.  A prepared Exec without blob parameters
\* encodes its parameters before it asks for the transaction (lateAutoTx).
nextStage(c) ==
  CASE c.stage = "getAutoTx"       -> IF c.stmt = None THEN "prepare" ELSE "params"
    [] c.stage = "prepare"         -> "describe"
    [] c.stage = "describe"        -> "params"
    [] c.stage = "params"          -> IF c.tx = None THEN "lateAutoTx" ELSE "execute"
    [] c.stage = "lateAutoTx"      -> "execute"
    [] c.stage = "execute"         -> IF c.auto /\ c.typ = "proc" THEN "commitRetaining"
                                      ELSE "info"
    [] c.stage = "commitRetaining" -> "info"
    [] c.stage = "commitAuto"      -> "start"
    [] OTHER                       -> "commitOnClose"

Advance(c) == [c EXCEPT !.stage = nextStage(c)]

Settle(chg, ack) ==
  [ledger EXCEPT ![chg].ack = ack]

\* The method returns; the caller is told ack about the change it asked for.
Return(ack) ==
  /\ call' = NoCall
  /\ ledger' = IF call.chg = None THEN ledger ELSE Settle(call.chg, ack)

\* A server error in the middle of a method.
Fail(c, s) ==
  /\ conn' = c
  /\ srv' = s
  /\ Return("error")
  /\ UNCHANGED <<stmts, rows, txs>>

----------------------------------------------------------------------------
(* How callers may use the connection.  database/sql gives it to one user  *)
(* at a time: the rows of an auto-commit query keep it until they are      *)
(* closed, a transaction until it ends, and Tx.Commit and Tx.Rollback wait *)
(* for the transaction's rows.  On a pinned sql.Conn rows, statements and  *)
(* transactions interleave freely.                                         *)

RowsClosed == \A r \in RowsObj : ~rows[r].open
TxClosed == \A t \in TxObj : txs[t].st # "open"

\* u is the transaction the caller works in, or "auto".
MayCall(u) ==
  /\ call = NoCall
  /\ \/ u \in TxObj /\ txs[u].st = "open"
     \/ u = "auto" /\ TxClosed /\ (Raw \/ RowsClosed)

Users == TxObj \cup {"auto"}

----------------------------------------------------------------------------
(* Statements *)

\* A new change is asked for, unless the statement only reads.
AsksFor(typ, chg, u) ==
  \/ /\ chg = None
     /\ typ = "select"
     /\ UNCHANGED ledger
  \/ /\ chg \in Change
     /\ typ = "select" => SelectMayWrite
     /\ ledger[chg].by = "none"
     /\ ledger' = [ledger EXCEPT ![chg] = [by |-> u, ack |-> "open"]]

\* Lock, checks, autoCommit := activeTx == 0, and the first round trip.
Enter(fn, typ, chg, s, h, stage) ==
  /\ Usable
  /\ call' = [fn |-> fn, stage |-> stage, auto |-> conn.activeTx = None, tx |-> currentTx,
              handle |-> h, typ |-> typ, stmt |-> s, rows |-> None, obj |-> None,
              chg |-> chg]
  /\ UNCHANGED <<conn, stmts, rows, txs, srv, committed>>

ExecContext(typ, chg, u) ==
  /\ MayCall(u)
  /\ AsksFor(typ, chg, u)
  /\ Enter("exec", typ, chg, None, None, AutoTxOr("prepare"))

QueryContext(typ, chg, u) ==
  /\ MayCall(u)
  /\ \E r \in RowsObj : ~rows[r].open
  /\ AsksFor(typ, chg, u)
  /\ Enter("query", typ, chg, None, None, AutoTxOr("prepare"))

PrepareContext(typ, u) ==
  /\ MayCall(u)
  /\ \E s \in StmtObj : ~stmts[s].open
  /\ Enter("prepare", typ, None, None, None, AutoTxOr("prepare"))
  /\ UNCHANGED ledger

\* With blob parameters the transaction comes before the parameters.
StmtExecContext(s, chg, u) ==
  /\ MayCall(u)
  /\ stmts[s].open
  /\ AsksFor(stmts[s].typ, chg, u)
  /\ \E stage \in {AutoTxOr("params"), "params"} :
       Enter("exec", stmts[s].typ, chg, s, stmts[s].handle, stage)

StmtQueryContext(s, chg, u) ==
  /\ MayCall(u)
  /\ stmts[s].open
  /\ \E r \in RowsObj : ~rows[r].open
  /\ AsksFor(stmts[s].typ, chg, u)
  /\ Enter("query", stmts[s].typ, chg, s, stmts[s].handle, AutoTxOr("params"))

----------------------------------------------------------------------------
(* The round trips of a statement *)

getAutoTx ==
  /\ At("getAutoTx") \/ At("lateAutoTx")
  /\ call.auto /\ srv.up
  /\ \/ \E h \in TxHandle \ srv.tx :
          /\ srv' = [srv EXCEPT !.tx = @ \cup {h}]
          /\ conn' = [conn EXCEPT !.autoTx = h]
          /\ call' = [Advance(call) EXCEPT !.tx = h]
          /\ UNCHANGED <<stmts, rows, txs, ledger>>
     \/ Fail(conn, srv)
  /\ UNCHANGED committed

\* The last pooled handle is prepared again.  When that fails the handle is in nobody's hands.
PrepareReuse ==
  /\ At("prepare") /\ srv.up
  /\ conn.freeHandles # <<>>
  /\ LET n == Len(conn.freeHandles)
         c == [conn EXCEPT !.freeHandles = SubSeq(@, 1, n - 1)]
     IN \/ /\ conn' = c
           /\ call' = [Advance(call) EXCEPT !.handle = conn.freeHandles[n]]
           /\ UNCHANGED <<stmts, rows, txs, srv, ledger>>
        \/ Fail(invalidateIfAuto(c), srv)
  /\ UNCHANGED committed

\* Allocate and prepare in one flush.  A handle allocated for a statement
\* that does not prepare is returned to no one.
AllocateAndPrepare ==
  /\ At("prepare") /\ srv.up
  /\ conn.freeHandles = <<>>
  /\ \/ \E h \in StmtHandle \ srv.stmt :
          LET s == [srv EXCEPT !.stmt = @ \cup {h}]
          IN \/ /\ srv' = s
                /\ call' = [Advance(call) EXCEPT !.handle = h]
                /\ UNCHANGED <<conn, stmts, rows, txs, ledger>>
             \/ Fail(invalidateIfAuto(conn), s)
     \/ Fail(invalidateIfAuto(conn), srv)
  /\ UNCHANGED committed

\* CompleteSQLDescribe and the check of the number of arguments.  For
\* PrepareContext this is the end: the stmt object is made.
Describe ==
  /\ At("describe")
  /\ \/ /\ call.fn # "prepare"
        /\ call' = Advance(call)
        /\ UNCHANGED <<conn, stmts, rows, txs, srv, ledger>>
     \/ /\ call.fn = "prepare"
        /\ \E s \in StmtObj :
             /\ ~stmts[s].open
             /\ stmts' = [stmts EXCEPT ![s] =
                            [open |-> TRUE, handle |-> call.handle, typ |-> call.typ]]
        /\ Return("open")
        /\ UNCHANGED <<conn, rows, txs, srv>>
     \/ Fail(recycle(conn, call.handle), srvRecycle(conn, srv, call.handle))
  /\ UNCHANGED committed

\* Blob parameters are written and the parameters encoded.
Params ==
  /\ At("params")
  /\ \/ /\ call' = Advance(call)
        /\ UNCHANGED <<conn, stmts, rows, txs, srv, ledger>>
     \/ Fail(invalidateIfAuto(conn), dropIfAdHoc(srv))
  /\ UNCHANGED committed

\* The server runs the statement in its transaction.
CanExecute ==
  /\ call.tx \in srv.tx
  /\ ~(call.typ = "select" /\ call.handle \in srv.cursor)

afterExecute(s) ==
  [s EXCEPT !.pend[call.tx] = @ \cup Changes(call.chg),
            !.cursor = IF call.typ = "select" THEN @ \cup {call.handle} ELSE @]

\* op_commit_retaining keeps the transaction, op_commit and op_rollback end it.
afterCommit(s, h) == [s EXCEPT !.pend[h] = {}]

afterEnd(s, h) == [s EXCEPT !.pend[h] = {}, !.tx = @ \ {h}]

\* ExecuteAndCommitRetaining: both requests are sent before either answer is
\* read, so a statement that fails is followed by the commit all the same.
ExecuteAndCommitRetaining ==
  /\ At("execute") /\ srv.up
  /\ call.fn = "exec" /\ call.auto /\ call.typ # "proc"
  /\ \E executed, done \in BOOLEAN :
       LET s == IF executed THEN afterExecute(srv) ELSE srv
           t == IF done THEN afterCommit(s, call.tx) ELSE s
       IN /\ executed => CanExecute
          /\ done => call.tx \in srv.tx
          /\ committed' = IF done THEN committed \cup s.pend[call.tx] ELSE committed
          /\ \/ /\ executed /\ done
                /\ srv' = t
                /\ call' = Advance(call)
                /\ UNCHANGED <<conn, stmts, rows, txs, ledger>>
             \/ /\ ~(executed /\ done)
                /\ Fail(invalidateAutoTx(conn), dropIfAdHoc(t))

\* Execute or Execute2 for Exec inside a transaction, or of a procedure.
Execute ==
  /\ At("execute") /\ srv.up
  /\ call.fn = "exec" /\ ~(call.auto /\ call.typ # "proc")
  /\ \/ /\ CanExecute
        /\ srv' = afterExecute(srv)
        /\ call' = Advance(call)
        /\ UNCHANGED <<conn, stmts, rows, txs, ledger>>
     \/ Fail(invalidateIfAuto(conn), dropIfAdHoc(srv))
  /\ UNCHANGED committed

\* Mutants of commitOnClose: rows never commit; rows commit in any mode.
commitOnCloseNever(auto, typ) == FALSE
commitOnCloseAlways(auto, typ) == typ # "select"

\* Which rows commit the auto-commit transaction when they are closed.
commitOnClose(auto, typ) == auto /\ typ # "select"

\* Mutant of autoFreeStmt: rows of a prepared statement free its handle.
autoFreeAny == call.auto

\* The handle of an ad-hoc query is freed with its rows only in auto-commit mode.
autoFreeStmt == call.auto /\ call.stmt = None

\* Execute or Execute2 for Query: the rows object is made.  Reading the blobs
\* of a procedure's row can still fail after the procedure ran.
ExecuteQuery ==
  /\ At("execute") /\ srv.up
  /\ call.fn = "query"
  /\ \/ /\ CanExecute
        /\ srv' = afterExecute(srv)
        /\ \E r \in RowsObj :
             /\ ~rows[r].open
             /\ rows' = [rows EXCEPT ![r] =
                  [open |-> TRUE, handle |-> call.handle, tx |-> call.tx,
                   autoFree |-> autoFreeStmt,
                   commitOnClose |-> commitOnClose(call.auto, call.typ),
                   hasCursor |-> call.typ # "proc", chg |-> call.chg]]
        /\ Return("open")
        /\ UNCHANGED <<conn, stmts, txs>>
     \/ Fail(invalidateIfAuto(conn), dropIfAdHoc(srv))
     \/ /\ CanExecute /\ call.typ = "proc"
        /\ Fail(invalidateIfAuto(conn), dropIfAdHoc(afterExecute(srv)))
  /\ UNCHANGED committed

\* CommitRetaining after an auto-commit procedure.
CommitRetaining ==
  /\ At("commitRetaining") /\ srv.up
  /\ \/ /\ call.tx \in srv.tx
        /\ committed' = committed \cup srv.pend[call.tx]
        /\ srv' = afterCommit(srv, call.tx)
        /\ call' = Advance(call)
        /\ UNCHANGED <<conn, stmts, rows, txs, ledger>>
     \/ /\ Fail(invalidateAutoTx(conn), dropIfAdHoc(srv))
        /\ UNCHANGED committed

\* Exec succeeds: in auto-commit mode that says the change is durable.
ExecAck == IF call.auto THEN "ok" ELSE "open"

\* getRowsAffected; an error only goes into the result.  An ad-hoc handle is pooled.
getRowsAffected ==
  /\ At("info") /\ srv.up
  /\ conn' = IF call.stmt = None THEN recycle(conn, call.handle) ELSE conn
  /\ srv' = IF call.stmt = None THEN srvRecycle(conn, srv, call.handle) ELSE srv
  /\ Return(ExecAck)
  /\ UNCHANGED <<stmts, rows, txs, committed>>

----------------------------------------------------------------------------
(* Explicit transactions *)

\* Mutant of BeginTx: the auto-commit transaction is left open.
BeginTxAtOnce(t) ==
  /\ Usable
  /\ txs[t].st = "none"
  /\ call = NoCall
  /\ Raw \/ (TxClosed /\ RowsClosed)
  /\ call' = [NoCall EXCEPT !.fn = "begin", !.obj = t, !.tx = conn.autoTx,
                !.stage = "start"]
  /\ UNCHANGED <<conn, stmts, rows, txs, srv, committed, ledger>>

\* The pending auto-commit transaction is committed first.
BeginTx(t) ==
  /\ Usable
  /\ txs[t].st = "none"
  /\ call = NoCall
  /\ Raw \/ (TxClosed /\ RowsClosed)
  /\ call' = [NoCall EXCEPT !.fn = "begin", !.obj = t, !.tx = conn.autoTx,
                !.stage = IF conn.autoTx # None THEN "commitAuto" ELSE "start"]
  /\ UNCHANGED <<conn, stmts, rows, txs, srv, committed, ledger>>

commitAutoTx ==
  /\ At("commitAuto") /\ call.fn = "begin" /\ srv.up
  /\ \/ /\ call.tx \in srv.tx
        /\ committed' = committed \cup srv.pend[call.tx]
        /\ srv' = afterEnd(srv, call.tx)
        /\ conn' = invalidateAutoTx(conn)
        /\ call' = Advance(call)
        /\ UNCHANGED <<stmts, rows, txs, ledger>>
     \/ /\ Fail(invalidateAutoTx(conn), srv)
        /\ UNCHANGED committed

\* Mutant of startTx: the connection does not learn of its transaction.
startTxUnnoticed ==
  /\ At("start") /\ call.fn = "begin" /\ srv.up
  /\ \/ \E h \in TxHandle \ srv.tx :
          /\ srv' = [srv EXCEPT !.tx = @ \cup {h}]
          /\ txs' = [txs EXCEPT ![call.obj] = [st |-> "open", handle |-> h]]
          /\ Return("open")
          /\ UNCHANGED <<conn, stmts, rows>>
     \/ Fail(conn, srv)
  /\ UNCHANGED committed

startTx ==
  /\ At("start") /\ call.fn = "begin" /\ srv.up
  /\ \/ \E h \in TxHandle \ srv.tx :
          /\ srv' = [srv EXCEPT !.tx = @ \cup {h}]
          /\ conn' = [conn EXCEPT !.activeTx = h]
          /\ txs' = [txs EXCEPT ![call.obj] = [st |-> "open", handle |-> h]]
          /\ Return("open")
          /\ UNCHANGED <<stmts, rows>>
     \/ Fail(conn, srv)
  /\ UNCHANGED committed

\* Mutant of EndTx: activeTx is not forgotten.
EndTxKeepsActive(t, fn, st, failed) ==
  /\ call = NoCall
  /\ txs[t].st = "open"
  /\ Raw \/ RowsClosed
  /\ txs' = [txs EXCEPT ![t].st = IF Usable THEN st ELSE failed]
  /\ call' = IF Usable
             THEN [NoCall EXCEPT !.fn = fn, !.obj = t, !.tx = txs[t].handle,
                                 !.stage = "end"]
             ELSE NoCall
  /\ UNCHANGED <<conn, stmts, rows, srv, committed, ledger>>

\* Commit and Rollback forget the active transaction before anything else.
EndTx(t, fn, st, failed) ==
  /\ call = NoCall
  /\ txs[t].st = "open"
  /\ Raw \/ RowsClosed
  /\ conn' = [conn EXCEPT !.activeTx = None]
  /\ txs' = [txs EXCEPT ![t].st = IF Usable THEN st ELSE failed]
  /\ call' = IF Usable
             THEN [NoCall EXCEPT !.fn = fn, !.obj = t, !.tx = txs[t].handle,
                                 !.stage = "end"]
             ELSE NoCall
  /\ UNCHANGED <<stmts, rows, srv, committed, ledger>>

Commit(t) == EndTx(t, "commit", "committing", "commit failed")
Rollback(t) == EndTx(t, "rollback", "rolling back", "rolled back")

\* What the caller of a successful Tx.Commit now believes.
CommitAcks(t) ==
  [c \in Change |-> IF ledger[c] = [by |-> t, ack |-> "open"]
                    THEN [by |-> t, ack |-> "ok"] ELSE ledger[c]]

endCommit ==
  /\ At("end") /\ call.fn = "commit" /\ srv.up
  /\ call' = NoCall
  /\ \/ /\ call.tx \in srv.tx
        /\ committed' = committed \cup srv.pend[call.tx]
        /\ srv' = afterEnd(srv, call.tx)
        /\ txs' = [txs EXCEPT ![call.obj].st = "committed"]
        /\ ledger' = CommitAcks(call.obj)
     \/ /\ txs' = [txs EXCEPT ![call.obj].st = "commit failed"]
        /\ UNCHANGED <<srv, committed, ledger>>
  /\ UNCHANGED <<conn, stmts, rows>>

endRollback ==
  /\ At("end") /\ call.fn = "rollback" /\ srv.up
  /\ call' = NoCall
  /\ txs' = [txs EXCEPT ![call.obj].st = "rolled back"]
  /\ \/ /\ call.tx \in srv.tx
        /\ srv' = afterEnd(srv, call.tx)
     \/ UNCHANGED srv
  /\ UNCHANGED <<conn, stmts, rows, committed, ledger>>

----------------------------------------------------------------------------
(* Rows and statements *)

\* Next needs another batch.  Neither closed nor bad is checked here.
RowsNext(r) ==
  /\ call = NoCall
  /\ rows[r].open /\ rows[r].hasCursor
  /\ call' = [NoCall EXCEPT !.fn = "next", !.rows = r, !.chg = rows[r].chg,
                            !.stage = "fetch"]
  /\ UNCHANGED <<conn, stmts, rows, txs, srv, committed, ledger>>

\* Rows or a status error: either way the connection stays as it is.
fetch ==
  /\ At("fetch") /\ srv.up
  /\ call' = NoCall
  /\ UNCHANGED <<conn, stmts, rows, txs, srv, committed, ledger>>

\* A rows object closed without error says that its change is durable if it
\* was made in auto-commit mode.
CloseAck(r) ==
  IF rows[r].chg # None /\ ledger[rows[r].chg].by = "auto"
    /\ ledger[rows[r].chg].ack = "open"
  THEN Settle(rows[r].chg, "ok") ELSE ledger

RowsClose(r) ==
  /\ call = NoCall
  /\ rows[r].open
  /\ IF Usable
     THEN /\ call' = [NoCall EXCEPT !.fn = "close rows", !.rows = r, !.tx = rows[r].tx,
                        !.chg = rows[r].chg, !.handle = rows[r].handle,
                        !.stage = "free"]
          /\ rows' = [rows EXCEPT ![r].open = FALSE]
          /\ UNCHANGED ledger
     ELSE /\ ledger' = CloseAck(r)
          /\ rows' = [rows EXCEPT ![r] = NoRows]
          /\ UNCHANGED call
  /\ UNCHANGED <<conn, stmts, txs, srv, committed>>

\* RecycleStatement or FreeStatement(DSQLClose): written, not answered.
freeRows ==
  /\ At("free")
  /\ LET r == rows[call.rows]
         s == IF r.hasCursor THEN closeCursor(srv, r.handle) ELSE srv
     IN IF r.autoFree
        THEN /\ conn' = recycle(conn, r.handle)
             /\ srv' = srvRecycle(conn, s, r.handle)
        ELSE conn' = conn /\ srv' = s
  /\ IF rows[call.rows].commitOnClose
     THEN call' = Advance(call) /\ UNCHANGED <<rows, ledger>>
     ELSE /\ call' = NoCall
          /\ ledger' = CloseAck(call.rows)
          /\ rows' = [rows EXCEPT ![call.rows] = NoRows]
  /\ UNCHANGED <<stmts, txs, committed>>

\* CommitRetaining on the transaction the query ran in.
commitRows ==
  /\ At("commitOnClose") /\ srv.up
  /\ rows' = [rows EXCEPT ![call.rows] = NoRows]
  /\ call' = NoCall
  /\ \/ /\ call.tx \in srv.tx
        /\ committed' = committed \cup srv.pend[call.tx]
        /\ srv' = afterCommit(srv, call.tx)
        /\ ledger' = CloseAck(call.rows)
        /\ UNCHANGED conn
     \/ /\ conn' = invalidateAutoTx(conn)
        /\ ledger' = IF call.chg = None THEN ledger ELSE Settle(call.chg, "error")
        /\ UNCHANGED <<srv, committed>>
  /\ UNCHANGED <<stmts, txs>>

\* The handle goes back to the pool.  database/sql puts the Close of a
\* statement off until its connection is not in use; a transaction's statement
\* is closed while other rows of the transaction are open.
StmtClose(s) ==
  /\ call = NoCall
  /\ stmts[s].open
  /\ \/ Raw \/ RowsClosed
     \/ /\ ~TxClosed
        /\ \A r \in RowsObj : rows[r].open => rows[r].handle # stmts[s].handle
  /\ stmts' = [stmts EXCEPT ![s] = NoStmt]
  /\ call' = IF Usable
             THEN [NoCall EXCEPT !.fn = "close stmt", !.handle = stmts[s].handle,
                                 !.stage = "recycle"]
             ELSE NoCall
  /\ UNCHANGED <<conn, rows, txs, srv, committed, ledger>>

\* Close commits the auto-commit transaction if it is marked dirty.
mustCommitDirty == conn.dirtyAutoTx /\ conn.activeTx = None /\ conn.autoTx # None

recycleStmt ==
  /\ At("recycle")
  /\ mustCommitDirty => srv.up
  /\ LET c == recycle(conn, call.handle)
         s == srvRecycle(conn, srv, call.handle)
     IN IF ~mustCommitDirty
        THEN conn' = c /\ srv' = s /\ UNCHANGED committed
        ELSE \E done \in BOOLEAN :
               /\ done => conn.autoTx \in srv.tx
               /\ conn' = IF done THEN [c EXCEPT !.dirtyAutoTx = FALSE] ELSE invalidateAutoTx(c)
               /\ srv' = IF done THEN afterCommit(s, conn.autoTx) ELSE s
               /\ committed' = IF done THEN committed \cup srv.pend[conn.autoTx]
                               ELSE committed
  /\ call' = NoCall
  /\ UNCHANGED <<stmts, rows, txs, ledger>>

----------------------------------------------------------------------------
(* The connection *)

Ping ==
  /\ call = NoCall
  /\ Raw \/ (TxClosed /\ RowsClosed)
  /\ Usable
  /\ call' = [NoCall EXCEPT !.fn = "ping", !.stage = "info database"]
  /\ UNCHANGED <<conn, stmts, rows, txs, srv, committed, ledger>>

pinged ==
  /\ At("info database") /\ srv.up
  /\ call' = NoCall
  /\ UNCHANGED <<conn, stmts, rows, txs, srv, committed, ledger>>

\* Mutant of ResetSession: the checkout makes a bad connection good again.
ResetSessionRevives ==
  /\ call = NoCall
  /\ conn' = [conn EXCEPT !.bad = FALSE]
  /\ UNCHANGED <<stmts, rows, txs, call, srv, committed, ledger>>

\* On checkout: a transaction left over costs the connection.
ResetSession ==
  /\ call = NoCall
  /\ Usable
  /\ conn.activeTx # None
  /\ Raw \/ (TxClosed /\ RowsClosed)
  /\ conn' = markBad(conn)
  /\ srv' = SrvDown
  /\ UNCHANGED <<stmts, rows, txs, call, committed, ledger>>

\* The auto-commit transaction is committed, the pool drained, the database detached.
Close ==
  /\ call = NoCall
  /\ ~conn.closed
  /\ Raw \/ (TxClosed /\ RowsClosed /\ \A s \in StmtObj : ~stmts[s].open)
  /\ conn' = IF conn.bad THEN [conn EXCEPT !.closed = TRUE]
             ELSE [conn EXCEPT !.closed = TRUE, !.autoTx = None, !.dirtyAutoTx = FALSE,
                               !.freeHandles = <<>>]
  /\ srv' = SrvDown
  /\ \/ UNCHANGED committed
     \/ /\ srv.up /\ conn.autoTx \in srv.tx
        /\ committed' = committed \cup srv.pend[conn.autoTx]
  /\ UNCHANGED <<stmts, rows, txs, call, ledger>>

----------------------------------------------------------------------------
(* The network *)

\* The link or the server goes away; the server rolls back what was open.
\* The driver finds out when it next waits for an answer.
LinkDrops ==
  /\ srv.up
  /\ srv' = SrvDown
  /\ UNCHANGED <<conn, stmts, rows, txs, call, committed, ledger>>

\* What may have become durable although its answer never came.
LostAnswer ==
  IF ~srv.up \/ call.tx \notin srv.tx THEN {}
  ELSE CASE At("execute") /\ call.fn = "exec" /\ call.auto /\ call.typ # "proc" ->
              {srv.pend[call.tx], srv.pend[call.tx] \cup Changes(call.chg)}
         [] At("commitRetaining") \/ At("commitAuto") \/ At("commitOnClose") ->
              {srv.pend[call.tx]}
         [] At("end") /\ call.fn = "commit" -> {srv.pend[call.tx]}
         [] OTHER -> {}

\* Mutant of ErrorKind: every transport error is called retryable.
ErrorKindRetry == "retry"

\* handleRetryableErrorLocked up to the prepare, handleFatalErrorLocked from there on.
ErrorKind == IF At("getAutoTx") \/ At("lateAutoTx") \/ At("prepare") THEN "retry" ELSE "error"

\* Does the round trip touch the network at all?
DoesIO ==
  IF At("free")
  THEN rows[call.rows].hasCursor \/ (rows[call.rows].autoFree /\ PoolFull(conn))
  ELSE At("recycle") => PoolFull(conn) \/ mustCommitDirty

\* These two methods pool the handle even so.
pooledOnError ==
  IF call.stmt = None /\ (At("describe") \/ At("info"))
  THEN recycle(conn, call.handle) ELSE conn

\* A transport error: handleErrorLocked marks the connection bad and the method returns.
TransportError ==
  /\ call # NoCall /\ DoesIO
  /\ conn' = markBad(pooledOnError)
  /\ srv' = SrvDown
  /\ Return(IF At("info") THEN ExecAck ELSE ErrorKind)
  /\ \E done \in LostAnswer \cup {{}} : committed' = committed \cup done
  /\ rows' = IF call.fn = "close rows" THEN [rows EXCEPT ![call.rows] = NoRows] ELSE rows
  /\ txs' = IF call.fn = "commit"
            THEN [txs EXCEPT ![call.obj].st = "commit failed"]
            ELSE IF call.fn = "rollback"
                 THEN [txs EXCEPT ![call.obj].st = "rolled back"] ELSE txs
  /\ UNCHANGED stmts

----------------------------------------------------------------------------
Init ==
  /\ conn = [closed |-> FALSE, bad |-> FALSE, activeTx |-> None, autoTx |-> None,
             dirtyAutoTx |-> FALSE, freeHandles |-> <<>>]
  /\ stmts = [s \in StmtObj |-> NoStmt]
  /\ rows = [r \in RowsObj |-> NoRows]
  /\ txs = [t \in TxObj |-> [st |-> "none", handle |-> None]]
  /\ call = NoCall
  /\ srv = [SrvDown EXCEPT !.up = TRUE]
  /\ committed = {}
  /\ ledger = [c \in Change |-> [by |-> "none", ack |-> "none"]]

StatementCalls ==
  \E u \in Users :
    \/ \E typ \in StmtType, chg \in Change \cup {None} :
         ExecContext(typ, chg, u) \/ QueryContext(typ, chg, u)
    \/ \E typ \in StmtType : PrepareContext(typ, u)
    \/ \E s \in StmtObj, chg \in Change \cup {None} :
         StmtExecContext(s, chg, u) \/ StmtQueryContext(s, chg, u)

StatementSteps ==
  \/ getAutoTx \/ PrepareReuse \/ AllocateAndPrepare \/ Describe \/ Params
  \/ ExecuteAndCommitRetaining \/ Execute \/ ExecuteQuery \/ CommitRetaining
  \/ getRowsAffected

TxSteps ==
  \/ \E t \in TxObj : BeginTx(t) \/ Commit(t) \/ Rollback(t)
  \/ commitAutoTx \/ startTx \/ endCommit \/ endRollback

ObjectSteps ==
  \/ \E r \in RowsObj : RowsNext(r) \/ RowsClose(r)
  \/ \E s \in StmtObj : StmtClose(s)
  \/ fetch \/ freeRows \/ commitRows \/ recycleStmt

ConnSteps == Ping \/ pinged \/ Close \/ LinkDrops \/ TransportError

Next == StatementCalls \/ StatementSteps \/ TxSteps \/ ObjectSteps \/ ConnSteps \/ ResetSession

Spec == Init /\ [][Next]_vars
----------------------------------------------------------------------------
(* Properties *)

\* The variables have the types of the structs they stand for.
TypeOK ==
  /\ conn \in ConnType
  /\ stmts \in [StmtObj -> StmtRec]
  /\ rows \in [RowsObj -> RowsRec]
  /\ txs \in [TxObj -> TxRec]
  /\ call \in CallType
  /\ srv \in SrvType
  /\ committed \subseteq Change
  /\ ledger \in [Change -> Entry]

\* Part of the strengthening below: activeTx and autoTx are never both set.
\* Which transaction a statement ends up in is another question, the next one.
OneTransaction == conn.activeTx = None \/ conn.autoTx = None

\* A statement runs in the transaction its caller works in: what was asked for
\* in an explicit transaction is held by the server under the handle of that
\* transaction, and what was asked for in auto-commit mode is never in an open
\* explicit transaction.  The driver decides it by conn.activeTx alone
\* (ExecContext, QueryContext, stmt.ExecContext, stmt.QueryContext), which
\* BeginTx sets and Commit and Rollback clear for the whole connection.
RunsInItsTransaction ==
  srv.up => \A h \in TxHandle : \A c \in srv.pend[h] :
    /\ ledger[c].by \in TxObj => txs[ledger[c].by].handle = h
    /\ ledger[c].by = "auto" => \A t \in TxObj : txs[t].st = "open" => txs[t].handle # h

\* A connection marked bad keeps no transaction handle (markBadLocked), its
\* server side is gone, and so no later call can send anything to either.
BadIsDisconnected ==
  conn.bad => conn.activeTx = None /\ conn.autoTx = None /\ ~srv.up

\* The transaction handles the driver would use are transactions the server
\* still has open, however statements, commits and their errors interleave.
HandlesAreLive ==
  srv.up => {conn.activeTx, conn.autoTx} \subseteq srv.tx \cup {None}

\* What the caller was told is durable is durable: an auto-commit Exec that
\* returned a result, rows of an auto-commit DML closed without error, and the
\* statements of a transaction whose Commit returned nil.
AckedIsDurable ==
  \A c \in Change : ledger[c].ack = "ok" => c \in committed

\* A change made in an explicit transaction becomes durable only through
\* Commit of that transaction: not by a rows.Close, not by the auto-commit of
\* another statement, and never after Rollback.
OnlyCommitCommits ==
  \A c \in committed :
    ledger[c].by \in TxObj =>
      txs[ledger[c].by].st \in {"committing", "committed", "commit failed"}

\* database/sql runs a statement again on another connection when it gets
\* ErrBadConn; handleRetryableErrorLocked may say so only if the statement
\* has left no trace.
RetryIsSafe ==
  \A c \in Change : ledger[c].ack = "retry" => c \notin committed

\* Between two calls the auto-commit transaction holds nothing uncommitted,
\* unless rows are open that will commit it: what one user of the connection
\* left behind cannot be committed by the next one.
AutoTxIsClean ==
  (call = NoCall /\ srv.up /\ conn.autoTx # None
    /\ \A r \in RowsObj : ~(rows[r].open /\ rows[r].commitOnClose))
  => srv.pend[conn.autoTx] = {}

\* A pooled statement handle is in the pool once, the server knows it, and no
\* open stmt and no open rows use it: re-preparing it disturbs nobody.
PoolIsExclusive ==
  Usable /\ srv.up =>
    /\ Len(conn.freeHandles) <= MaxFreeHandles
    /\ \A i, j \in DOMAIN conn.freeHandles :
         conn.freeHandles[i] = conn.freeHandles[j] => i = j
    /\ \A i \in DOMAIN conn.freeHandles :
         /\ conn.freeHandles[i] \in srv.stmt
         /\ \A s \in StmtObj : stmts[s].open => stmts[s].handle # conn.freeHandles[i]
         /\ \A r \in RowsObj : rows[r].open => rows[r].handle # conn.freeHandles[i]

\* An auto-commit statement that reported an error, and whose change is not
\* durable then, never becomes durable later: the transaction that may hold
\* the change is abandoned by invalidateAutoTx and nothing commits it.
ErrorIsFinal ==
  [][\A c \in Change :
       ledger[c].by = "auto" /\ ledger[c].ack = "error" /\ c \notin committed
         => c \notin committed']_vars

\* A connection that is closed or bad never works again and never changes the
\* database again.
DeadStaysDead ==
  [][~Usable => committed' = committed /\ ~Usable']_vars

\* The strengthening that makes the invariants above inductive: open objects
\* and calls past their prepare hold a handle, a call in auto-commit mode runs
\* with no explicit transaction, BeginTx reaches op_transaction only after the
\* auto-commit transaction is gone, and a closed or bad connection has no
\* server side.
CallsAreConsistent ==
  /\ \A s \in StmtObj : stmts[s].open => stmts[s].handle # None
  /\ \A r \in RowsObj : rows[r].open => rows[r].handle # None
  /\ call.stage \in {"describe", "params", "lateAutoTx", "execute", "commitRetaining",
                     "info", "recycle"} => call.handle # None
  /\ call.stage = "getAutoTx" /\ call.stmt # None => call.handle # None
  /\ call.stage \in {"free", "commitOnClose"} =>
       call.rows \in RowsObj /\ rows[call.rows].handle # None
  /\ call.auto => conn.activeTx = None
  /\ call.stage = "start" => conn.autoTx = None
  /\ call.stage # "none" <=> call # NoCall
  /\ ~Usable => ~srv.up

SessionInv == TypeOK /\ CallsAreConsistent /\ OneTransaction /\ BadIsDisconnected
============================================================================
