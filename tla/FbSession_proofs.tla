------------------------- MODULE FbSession_proofs --------------------------
(***************************************************************************)
(* Theorems about FbSession, for every set of handles, objects and         *)
(* changes, in four parts:                                                 *)
(*   - types, and what any use of the connection keeps;                    *)
(*   - the pool of statement handles;                                      *)
(*   - transactions: the handles in use are live, a retry is safe;         *)
(*   - durability, for a connection used through database/sql's pool.      *)
(***************************************************************************)
EXTENDS FbSession, TLAPS

USE SessionAssumption

----------------------------------------------------------------------------
(* The functions of the driver's and the server's state stay in their types *)

\* markBadLocked, invalidateAutoTx and the pool keep the conn struct well-typed.
LEMMA ConnFunctions ==
  ASSUME NEW c \in ConnType, NEW h \in StmtHandle
  PROVE  /\ markBad(c) \in ConnType
         /\ invalidateAutoTx(c) \in ConnType
         /\ invalidateIfAuto(c) \in ConnType
         /\ recycle(c, h) \in ConnType
<1>1. markBad(c) \in ConnType
  BY DEF ConnType, markBad, OptTx
<1>2. invalidateAutoTx(c) \in ConnType
  BY DEF ConnType, invalidateAutoTx, OptTx
<1>3. recycle(c, h) \in ConnType
  <2>1. c.freeHandles \in Seq(StmtHandle)
    BY DEF ConnType
  <2>2. Append(c.freeHandles, h) \in Seq(StmtHandle)
    BY <2>1
  <2> QED
    BY <2>2 DEF ConnType, recycle
<1> QED BY <1>1, <1>2, <1>3 DEF invalidateIfAuto

\* What the driver sends keeps the server's bookkeeping well-typed.
LEMMA SrvFunctions ==
  ASSUME NEW s \in SrvType, NEW c, NEW h \in OptStmt, NEW t \in OptTx
  PROVE  /\ SrvDown \in SrvType
         /\ closeCursor(s, h) \in SrvType
         /\ drop(s, h) \in SrvType
         /\ dropIfAdHoc(s) \in SrvType
         /\ srvRecycle(c, s, h) \in SrvType
         /\ afterCommit(s, t) \in SrvType
BY DEF SrvType, SrvDown, closeCursor, drop, dropIfAdHoc, srvRecycle, afterCommit,
       OptStmt, OptTx

\* The next round trip of a method is again a round trip.
LEMMA AdvanceType ==
  ASSUME NEW c \in CallType
  PROVE  Advance(c) \in CallType
<1>1. nextStage(c) \in Stage
  BY DEF nextStage, Stage
<1> QED BY <1>1 DEF CallType, Advance

\* No method in progress is a well-typed call.
LEMMA NoCallType == NoCall \in CallType
BY DEF NoCall, CallType, Fn, Stage, OptTx, OptStmt, StmtType

\* A method that returns leaves call and ledger well-typed.
LEMMA ReturnType ==
  ASSUME TypeOK, NEW ack \in Ack, Return(ack)
  PROVE  call' \in CallType /\ ledger' \in [Change -> Entry]
BY NoCallType DEF TypeOK, Return, Settle, Entry

\* A method that fails leaves call, ledger and the objects well-typed.
LEMMA FailType ==
  ASSUME TypeOK, NEW c \in ConnType, NEW s \in SrvType, Fail(c, s),
         committed' \subseteq Change
  PROVE  TypeOK'
BY ReturnType DEF TypeOK, Fail, Ack

----------------------------------------------------------------------------
(* Every action preserves the invariant *)

\* What a start action of a statement does to call and ledger is well-typed.
LEMMA EnterInv ==
  ASSUME SessionInv, call = NoCall,
         NEW fn \in Fn, NEW typ \in StmtType, NEW chg \in Change \cup {None},
         NEW s \in StmtObj \cup {None}, NEW h \in OptStmt,
         NEW stage \in {"getAutoTx", "prepare", "params"},
         s # None => h # None,
         stage = "params" => h # None,
         Enter(fn, typ, chg, s, h, stage),
         ledger' \in [Change -> Entry]
  PROVE  SessionInv'
<1> USE DEF SessionInv, Enter
<1>1. currentTx \in OptTx
  BY DEF currentTx, TypeOK, ConnType, OptTx
<1>2. call' \in CallType
  BY <1>1 DEF CallType, Stage
<1>3. TypeOK'
  BY <1>2 DEF TypeOK
<1>4. CallsAreConsistent'
  BY DEF CallsAreConsistent, Usable, NoCall
<1>5. OneTransaction' /\ BadIsDisconnected'
  BY DEF OneTransaction, BadIsDisconnected
<1> QED BY <1>3, <1>4, <1>5

\* Asking for a change only writes a well-typed entry of the ledger.
LEMMA AsksForType ==
  ASSUME TypeOK, NEW typ, NEW chg, NEW u \in Users, AsksFor(typ, chg, u)
  PROVE  ledger' \in [Change -> Entry]
BY DEF TypeOK, AsksFor, Users, Entry, Ack

\* Exec, Query and Prepare, ad hoc or prepared, start with the invariant.
LEMMA StatementCallsInv ==
  ASSUME SessionInv, StatementCalls
  PROVE  SessionInv'
<1>1. PICK u \in Users :
        \/ \E typ \in StmtType, chg \in Change \cup {None} :
             ExecContext(typ, chg, u) \/ QueryContext(typ, chg, u)
        \/ \E typ \in StmtType : PrepareContext(typ, u)
        \/ \E s \in StmtObj, chg \in Change \cup {None} :
             StmtExecContext(s, chg, u) \/ StmtQueryContext(s, chg, u)
  BY DEF StatementCalls
<1>2. TypeOK /\ (MayCall(u) => call = NoCall)
  BY DEF SessionInv, MayCall
<1>3. AutoTxOr("prepare") \in {"getAutoTx", "prepare", "params"}
      /\ AutoTxOr("params") \in {"getAutoTx", "prepare", "params"}
      /\ AutoTxOr("prepare") # "params"
  BY DEF AutoTxOr
<1>4. ASSUME NEW typ \in StmtType, NEW chg \in Change \cup {None}, ExecContext(typ, chg, u)
      PROVE  SessionInv'
  <2>1. ledger' \in [Change -> Entry]
    BY <1>2, <1>4, AsksForType DEF ExecContext
  <2>2. call = NoCall
    BY <1>2, <1>4 DEF ExecContext
  <2>3. \E stage \in {"getAutoTx", "prepare"}, fn \in Fn :
          Enter(fn, typ, chg, None, None, stage)
    BY <1>3, <1>4 DEF ExecContext, Fn
  <2> QED BY <2>1, <2>2, <2>3, EnterInv DEF OptStmt
<1>5. ASSUME NEW typ \in StmtType, NEW chg \in Change \cup {None}, QueryContext(typ, chg, u)
      PROVE  SessionInv'
  <2>1. ledger' \in [Change -> Entry]
    BY <1>2, <1>5, AsksForType DEF QueryContext
  <2>2. call = NoCall
    BY <1>2, <1>5 DEF QueryContext
  <2>3. \E stage \in {"getAutoTx", "prepare"}, fn \in Fn :
          Enter(fn, typ, chg, None, None, stage)
    BY <1>3, <1>5 DEF QueryContext, Fn
  <2> QED BY <2>1, <2>2, <2>3, EnterInv DEF OptStmt
<1>6. ASSUME NEW typ \in StmtType, PrepareContext(typ, u)
      PROVE  SessionInv'
  <2>1. ledger' \in [Change -> Entry]
    BY <1>2, <1>6 DEF PrepareContext, TypeOK
  <2>2. call = NoCall
    BY <1>2, <1>6 DEF PrepareContext
  <2>3. \E stage \in {"getAutoTx", "prepare"}, fn \in Fn :
          Enter(fn, typ, None, None, None, stage)
    BY <1>3, <1>6 DEF PrepareContext, Fn
  <2> QED BY <2>1, <2>2, <2>3, EnterInv DEF OptStmt
<1>7. ASSUME NEW s \in StmtObj, NEW chg \in Change \cup {None},
             StmtExecContext(s, chg, u) \/ StmtQueryContext(s, chg, u)
      PROVE  SessionInv'
  <2>1. ledger' \in [Change -> Entry]
    BY <1>2, <1>7, AsksForType DEF StmtExecContext, StmtQueryContext
  <2>2. stmts[s].typ \in StmtType /\ stmts[s].handle \in OptStmt /\ stmts[s].handle # None
    BY <1>2, <1>7 DEF StmtExecContext, StmtQueryContext, TypeOK, StmtRec, SessionInv,
                      CallsAreConsistent
  <2>3. call = NoCall
    BY <1>2, <1>7 DEF StmtExecContext, StmtQueryContext
  <2>4. \E stage \in {"getAutoTx", "prepare", "params"}, fn \in Fn :
          Enter(fn, stmts[s].typ, chg, s, stmts[s].handle, stage)
    BY <1>3, <1>7 DEF StmtExecContext, StmtQueryContext, Fn
  <2> QED BY <2>1, <2>2, <2>3, <2>4, EnterInv
<1> QED BY <1>1, <1>4, <1>5, <1>6, <1>7

\* The handle a call works with, where it has one.
LEMMA CallHandle ==
  ASSUME SessionInv,
         call.stage \in {"describe", "params", "lateAutoTx", "execute",
                        "commitRetaining", "info", "recycle"}
  PROVE  call.handle \in StmtHandle
BY DEF SessionInv, TypeOK, CallType, OptStmt, CallsAreConsistent

\* A failing method keeps the invariant if it keeps activeTx, closed and bad,
\* at most forgets the auto-commit transaction, and does not revive the link.
LEMMA FailInv ==
  ASSUME SessionInv, NEW c \in ConnType, NEW s \in SrvType, Fail(c, s),
         committed' \subseteq Change,
         c.closed = conn.closed, c.bad = conn.bad, c.activeTx = conn.activeTx,
         c.autoTx \in {conn.autoTx, None}, s.up = srv.up
  PROVE  SessionInv'
<1>1. TypeOK'
  BY FailType DEF SessionInv
<1>2. conn' = c /\ srv' = s /\ call' = NoCall /\ UNCHANGED <<stmts, rows, txs>>
  BY DEF Fail, Return
<1>3. CallsAreConsistent'
  BY <1>2 DEF SessionInv, CallsAreConsistent, Usable, NoCall
<1>4. OneTransaction' /\ BadIsDisconnected'
  BY <1>2 DEF SessionInv, OneTransaction, BadIsDisconnected
<1> QED BY <1>1, <1>3, <1>4 DEF SessionInv

\* The conn structs that methods fail with satisfy FailInv's conditions.
LEMMA KeptFields ==
  ASSUME NEW c \in ConnType, NEW h
  PROVE  /\ invalidateAutoTx(c).closed = c.closed /\ invalidateAutoTx(c).bad = c.bad
         /\ invalidateAutoTx(c).activeTx = c.activeTx /\ invalidateAutoTx(c).autoTx = None
         /\ invalidateIfAuto(c).closed = c.closed /\ invalidateIfAuto(c).bad = c.bad
         /\ invalidateIfAuto(c).activeTx = c.activeTx
         /\ invalidateIfAuto(c).autoTx \in {c.autoTx, None}
         /\ recycle(c, h).closed = c.closed /\ recycle(c, h).bad = c.bad
         /\ recycle(c, h).activeTx = c.activeTx /\ recycle(c, h).autoTx = c.autoTx
BY DEF ConnType, invalidateAutoTx, invalidateIfAuto, recycle

\* What the server is sent when a method fails does not revive the link.
LEMMA KeptLink ==
  ASSUME NEW s \in SrvType, NEW c, NEW h, NEW t
  PROVE  /\ drop(s, h).up = s.up /\ dropIfAdHoc(s).up = s.up
         /\ closeCursor(s, h).up = s.up /\ srvRecycle(c, s, h).up = s.up
         /\ afterCommit(s, t).up = s.up
BY DEF SrvType, drop, dropIfAdHoc, closeCursor, srvRecycle, afterCommit

\* A method that goes on to its next round trip.
LEMMA AdvanceInv ==
  ASSUME SessionInv, NEW t \in OptTx, NEW h \in OptStmt,
         call' = [Advance(call) EXCEPT !.tx = t, !.handle = h],
         call.stage \in {"getAutoTx", "lateAutoTx", "prepare", "describe", "params",
                        "execute", "commitRetaining"},
         call.handle # None => h # None,
         call.stage = "prepare" => h # None,
         conn' \in ConnType, srv' \in SrvType, committed' \subseteq Change,
         conn'.closed = conn.closed, conn'.bad = conn.bad,
         conn'.activeTx = conn.activeTx,
         conn'.autoTx = conn.autoTx \/ call.auto, srv'.up = srv.up,
         srv.up \/ conn'.autoTx = conn.autoTx,
         UNCHANGED <<stmts, rows, txs, ledger>>
  PROVE  SessionInv'
<1>1. call' \in CallType
  BY AdvanceType DEF SessionInv, TypeOK, CallType
<1>2. TypeOK'
  BY <1>1 DEF SessionInv, TypeOK
<1>3. /\ call'.stage = nextStage(call) /\ call'.handle = h
      /\ call'.auto = call.auto /\ call'.stmt = call.stmt
  BY DEF SessionInv, TypeOK, CallType, Advance
<1>4. CallsAreConsistent'
  <2>1. nextStage(call) \in {"prepare", "params", "describe", "lateAutoTx", "execute",
                            "commitRetaining", "info"}
        /\ (nextStage(call) = "prepare" \/ h # None)
    BY DEF nextStage, SessionInv, CallsAreConsistent
  <2> QED BY <1>3, <2>1 DEF SessionInv, CallsAreConsistent, Usable, NoCall
<1>5. OneTransaction' /\ BadIsDisconnected'
  BY DEF SessionInv, OneTransaction, BadIsDisconnected, CallsAreConsistent
<1> QED BY <1>2, <1>4, <1>5 DEF SessionInv

\* The three ways a call goes on, in the form of AdvanceInv.
LEMMA AdvanceForms ==
  ASSUME NEW c \in CallType, NEW t, NEW h
  PROVE  /\ Advance(c) = [Advance(c) EXCEPT !.tx = c.tx, !.handle = c.handle]
         /\ [Advance(c) EXCEPT !.tx = t]
              = [Advance(c) EXCEPT !.tx = t, !.handle = c.handle]
         /\ [Advance(c) EXCEPT !.handle = h]
              = [Advance(c) EXCEPT !.tx = c.tx, !.handle = h]
BY DEF CallType, Advance

\* getAutoTx starts a transaction only if there is no explicit one.
LEMMA getAutoTxInv == ASSUME SessionInv, getAutoTx PROVE SessionInv'
<1> USE DEF getAutoTx, At
<1>1. conn \in ConnType /\ srv \in SrvType /\ call \in CallType /\ committed' \subseteq Change
  BY DEF SessionInv, TypeOK
<1>2. CASE Fail(conn, srv)
  BY <1>1, <1>2, FailInv
<1>3. ASSUME NEW h \in TxHandle \ srv.tx,
             srv' = [srv EXCEPT !.tx = @ \cup {h}],
             conn' = [conn EXCEPT !.autoTx = h],
             call' = [Advance(call) EXCEPT !.tx = h],
             UNCHANGED <<stmts, rows, txs, ledger>>
      PROVE  SessionInv'
  <2>1. conn' \in ConnType /\ conn'.closed = conn.closed /\ conn'.bad = conn.bad
        /\ conn'.activeTx = conn.activeTx
    BY <1>1, <1>3 DEF ConnType, OptTx
  <2>2. srv' \in SrvType /\ srv'.up = srv.up
    BY <1>1, <1>3 DEF SrvType
  <2>3. call' = [Advance(call) EXCEPT !.tx = h, !.handle = call.handle]
        /\ call.handle \in OptStmt /\ h \in OptTx
    BY <1>1, <1>3, AdvanceForms DEF CallType, OptTx
  <2> QED BY <1>1, <1>3, <2>1, <2>2, <2>3, AdvanceInv
<1> QED BY <1>2, <1>3

\* Preparing a pooled handle again takes it out of the pool.
LEMMA PrepareReuseInv == ASSUME SessionInv, PrepareReuse PROVE SessionInv'
<1> DEFINE n == Len(conn.freeHandles)
           c == [conn EXCEPT !.freeHandles = SubSeq(@, 1, n - 1)]
<1>1. conn \in ConnType /\ srv \in SrvType /\ call \in CallType /\ committed' \subseteq Change
  BY DEF SessionInv, TypeOK, PrepareReuse
<1>2. conn.freeHandles[n] \in StmtHandle /\ SubSeq(conn.freeHandles, 1, n - 1) \in Seq(StmtHandle)
  <2>1. conn.freeHandles \in Seq(StmtHandle) /\ conn.freeHandles # <<>>
    BY <1>1 DEF ConnType, PrepareReuse
  <2>2. n \in Nat /\ n >= 1
    BY <2>1
  <2> QED BY <2>1, <2>2
<1>3. /\ c \in ConnType /\ c.closed = conn.closed /\ c.bad = conn.bad
      /\ c.activeTx = conn.activeTx /\ c.autoTx = conn.autoTx
  BY <1>1, <1>2 DEF ConnType
<1>4. CASE Fail(invalidateIfAuto(c), srv)
  <2>1. invalidateIfAuto(c) \in ConnType
    BY <1>3 DEF invalidateIfAuto, invalidateAutoTx, ConnType, OptTx
  <2> HIDE DEF c
  <2> QED BY <1>1, <1>3, <1>4, <2>1, KeptFields, FailInv
<1>5. CASE /\ conn' = c
           /\ call' = [Advance(call) EXCEPT !.handle = conn.freeHandles[n]]
           /\ UNCHANGED <<stmts, rows, txs, srv, ledger>>
  <2>1. call' = [Advance(call) EXCEPT !.tx = call.tx, !.handle = conn.freeHandles[n]]
        /\ call.tx \in OptTx /\ conn.freeHandles[n] \in OptStmt /\ conn.freeHandles[n] # None
    BY <1>1, <1>2, <1>5, AdvanceForms DEF CallType, OptStmt
  <2>2. call.stage = "prepare" /\ srv'.up = srv.up
    BY <1>5 DEF PrepareReuse, At
  <2> HIDE DEF c
  <2> QED BY <1>1, <1>3, <1>5, <2>1, <2>2, AdvanceInv
<1> QED BY <1>4, <1>5 DEF PrepareReuse

\* Allocating and preparing gives the call a handle, or forgets the auto-
\* commit transaction.
LEMMA AllocateAndPrepareInv == ASSUME SessionInv, AllocateAndPrepare PROVE SessionInv'
<1>1. conn \in ConnType /\ srv \in SrvType /\ call \in CallType /\ committed' \subseteq Change
  BY DEF SessionInv, TypeOK, AllocateAndPrepare
<1>2. invalidateIfAuto(conn) \in ConnType
  BY <1>1 DEF invalidateIfAuto, invalidateAutoTx, ConnType, OptTx
<1>3. CASE Fail(invalidateIfAuto(conn), srv)
  BY <1>1, <1>2, <1>3, KeptFields, FailInv
<1>4. ASSUME NEW h \in StmtHandle \ srv.stmt, NEW s, s = [srv EXCEPT !.stmt = @ \cup {h}],
             \/ /\ srv' = s
                /\ call' = [Advance(call) EXCEPT !.handle = h]
                /\ UNCHANGED <<conn, stmts, rows, txs, ledger>>
             \/ Fail(invalidateIfAuto(conn), s)
      PROVE  SessionInv'
  <2>1. s \in SrvType /\ s.up = srv.up
    BY <1>1, <1>4 DEF SrvType
  <2>2. CASE Fail(invalidateIfAuto(conn), s)
    BY <1>1, <1>2, <2>1, <2>2, KeptFields, FailInv
  <2>3. CASE /\ srv' = s
             /\ call' = [Advance(call) EXCEPT !.handle = h]
             /\ UNCHANGED <<conn, stmts, rows, txs, ledger>>
    <3>1. call' = [Advance(call) EXCEPT !.tx = call.tx, !.handle = h]
          /\ call.tx \in OptTx /\ h \in OptStmt /\ h # None
      BY <1>1, <1>4, <2>3, AdvanceForms DEF CallType, OptStmt
    <3>2. call.stage = "prepare"
      BY DEF AllocateAndPrepare, At
    <3> QED BY <1>1, <2>1, <2>3, <3>1, <3>2, AdvanceInv
  <2> QED BY <1>4, <2>2, <2>3
<1> QED BY <1>3, <1>4 DEF AllocateAndPrepare

\* Describing ends PrepareContext with a stmt that has a handle, or pools the
\* handle.
LEMMA DescribeInv == ASSUME SessionInv, Describe PROVE SessionInv'
<1>1. /\ conn \in ConnType /\ srv \in SrvType /\ call \in CallType
      /\ committed' \subseteq Change /\ call.handle \in StmtHandle /\ call.stage = "describe"
  BY CallHandle DEF SessionInv, TypeOK, Describe, At
<1>2. CASE Fail(recycle(conn, call.handle), srvRecycle(conn, srv, call.handle))
  <2>1. recycle(conn, call.handle) \in ConnType
        /\ srvRecycle(conn, srv, call.handle) \in SrvType
    BY <1>1, ConnFunctions, SrvFunctions DEF OptStmt, OptTx
  <2> QED BY <1>1, <1>2, <2>1, KeptFields, KeptLink, FailInv
<1>3. CASE /\ call' = Advance(call)
           /\ UNCHANGED <<conn, stmts, rows, txs, srv, ledger>>
  <2>1. call' = [Advance(call) EXCEPT !.tx = call.tx, !.handle = call.handle]
        /\ call.tx \in OptTx /\ call.handle \in OptStmt /\ call.handle # None
    BY <1>1, <1>3, AdvanceForms DEF CallType, OptStmt
  <2> QED BY <1>1, <1>3, <2>1, AdvanceInv
<1>4. CASE /\ call.fn = "prepare"
           /\ \E s \in StmtObj :
                /\ ~stmts[s].open
                /\ stmts' = [stmts EXCEPT ![s] =
                               [open |-> TRUE, handle |-> call.handle, typ |-> call.typ]]
           /\ Return("open")
           /\ UNCHANGED <<conn, rows, txs, srv>>
  <2>1. PICK s \in StmtObj : stmts' = [stmts EXCEPT ![s] =
               [open |-> TRUE, handle |-> call.handle, typ |-> call.typ]]
    BY <1>4
  <2>2. call' \in CallType /\ ledger' \in [Change -> Entry] /\ call' = NoCall
    BY <1>4, ReturnType DEF SessionInv, Ack, Return
  <2>3. stmts' \in [StmtObj -> StmtRec]
    BY <1>1, <2>1 DEF SessionInv, TypeOK, StmtRec, CallType
  <2>4. TypeOK'
    BY <1>1, <1>4, <2>2, <2>3 DEF SessionInv, TypeOK
  <2>5. \A q \in StmtObj : stmts'[q].open => stmts'[q].handle # None
    BY <1>1, <2>1 DEF SessionInv, CallsAreConsistent, TypeOK
  <2>6. CallsAreConsistent'
    BY <1>4, <2>2, <2>5 DEF SessionInv, CallsAreConsistent, Usable, NoCall
  <2> QED BY <1>4, <2>4, <2>6 DEF SessionInv, OneTransaction, BadIsDisconnected
<1> QED BY <1>2, <1>3, <1>4 DEF Describe

\* Encoding the parameters touches no transaction but an abandoned one.
LEMMA ParamsInv == ASSUME SessionInv, Params PROVE SessionInv'
<1>1. /\ conn \in ConnType /\ srv \in SrvType /\ call \in CallType
      /\ committed' \subseteq Change /\ call.handle \in StmtHandle /\ call.stage = "params"
  BY CallHandle DEF SessionInv, TypeOK, Params, At
<1>2. CASE Fail(invalidateIfAuto(conn), dropIfAdHoc(srv))
  <2>1. invalidateIfAuto(conn) \in ConnType /\ dropIfAdHoc(srv) \in SrvType
    BY <1>1, ConnFunctions, SrvFunctions DEF OptStmt, OptTx
  <2> QED BY <1>1, <1>2, <2>1, KeptFields, KeptLink, FailInv
<1>3. CASE /\ call' = Advance(call)
           /\ UNCHANGED <<conn, stmts, rows, txs, srv, ledger>>
  <2>1. call' = [Advance(call) EXCEPT !.tx = call.tx, !.handle = call.handle]
        /\ call.tx \in OptTx /\ call.handle \in OptStmt /\ call.handle # None
    BY <1>1, <1>3, AdvanceForms DEF CallType, OptStmt
  <2> QED BY <1>1, <1>3, <2>1, AdvanceInv
<1> QED BY <1>2, <1>3 DEF Params

\* Running a statement adds its change to a transaction, and maybe a cursor.
LEMMA afterExecuteType ==
  ASSUME SessionInv, call.handle \in StmtHandle
  PROVE  afterExecute(srv) \in SrvType /\ afterExecute(srv).up = srv.up
<1>1. Changes(call.chg) \subseteq Change
  BY DEF Changes, SessionInv, TypeOK, CallType
<1>2. srv \in SrvType
  BY DEF SessionInv, TypeOK
<1> QED BY <1>1, <1>2 DEF afterExecute, SrvType

\* A commit empties its transaction; a hard commit also ends it.
LEMMA afterCommitType ==
  ASSUME NEW s \in SrvType, NEW t
  PROVE  /\ afterCommit(s, t) \in SrvType /\ afterCommit(s, t).up = s.up
         /\ afterEnd(s, t) \in SrvType /\ afterEnd(s, t).up = s.up
BY DEF SrvType, afterCommit, afterEnd

\* Transactions only hold known changes.
LEMMA PendType ==
  ASSUME NEW s \in SrvType, NEW h \in TxHandle
  PROVE  s.pend[h] \subseteq Change
BY DEF SrvType

\* The batch of execute and commit keeps the auto-commit transaction or
\* abandons it.
LEMMA ExecuteAndCommitRetainingInv ==
  ASSUME SessionInv, ExecuteAndCommitRetaining PROVE SessionInv'
<1>1. /\ conn \in ConnType /\ srv \in SrvType /\ call \in CallType /\ srv.up
      /\ committed \subseteq Change /\ call.handle \in StmtHandle /\ call.stage = "execute"
  BY CallHandle DEF SessionInv, TypeOK, ExecuteAndCommitRetaining, At
<1>2. PICK executed, done \in BOOLEAN :
        LET s == IF executed THEN afterExecute(srv) ELSE srv
            t == IF done THEN afterCommit(s, call.tx) ELSE s
        IN /\ executed => CanExecute
           /\ done => call.tx \in srv.tx
           /\ committed' = IF done THEN committed \cup s.pend[call.tx] ELSE committed
           /\ \/ /\ executed /\ done
                 /\ srv' = t
                 /\ call' = Advance(call)
                 /\ UNCHANGED <<conn, stmts, rows, txs, ledger>>
              \/ /\ ~(executed /\ done)
                 /\ Fail(invalidateAutoTx(conn), dropIfAdHoc(t))
  BY DEF ExecuteAndCommitRetaining
<1> DEFINE s == IF executed THEN afterExecute(srv) ELSE srv
           t == IF done THEN afterCommit(s, call.tx) ELSE s
<1>3. s \in SrvType /\ s.up = srv.up
  BY <1>1, afterExecuteType
<1>4. call.tx \in OptTx /\ (done => call.tx \in TxHandle)
  BY <1>1, <1>2 DEF CallType, SrvType
<1>5. committed' \subseteq Change
  BY <1>1, <1>2, <1>3, <1>4, PendType
<1>6. t \in SrvType /\ t.up = srv.up
  BY <1>1, <1>3, <1>4, SrvFunctions, KeptLink DEF OptStmt
<1>7. dropIfAdHoc(t) \in SrvType /\ dropIfAdHoc(t).up = srv.up
  BY <1>1, <1>4, <1>6, SrvFunctions, KeptLink DEF OptStmt
<1> HIDE DEF s, t
<1>8. CASE Fail(invalidateAutoTx(conn), dropIfAdHoc(t))
  BY <1>1, <1>5, <1>7, <1>8, ConnFunctions, KeptFields, FailInv
<1>9. CASE srv' = t /\ call' = Advance(call) /\ UNCHANGED <<conn, stmts, rows, txs, ledger>>
  <2>1. call' = [Advance(call) EXCEPT !.tx = call.tx, !.handle = call.handle]
        /\ call.tx \in OptTx /\ call.handle \in OptStmt /\ call.handle # None
    BY <1>1, <1>9, AdvanceForms DEF CallType, OptStmt
  <2> QED BY <1>1, <1>5, <1>6, <1>9, <2>1, AdvanceInv
<1> QED BY <1>2, <1>8, <1>9 DEF s, t

\* Executing inside a transaction, or a procedure, starts and ends none.
LEMMA ExecuteInv == ASSUME SessionInv, Execute PROVE SessionInv'
<1>1. /\ conn \in ConnType /\ srv \in SrvType /\ call \in CallType
      /\ committed' \subseteq Change /\ call.handle \in StmtHandle /\ call.stage = "execute"
  BY CallHandle DEF SessionInv, TypeOK, Execute, At
<1>2. CASE Fail(invalidateIfAuto(conn), dropIfAdHoc(srv))
  <2>1. invalidateIfAuto(conn) \in ConnType /\ dropIfAdHoc(srv) \in SrvType
    BY <1>1, ConnFunctions, SrvFunctions DEF OptStmt, OptTx
  <2> QED BY <1>1, <1>2, <2>1, KeptFields, KeptLink, FailInv
<1>3. CASE /\ srv' = afterExecute(srv)
           /\ call' = Advance(call)
           /\ UNCHANGED <<conn, stmts, rows, txs, ledger>>
  <2>1. call' = [Advance(call) EXCEPT !.tx = call.tx, !.handle = call.handle]
        /\ call.tx \in OptTx /\ call.handle \in OptStmt /\ call.handle # None
    BY <1>1, <1>3, AdvanceForms DEF CallType, OptStmt
  <2> QED BY <1>1, <1>3, <2>1, afterExecuteType, AdvanceInv
<1> QED BY <1>2, <1>3 DEF Execute

\* A query makes rows that hold a handle.
LEMMA ExecuteQueryInv == ASSUME SessionInv, ExecuteQuery PROVE SessionInv'
<1>1. /\ conn \in ConnType /\ srv \in SrvType /\ call \in CallType
      /\ committed' \subseteq Change /\ call.handle \in StmtHandle /\ call.stage = "execute"
  BY CallHandle DEF SessionInv, TypeOK, ExecuteQuery, At
<1>2. ASSUME NEW s \in {srv, afterExecute(srv)}, Fail(invalidateIfAuto(conn), dropIfAdHoc(s))
      PROVE  SessionInv'
  <2>0. s \in SrvType /\ s.up = srv.up
    BY <1>1, <1>2, afterExecuteType
  <2>1. invalidateIfAuto(conn) \in ConnType /\ dropIfAdHoc(s) \in SrvType
    BY <1>1, <2>0, ConnFunctions, SrvFunctions DEF OptStmt, OptTx
  <2> QED BY <1>1, <1>2, <2>0, <2>1, KeptFields, KeptLink, FailInv
<1>3. ASSUME NEW r \in RowsObj, srv' = afterExecute(srv), Return("open"),
             rows' = [rows EXCEPT ![r] =
                  [open |-> TRUE, handle |-> call.handle, tx |-> call.tx,
                   autoFree |-> autoFreeStmt,
                   commitOnClose |-> commitOnClose(call.auto, call.typ),
                   hasCursor |-> call.typ # "proc", chg |-> call.chg]],
             UNCHANGED <<conn, stmts, txs>>
      PROVE  SessionInv'
  <2>1. call' \in CallType /\ ledger' \in [Change -> Entry] /\ call' = NoCall
    BY <1>3, ReturnType DEF SessionInv, Ack, Return
  <2>2. rows' \in [RowsObj -> RowsRec]
    BY <1>1, <1>3 DEF SessionInv, TypeOK, RowsRec, CallType, autoFreeStmt, commitOnClose
  <2>3. srv' \in SrvType /\ srv'.up = srv.up
    BY <1>1, <1>3, afterExecuteType
  <2>4. TypeOK'
    BY <1>1, <1>3, <2>1, <2>2, <2>3 DEF SessionInv, TypeOK
  <2>5. \A q \in RowsObj : rows'[q].open => rows'[q].handle # None
    BY <1>1, <1>3 DEF SessionInv, CallsAreConsistent, TypeOK
  <2>6. CallsAreConsistent'
    BY <1>3, <2>1, <2>3, <2>5 DEF SessionInv, CallsAreConsistent, Usable, NoCall
  <2> QED BY <1>3, <2>3, <2>4, <2>6 DEF SessionInv, OneTransaction, BadIsDisconnected
<1> QED BY <1>2, <1>3 DEF ExecuteQuery

\* The commit after a procedure keeps the auto-commit transaction or abandons
\* it.
LEMMA CommitRetainingInv == ASSUME SessionInv, CommitRetaining PROVE SessionInv'
<1>1. /\ conn \in ConnType /\ srv \in SrvType /\ call \in CallType /\ srv.up
      /\ committed \subseteq Change /\ call.handle \in StmtHandle
      /\ call.stage = "commitRetaining"
  BY CallHandle DEF SessionInv, TypeOK, CommitRetaining, At
<1>2. CASE Fail(invalidateAutoTx(conn), dropIfAdHoc(srv)) /\ UNCHANGED committed
  <2>1. invalidateAutoTx(conn) \in ConnType /\ dropIfAdHoc(srv) \in SrvType
    BY <1>1, ConnFunctions, SrvFunctions DEF OptStmt, OptTx
  <2> QED BY <1>1, <1>2, <2>1, KeptFields, KeptLink, FailInv
<1>3. CASE /\ call.tx \in srv.tx
           /\ committed' = committed \cup srv.pend[call.tx]
           /\ srv' = afterCommit(srv, call.tx)
           /\ call' = Advance(call)
           /\ UNCHANGED <<conn, stmts, rows, txs, ledger>>
  <2>1. call' = [Advance(call) EXCEPT !.tx = call.tx, !.handle = call.handle]
        /\ call.tx \in OptTx /\ call.handle \in OptStmt /\ call.handle # None
    BY <1>1, <1>3, AdvanceForms DEF CallType, OptStmt
  <2>2. committed' \subseteq Change /\ srv' \in SrvType /\ srv'.up = srv.up
    BY <1>1, <1>3, <2>1, PendType, SrvFunctions, KeptLink DEF SrvType
  <2> QED BY <1>1, <1>3, <2>1, <2>2, AdvanceInv
<1> QED BY <1>2, <1>3 DEF CommitRetaining

\* A step that ends a method, or happens between methods, keeps the invariant
\* if it starts no transaction and revives neither the connection nor the link.
LEMMA QuietInv ==
  ASSUME SessionInv, TypeOK', call' = NoCall \/ UNCHANGED call,
         call' # NoCall => UNCHANGED <<rows, conn>>,
         \A s \in StmtObj : stmts'[s].open => stmts'[s].handle # None,
         \A r \in RowsObj : rows'[r].open => rows'[r].handle # None,
         conn'.activeTx \in {conn.activeTx, None}, conn'.autoTx \in {conn.autoTx, None},
         srv'.up => srv.up /\ conn'.closed = conn.closed /\ conn'.bad = conn.bad,
         conn'.bad => conn.bad \/ (conn'.activeTx = None /\ conn'.autoTx = None)
  PROVE  SessionInv'
<1>1. CallsAreConsistent'
  <2>1. CASE call' = NoCall
    BY <2>1 DEF SessionInv, CallsAreConsistent, Usable, NoCall
  <2>2. CASE call' # NoCall
    BY <2>2 DEF SessionInv, CallsAreConsistent, Usable
  <2> QED BY <2>1, <2>2
<1>2. OneTransaction'
  BY DEF SessionInv, OneTransaction
<1>3. BadIsDisconnected'
  BY DEF SessionInv, BadIsDisconnected, TypeOK, ConnType
<1> QED BY <1>1, <1>2, <1>3 DEF SessionInv

\* Asking for the row count pools an ad-hoc handle and nothing else.
LEMMA getRowsAffectedInv == ASSUME SessionInv, getRowsAffected PROVE SessionInv'
<1>1. /\ conn \in ConnType /\ srv \in SrvType /\ call \in CallType
      /\ call.handle \in StmtHandle
  BY CallHandle DEF SessionInv, TypeOK, getRowsAffected, At
<1>2. ExecAck \in Ack
  BY DEF ExecAck, Ack
<1>3. call' \in CallType /\ ledger' \in [Change -> Entry] /\ call' = NoCall
  BY <1>2, ReturnType DEF SessionInv, getRowsAffected, Return
<1>4. conn' \in ConnType /\ srv' \in SrvType
  BY <1>1, ConnFunctions, SrvFunctions DEF getRowsAffected, OptStmt, OptTx
<1>5. TypeOK'
  BY <1>3, <1>4 DEF SessionInv, TypeOK, getRowsAffected
<1>6. conn'.closed = conn.closed /\ conn'.bad = conn.bad /\ srv'.up = srv.up
      /\ conn'.activeTx = conn.activeTx /\ conn'.autoTx = conn.autoTx
  BY <1>1, KeptFields, KeptLink DEF getRowsAffected
<1>7. UNCHANGED <<stmts, rows, txs, committed>>
  BY DEF getRowsAffected
<1> QED BY <1>3, <1>5, <1>6, <1>7, QuietInv DEF SessionInv, CallsAreConsistent

\* The steps of a statement, together.
LEMMA StatementStepsInv == ASSUME SessionInv, StatementSteps PROVE SessionInv'
BY getAutoTxInv, PrepareReuseInv, AllocateAndPrepareInv, DescribeInv, ParamsInv,
   ExecuteAndCommitRetainingInv, ExecuteInv, ExecuteQueryInv, CommitRetainingInv,
   getRowsAffectedInv DEF StatementSteps

----------------------------------------------------------------------------
(* Transactions *)

\* BeginTx goes to op_transaction only when there is no auto-commit
\* transaction.
LEMMA BeginTxInv == ASSUME SessionInv, NEW t \in TxObj, BeginTx(t) PROVE SessionInv'
<1> USE DEF BeginTx
<1>1. call' \in CallType
  BY NoCallType DEF SessionInv, TypeOK, ConnType, CallType, Fn, Stage
<1>2. TypeOK'
  BY <1>1 DEF SessionInv, TypeOK
<1>3. call'.stage \in {"commitAuto", "start"} /\ call'.auto = FALSE
      /\ (call'.stage = "start" => conn.autoTx = None)
  BY DEF NoCall
<1>4. CallsAreConsistent'
  BY <1>3 DEF SessionInv, CallsAreConsistent, Usable, NoCall
<1> QED BY <1>2, <1>4 DEF SessionInv, OneTransaction, BadIsDisconnected

\* The commit of BeginTx ends the auto-commit transaction, also when it
\* fails.
LEMMA commitAutoTxInv == ASSUME SessionInv, commitAutoTx PROVE SessionInv'
<1>1. /\ conn \in ConnType /\ srv \in SrvType /\ call \in CallType /\ srv.up
      /\ committed \subseteq Change /\ call.stage = "commitAuto" /\ call.tx \in OptTx
  BY DEF SessionInv, TypeOK, commitAutoTx, At, CallType
<1>2. invalidateAutoTx(conn) \in ConnType
  BY <1>1 DEF invalidateAutoTx, ConnType, OptTx
<1>3. CASE Fail(invalidateAutoTx(conn), srv) /\ UNCHANGED committed
  BY <1>1, <1>2, <1>3, KeptFields, FailInv
<1>4. CASE /\ call.tx \in srv.tx
           /\ committed' = committed \cup srv.pend[call.tx]
           /\ srv' = afterEnd(srv, call.tx)
           /\ conn' = invalidateAutoTx(conn)
           /\ call' = Advance(call)
           /\ UNCHANGED <<stmts, rows, txs, ledger>>
  <2>1. srv' \in SrvType /\ srv'.up = srv.up
    BY <1>1, <1>4, afterCommitType
  <2>2. committed' \subseteq Change
    BY <1>1, <1>4, PendType DEF SrvType
  <2>3. call' \in CallType
    BY <1>1, <1>4, AdvanceType
  <2>4. TypeOK'
    BY <1>2, <1>4, <2>1, <2>2, <2>3 DEF SessionInv, TypeOK
  <2>5. call'.stage = "start" /\ call'.auto = call.auto
    BY <1>1, <1>4 DEF Advance, nextStage, CallType
  <2>6. conn'.closed = conn.closed /\ conn'.bad = conn.bad
        /\ conn'.activeTx = conn.activeTx /\ conn'.autoTx = None
    BY <1>1, <1>4, KeptFields
  <2>7. CallsAreConsistent'
    BY <1>4, <2>1, <2>5, <2>6 DEF SessionInv, CallsAreConsistent, Usable, NoCall
  <2> QED BY <1>1, <1>4, <2>1, <2>4, <2>6, <2>7
          DEF SessionInv, OneTransaction, BadIsDisconnected
<1> QED BY <1>3, <1>4 DEF commitAutoTx

\* op_transaction makes the explicit transaction the only one.
LEMMA startTxInv == ASSUME SessionInv, startTx PROVE SessionInv'
<1>1. /\ conn \in ConnType /\ srv \in SrvType /\ srv.up
      /\ committed' \subseteq Change /\ call.stage = "start"
  BY DEF SessionInv, TypeOK, startTx, At
<1>2. CASE Fail(conn, srv)
  BY <1>1, <1>2, FailInv
<1>3. ASSUME NEW h \in TxHandle \ srv.tx,
             srv' = [srv EXCEPT !.tx = @ \cup {h}],
             conn' = [conn EXCEPT !.activeTx = h],
             txs' = [txs EXCEPT ![call.obj] = [st |-> "open", handle |-> h]],
             Return("open"), UNCHANGED <<stmts, rows>>
      PROVE  SessionInv'
  <2>1. call' \in CallType /\ ledger' \in [Change -> Entry] /\ call' = NoCall
    BY <1>3, ReturnType DEF SessionInv, Ack, Return
  <2>2. conn' \in ConnType /\ conn'.closed = conn.closed /\ conn'.bad = conn.bad
        /\ conn'.autoTx = conn.autoTx
    BY <1>1, <1>3 DEF ConnType, OptTx
  <2>3. srv' \in SrvType /\ srv'.up = srv.up
    BY <1>1, <1>3 DEF SrvType
  <2>4. txs' \in [TxObj -> TxRec]
    BY <1>3 DEF SessionInv, TypeOK, TxRec, TxState, OptTx
  <2>5. TypeOK'
    BY <1>1, <1>3, <2>1, <2>2, <2>3, <2>4 DEF SessionInv, TypeOK
  <2>6. conn.autoTx = None
    BY <1>1 DEF SessionInv, CallsAreConsistent
  <2>7. CallsAreConsistent'
    BY <1>3, <2>1, <2>2, <2>3 DEF SessionInv, CallsAreConsistent, Usable, NoCall
  <2> QED BY <1>1, <2>2, <2>3, <2>5, <2>6, <2>7
          DEF SessionInv, OneTransaction, BadIsDisconnected
<1> QED BY <1>2, <1>3 DEF startTx

\* A method that is no statement starts: it opens nothing and may forget activeTx.
LEMMA StartInv ==
  ASSUME SessionInv, TypeOK', call'.auto = FALSE,
         call'.stage \in {"end", "free", "fetch", "recycle", "info database"},
         call'.stage = "recycle" => call'.handle # None,
         call'.stage = "free" => call'.rows \in RowsObj /\ rows'[call'.rows].handle # None,
         \A s \in StmtObj : stmts'[s].open => stmts'[s].handle # None,
         \A r \in RowsObj : rows'[r].open => rows'[r].handle # None,
         conn'.activeTx \in {conn.activeTx, None}, conn'.autoTx = conn.autoTx,
         conn'.closed = conn.closed, conn'.bad = conn.bad, srv' = srv
  PROVE  SessionInv'
<1>1. CallsAreConsistent'
  <2>1. call'.stage # "none" /\ call' # NoCall
    <3>1. call'.stage # "none"
      OBVIOUS
    <3>2. NoCall.stage = "none"
      BY DEF NoCall
    <3> QED BY <3>1, <3>2
  <2>2. (~Usable => ~srv.up)'
    BY DEF SessionInv, CallsAreConsistent, Usable
  <2>3. /\ call'.stage \notin {"describe", "params", "lateAutoTx", "execute",
                               "commitRetaining", "info"}
        /\ call'.stage \notin {"getAutoTx", "commitOnClose", "start"}
    OBVIOUS
  <2> QED BY <2>1, <2>2, <2>3 DEF CallsAreConsistent
<1>2. OneTransaction' /\ BadIsDisconnected'
  BY DEF SessionInv, OneTransaction, BadIsDisconnected
<1> QED BY <1>1, <1>2 DEF SessionInv

\* Commit and Rollback forget the active transaction, whatever comes of them.
LEMMA EndTxInv ==
  ASSUME SessionInv, NEW t \in TxObj, Commit(t) \/ Rollback(t) PROVE SessionInv'
<1>1. PICK fn \in {"commit", "rollback"},
           st \in TxState, failed \in TxState : EndTx(t, fn, st, failed)
  BY DEF Commit, Rollback, TxState
<1>2. conn \in ConnType /\ txs \in [TxObj -> TxRec]
  BY DEF SessionInv, TypeOK
<1>3. /\ conn' \in ConnType /\ conn'.closed = conn.closed /\ conn'.bad = conn.bad
      /\ conn'.activeTx = None /\ conn'.autoTx = conn.autoTx
  BY <1>1, <1>2 DEF EndTx, ConnType, OptTx
<1>4. txs' \in [TxObj -> TxRec]
  BY <1>1, <1>2 DEF EndTx, TxRec
<1>5. call' \in CallType
  BY <1>1, <1>2, NoCallType DEF EndTx, CallType, TxRec, Fn, Stage
<1>6. UNCHANGED <<stmts, rows, srv, committed, ledger>>
  BY <1>1 DEF EndTx
<1>7. TypeOK'
  BY <1>3, <1>4, <1>5, <1>6 DEF SessionInv, TypeOK
<1>8. CASE Usable
  <2>1. call'.auto = FALSE /\ call'.stage = "end"
    BY <1>1, <1>8 DEF EndTx, NoCall
  <2> QED BY <1>3, <1>6, <1>7, <2>1, StartInv DEF SessionInv, CallsAreConsistent
<1>9. CASE ~Usable
  <2>1. call' = NoCall
    BY <1>1, <1>9 DEF EndTx
  <2> QED BY <1>3, <1>6, <1>7, <2>1, QuietInv DEF SessionInv, CallsAreConsistent
<1> QED BY <1>8, <1>9

\* The state of a transaction object is all that ending it changes.
LEMMA TxsType ==
  ASSUME NEW f \in [TxObj -> TxRec], NEW t, NEW st \in TxState
  PROVE  [f EXCEPT ![t].st = st] \in [TxObj -> TxRec]
<1>1. ASSUME t \in TxObj PROVE [f[t] EXCEPT !.st = st] \in TxRec
  BY <1>1 DEF TxRec
<1> QED BY <1>1

\* The answer to op_commit or op_rollback ends the method.
LEMMA endTxInv == ASSUME SessionInv, endCommit \/ endRollback PROVE SessionInv'
<1>1. /\ srv \in SrvType /\ call.tx \in OptTx /\ committed \subseteq Change
      /\ txs \in [TxObj -> TxRec] /\ ledger \in [Change -> Entry]
  BY DEF SessionInv, TypeOK, CallType
<1>2. srv' \in SrvType /\ srv'.up = srv.up
  <2>1. srv' \in {srv, afterEnd(srv, call.tx)}
    BY DEF endCommit, endRollback
  <2> QED BY <1>1, <2>1, afterCommitType
<1>3. committed' \subseteq Change
  BY <1>1, PendType DEF endCommit, endRollback, SrvType
<1>4. txs' \in [TxObj -> TxRec]
  <2>1. PICK st \in TxState : txs' = [txs EXCEPT ![call.obj].st = st]
    BY DEF endCommit, endRollback, TxState
  <2> QED BY <1>1, <2>1, TxsType
<1>5. ledger' \in [Change -> Entry]
  <2>1. CommitAcks(call.obj) \in [Change -> Entry]
    BY <1>1 DEF CommitAcks, Entry, Ack
  <2> QED BY <1>1, <2>1 DEF endCommit, endRollback
<1>6. call' = NoCall /\ UNCHANGED <<conn, stmts, rows>>
  BY DEF endCommit, endRollback
<1>7. TypeOK'
  BY <1>2, <1>3, <1>4, <1>5, <1>6, NoCallType DEF SessionInv, TypeOK
<1> QED BY <1>2, <1>6, <1>7, QuietInv DEF SessionInv, CallsAreConsistent

\* The steps of explicit transactions, together.
LEMMA TxStepsInv == ASSUME SessionInv, TxSteps PROVE SessionInv'
BY BeginTxInv, commitAutoTxInv, startTxInv, EndTxInv, endTxInv DEF TxSteps

----------------------------------------------------------------------------
(* Rows, statements and the connection *)

\* Fetching from rows does not look at closed and bad, but opens nothing.
LEMMA RowsNextInv == ASSUME SessionInv, NEW r \in RowsObj, RowsNext(r) PROVE SessionInv'
<1>1. call' \in CallType /\ call'.auto = FALSE /\ call'.stage = "fetch"
  BY NoCallType DEF RowsNext, SessionInv, TypeOK, RowsRec, CallType, NoCall, Fn, Stage
<1>2. UNCHANGED <<conn, stmts, rows, txs, srv, committed, ledger>>
  BY DEF RowsNext
<1>3. TypeOK'
  BY <1>1, <1>2 DEF SessionInv, TypeOK
<1> QED BY <1>1, <1>2, <1>3, StartInv DEF SessionInv, CallsAreConsistent

\* A batch of rows and the answer to a ping change nothing.
LEMMA AnsweredInv == ASSUME SessionInv, fetch \/ pinged PROVE SessionInv'
<1>1. call' = NoCall /\ UNCHANGED <<conn, stmts, rows, txs, srv, committed, ledger>>
  BY DEF fetch, pinged
<1>2. TypeOK'
  BY <1>1, NoCallType DEF SessionInv, TypeOK
<1> QED BY <1>1, <1>2, QuietInv DEF SessionInv, CallsAreConsistent

\* Settling a change, or closing rows, keeps the ledger well-typed.
LEMMA LedgerType ==
  ASSUME TypeOK, NEW r, NEW chg, NEW ack \in Ack
  PROVE  Settle(chg, ack) \in [Change -> Entry] /\ CloseAck(r) \in [Change -> Entry]
<1>1. Settle(chg, ack) \in [Change -> Entry]
  BY DEF TypeOK, Settle, Entry
<1>2. Settle(rows[r].chg, "ok") \in [Change -> Entry]
  BY DEF TypeOK, Settle, Entry, Ack
<1> QED BY <1>1, <1>2 DEF CloseAck, TypeOK

\* Closed rows keep no handle.
LEMMA RowsType ==
  ASSUME TypeOK, NEW r
  PROVE  /\ [rows EXCEPT ![r] = NoRows] \in [RowsObj -> RowsRec]
         /\ [rows EXCEPT ![r].open = FALSE] \in [RowsObj -> RowsRec]
<1>1. NoRows \in RowsRec
  BY DEF NoRows, RowsRec, OptStmt, OptTx
<1>2. rows \in [RowsObj -> RowsRec]
  BY DEF TypeOK
<1>3. ASSUME NEW x \in RowsRec PROVE [x EXCEPT !.open = FALSE] \in RowsRec
  BY DEF RowsRec
<1> QED BY <1>1, <1>2, <1>3

\* Closing rows starts with their handle, or only forgets them.
LEMMA RowsCloseInv == ASSUME SessionInv, NEW r \in RowsObj, RowsClose(r) PROVE SessionInv'
<1>1. TypeOK /\ rows[r] \in RowsRec /\ rows[r].open /\ rows[r].handle # None
      /\ UNCHANGED <<conn, stmts, txs, srv, committed>>
  BY DEF SessionInv, TypeOK, CallsAreConsistent, RowsClose
<1>2. CASE Usable
  <2>1. /\ call' = [NoCall EXCEPT !.fn = "close rows", !.rows = r, !.tx = rows[r].tx,
                        !.chg = rows[r].chg, !.handle = rows[r].handle, !.stage = "free"]
        /\ rows' = [rows EXCEPT ![r].open = FALSE] /\ UNCHANGED ledger
    BY <1>2 DEF RowsClose
  <2>2. call' \in CallType /\ call'.auto = FALSE /\ call'.stage = "free" /\ call'.rows = r
    BY <1>1, <2>1, NoCallType DEF RowsRec, CallType, NoCall, Fn, Stage
  <2>3. TypeOK'
    BY <1>1, <2>1, <2>2, RowsType DEF TypeOK
  <2>4. /\ rows'[r].handle = rows[r].handle
        /\ \A q \in RowsObj : rows'[q].open => rows'[q].handle # None
    BY <1>1, <2>1 DEF SessionInv, CallsAreConsistent, TypeOK, RowsRec
  <2> QED BY <1>1, <2>2, <2>3, <2>4, StartInv DEF SessionInv, CallsAreConsistent
<1>3. CASE ~Usable
  <2>1. /\ ledger' = CloseAck(r) /\ rows' = [rows EXCEPT ![r] = NoRows]
        /\ call' = NoCall
    BY <1>3 DEF RowsClose
  <2>2. TypeOK'
    BY <1>1, <2>1, RowsType, LedgerType, NoCallType DEF TypeOK, Ack
  <2>3. \A q \in RowsObj : rows'[q].open => rows'[q].handle # None
    BY <1>1, <2>1 DEF SessionInv, CallsAreConsistent, TypeOK, NoRows
  <2> QED BY <1>1, <2>1, <2>2, <2>3, QuietInv DEF SessionInv, CallsAreConsistent
<1> QED BY <1>2, <1>3

\* The handle of closed rows is pooled, dropped, or left to its stmt.
LEMMA freeRowsInv == ASSUME SessionInv, freeRows PROVE SessionInv'
<1>1. /\ TypeOK /\ conn \in ConnType /\ srv \in SrvType /\ call \in CallType
      /\ call.stage = "free" /\ call.rows \in RowsObj /\ rows[call.rows].handle \in StmtHandle
      /\ UNCHANGED <<stmts, txs, committed>>
  BY DEF SessionInv, TypeOK, CallsAreConsistent, freeRows, At, RowsRec, OptStmt
<1>2. /\ conn' \in ConnType /\ conn'.closed = conn.closed /\ conn'.bad = conn.bad
      /\ conn'.activeTx = conn.activeTx /\ conn'.autoTx = conn.autoTx
  <2>1. conn' \in {conn, recycle(conn, rows[call.rows].handle)}
    BY DEF freeRows
  <2> QED BY <1>1, <2>1, ConnFunctions, KeptFields
<1>3. srv' \in SrvType /\ srv'.up = srv.up
  <2>1. PICK s \in {srv, closeCursor(srv, rows[call.rows].handle)} :
          srv' \in {s, srvRecycle(conn, s, rows[call.rows].handle)}
    BY DEF freeRows
  <2>2. s \in SrvType /\ s.up = srv.up
    BY <1>1, <2>1 DEF SrvType, closeCursor
  <2>3. srvRecycle(conn, s, rows[call.rows].handle) \in SrvType
        /\ srvRecycle(conn, s, rows[call.rows].handle).up = s.up
    BY <2>2 DEF SrvType, srvRecycle, drop
  <2> QED BY <2>1, <2>2, <2>3
<1>4. CASE call' = Advance(call) /\ UNCHANGED <<rows, ledger>>
  <2>1. call' \in CallType /\ call'.stage = "commitOnClose" /\ call'.rows = call.rows
        /\ call'.auto = call.auto
    BY <1>1, <1>4, AdvanceType DEF Advance, nextStage, CallType
  <2>2. TypeOK'
    BY <1>1, <1>2, <1>3, <1>4, <2>1 DEF TypeOK
  <2>3. CallsAreConsistent'
    BY <1>1, <1>2, <1>3, <1>4, <2>1 DEF SessionInv, CallsAreConsistent, Usable, NoCall
  <2> QED BY <1>2, <1>3, <2>2, <2>3 DEF SessionInv, OneTransaction, BadIsDisconnected
<1>5. CASE /\ call' = NoCall
           /\ ledger' = CloseAck(call.rows)
           /\ rows' = [rows EXCEPT ![call.rows] = NoRows]
  <2>1. TypeOK'
    BY <1>1, <1>2, <1>3, <1>5, RowsType, LedgerType, NoCallType DEF TypeOK, Ack
  <2>2. \A q \in RowsObj : rows'[q].open => rows'[q].handle # None
    BY <1>1, <1>5 DEF SessionInv, CallsAreConsistent, TypeOK, NoRows
  <2> QED BY <1>1, <1>2, <1>3, <1>5, <2>1, <2>2, QuietInv DEF SessionInv, CallsAreConsistent
<1> QED BY <1>4, <1>5 DEF freeRows

\* The commit of closed rows starts no transaction.
LEMMA commitRowsInv == ASSUME SessionInv, commitRows PROVE SessionInv'
<1>1. /\ TypeOK /\ conn \in ConnType /\ srv \in SrvType /\ call.tx \in OptTx
      /\ committed \subseteq Change /\ ledger \in [Change -> Entry]
      /\ call' = NoCall /\ rows' = [rows EXCEPT ![call.rows] = NoRows]
      /\ UNCHANGED <<stmts, txs>>
  BY DEF SessionInv, TypeOK, commitRows, CallType
<1>2. /\ conn' \in ConnType /\ conn'.closed = conn.closed /\ conn'.bad = conn.bad
      /\ conn'.activeTx = conn.activeTx /\ conn'.autoTx \in {conn.autoTx, None}
  BY <1>1 DEF commitRows, invalidateAutoTx, ConnType, OptTx
<1>3. srv' \in SrvType /\ srv'.up = srv.up
  <2>1. srv' \in {srv, afterCommit(srv, call.tx)}
    BY DEF commitRows
  <2> QED BY <1>1, <2>1, afterCommitType
<1>4. committed' \subseteq Change
  BY <1>1, PendType DEF commitRows, SrvType
<1>5. ledger' \in [Change -> Entry]
  BY <1>1, LedgerType DEF commitRows, Ack
<1>6. TypeOK'
  BY <1>1, <1>2, <1>3, <1>4, <1>5, RowsType, NoCallType DEF TypeOK
<1>7. \A q \in RowsObj : rows'[q].open => rows'[q].handle # None
  BY <1>1 DEF SessionInv, CallsAreConsistent, TypeOK, NoRows
<1> QED BY <1>1, <1>2, <1>3, <1>6, <1>7, QuietInv DEF SessionInv, CallsAreConsistent

\* Closing a stmt hands its handle to the call.
LEMMA StmtCloseInv == ASSUME SessionInv, NEW s \in StmtObj, StmtClose(s) PROVE SessionInv'
<1>1. /\ stmts \in [StmtObj -> StmtRec] /\ stmts[s].handle \in OptStmt
      /\ stmts[s].handle # None /\ stmts' = [stmts EXCEPT ![s] = NoStmt]
      /\ UNCHANGED <<conn, rows, txs, srv, committed, ledger>>
  BY DEF SessionInv, TypeOK, CallsAreConsistent, StmtClose, StmtRec
<1>2. stmts' \in [StmtObj -> StmtRec] /\ \A q \in StmtObj : stmts'[q].open => stmts'[q].handle # None
  BY <1>1 DEF NoStmt, StmtRec, OptStmt, StmtType, SessionInv, CallsAreConsistent
<1>3. CASE Usable
  <2>1. call' = [NoCall EXCEPT !.fn = "close stmt", !.handle = stmts[s].handle,
                               !.stage = "recycle"]
    BY <1>3 DEF StmtClose
  <2>2. call' \in CallType /\ call'.auto = FALSE /\ call'.stage = "recycle"
        /\ call'.handle # None
    BY <1>1, <2>1, NoCallType DEF CallType, NoCall, Fn, Stage
  <2>3. TypeOK'
    BY <1>1, <1>2, <2>2 DEF SessionInv, TypeOK
  <2> QED BY <1>1, <1>2, <2>2, <2>3, StartInv DEF SessionInv, CallsAreConsistent
<1>4. CASE ~Usable
  <2>1. call' = NoCall
    BY <1>4 DEF StmtClose
  <2>2. TypeOK'
    BY <1>1, <1>2, <2>1, NoCallType DEF SessionInv, TypeOK
  <2> QED BY <1>1, <1>2, <2>1, <2>2, QuietInv DEF SessionInv, CallsAreConsistent
<1> QED BY <1>3, <1>4

\* Pooling the handle of a closed stmt starts no transaction.
LEMMA recycleStmtInv == ASSUME SessionInv, recycleStmt PROVE SessionInv'
<1> DEFINE c == recycle(conn, call.handle)
           s == srvRecycle(conn, srv, call.handle)
<1>1. /\ conn \in ConnType /\ srv \in SrvType /\ call.handle \in StmtHandle
      /\ committed \subseteq Change
      /\ call' = NoCall /\ UNCHANGED <<stmts, rows, txs, ledger>>
  BY CallHandle DEF SessionInv, TypeOK, recycleStmt, At
<1>2. /\ c \in ConnType /\ c.closed = conn.closed /\ c.bad = conn.bad
      /\ c.activeTx = conn.activeTx /\ c.autoTx = conn.autoTx
  BY <1>1, ConnFunctions, KeptFields
<1>3. s \in SrvType /\ s.up = srv.up
  BY <1>1 DEF SrvType, srvRecycle, drop
<1>4. /\ conn' \in {c, [c EXCEPT !.dirtyAutoTx = FALSE], invalidateAutoTx(c)}
      /\ srv' \in {s, afterCommit(s, conn.autoTx)}
      /\ \/ committed' = committed
         \/ conn.autoTx \in srv.tx /\ committed' = committed \cup srv.pend[conn.autoTx]
  BY DEF recycleStmt
<1> HIDE DEF c, s
<1>5. /\ conn' \in ConnType /\ conn'.closed = conn.closed /\ conn'.bad = conn.bad
      /\ conn'.activeTx = conn.activeTx /\ conn'.autoTx \in {conn.autoTx, None}
  BY <1>2, <1>4 DEF ConnType, OptTx, invalidateAutoTx
<1>6. srv' \in SrvType /\ srv'.up = srv.up
  BY <1>3, <1>4, afterCommitType
<1>7. committed' \subseteq Change
  BY <1>1, <1>4, PendType DEF SrvType
<1>8. TypeOK'
  BY <1>1, <1>5, <1>6, <1>7, NoCallType DEF SessionInv, TypeOK
<1> QED BY <1>1, <1>5, <1>6, <1>8, QuietInv DEF SessionInv, CallsAreConsistent

\* The steps of rows and statement objects, together.
LEMMA ObjectStepsInv == ASSUME SessionInv, ObjectSteps PROVE SessionInv'
BY RowsNextInv, RowsCloseInv, StmtCloseInv, AnsweredInv, freeRowsInv, commitRowsInv,
   recycleStmtInv DEF ObjectSteps

\* A ping starts nothing but a round trip.
LEMMA PingInv == ASSUME SessionInv, Ping PROVE SessionInv'
<1>1. call' \in CallType /\ call'.auto = FALSE /\ call'.stage = "info database"
  BY NoCallType DEF Ping, CallType, NoCall, Fn, Stage
<1>2. UNCHANGED <<conn, stmts, rows, txs, srv, committed, ledger>>
  BY DEF Ping
<1>3. TypeOK'
  BY <1>1, <1>2 DEF SessionInv, TypeOK
<1> QED BY <1>1, <1>2, <1>3, StartInv DEF SessionInv, CallsAreConsistent

\* A link that is down, and a closed or a bad connection.
LEMMA DownInv ==
  ASSUME SessionInv, conn' \in ConnType, srv' = SrvDown,
         conn'.activeTx \in {conn.activeTx, None}, conn'.autoTx \in {conn.autoTx, None},
         conn'.bad => conn.bad \/ (conn'.activeTx = None /\ conn'.autoTx = None),
         call' = NoCall \/ UNCHANGED <<call, rows, conn>>,
         rows' \in [RowsObj -> RowsRec], txs' \in [TxObj -> TxRec],
         ledger' \in [Change -> Entry], committed' \subseteq Change,
         \A r \in RowsObj : rows'[r].open => rows'[r].handle # None,
         UNCHANGED stmts
  PROVE  SessionInv'
<1>1. srv' \in SrvType /\ ~srv'.up
  BY DEF SrvDown, SrvType
<1>2. TypeOK'
  BY <1>1, NoCallType DEF SessionInv, TypeOK
<1> QED BY <1>1, <1>2, QuietInv DEF SessionInv, CallsAreConsistent

\* ResetSession marks the connection bad and disconnects it.
LEMMA ResetSessionInv == ASSUME SessionInv, ResetSession PROVE SessionInv'
<1>1. conn \in ConnType /\ conn' = markBad(conn) /\ srv' = SrvDown /\ call' = NoCall
      /\ UNCHANGED <<stmts, rows, txs, committed, ledger>>
  BY DEF SessionInv, TypeOK, ResetSession
<1>2. /\ conn' \in ConnType
      /\ conn'.activeTx \in {conn.activeTx, None} /\ conn'.autoTx \in {conn.autoTx, None}
      /\ conn'.bad => conn.bad \/ (conn'.activeTx = None /\ conn'.autoTx = None)
  BY <1>1 DEF markBad, ConnType, OptTx
<1> QED BY <1>1, <1>2, DownInv DEF SessionInv, TypeOK, CallsAreConsistent

\* Close leaves neither a transaction nor a link.
LEMMA CloseInv == ASSUME SessionInv, Close PROVE SessionInv'
<1>1. /\ conn \in ConnType /\ srv \in SrvType /\ committed \subseteq Change
      /\ srv' = SrvDown /\ call' = NoCall /\ UNCHANGED <<stmts, rows, txs, ledger>>
  BY DEF SessionInv, TypeOK, Close
<1>2. /\ conn' \in ConnType
      /\ conn'.activeTx \in {conn.activeTx, None} /\ conn'.autoTx \in {conn.autoTx, None}
      /\ conn'.bad => conn.bad
  <2>1. CASE conn' = [conn EXCEPT !.closed = TRUE]
    BY <1>1, <2>1 DEF ConnType
  <2>2. CASE conn' = [conn EXCEPT !.closed = TRUE, !.autoTx = None, !.dirtyAutoTx = FALSE,
                                  !.freeHandles = <<>>]
    <3>1. <<>> \in Seq(StmtHandle)
      OBVIOUS
    <3> QED BY <1>1, <2>2, <3>1 DEF ConnType, OptTx
  <2> QED BY <2>1, <2>2 DEF Close
<1>3. committed' \subseteq Change
  BY <1>1, PendType DEF Close, SrvType
<1> QED BY <1>1, <1>2, <1>3, DownInv DEF SessionInv, TypeOK, CallsAreConsistent

\* Losing the link does not touch what the driver holds.
LEMMA LinkDropsInv == ASSUME SessionInv, LinkDrops PROVE SessionInv'
<1>1. srv' = SrvDown /\ UNCHANGED <<conn, stmts, rows, txs, call, committed, ledger>>
  BY DEF LinkDrops
<1> QED BY <1>1, DownInv DEF SessionInv, TypeOK, CallsAreConsistent, BadIsDisconnected

\* A transport error marks the connection bad, whichever method meets it.
LEMMA TransportErrorInv == ASSUME SessionInv, TransportError PROVE SessionInv'
<1>1. /\ TypeOK /\ conn \in ConnType /\ srv \in SrvType /\ committed \subseteq Change
      /\ conn' = markBad(pooledOnError) /\ srv' = SrvDown /\ call' = NoCall
      /\ UNCHANGED stmts
  BY DEF SessionInv, TypeOK, TransportError, Return
<1>2. /\ pooledOnError \in ConnType /\ pooledOnError.bad = conn.bad
      /\ pooledOnError.activeTx = conn.activeTx /\ pooledOnError.autoTx = conn.autoTx
  <2>1. CASE call.stage \in {"describe", "info"}
    <3>1. call.handle \in StmtHandle
      BY <2>1, CallHandle
    <3> QED BY <1>1, <3>1, ConnFunctions, KeptFields DEF pooledOnError
  <2>2. CASE call.stage \notin {"describe", "info"}
    BY <1>1, <2>2 DEF pooledOnError, At
  <2> QED BY <2>1, <2>2
<1>3. /\ conn' \in ConnType
      /\ conn'.activeTx \in {conn.activeTx, None} /\ conn'.autoTx \in {conn.autoTx, None}
      /\ conn'.bad => conn.bad \/ (conn'.activeTx = None /\ conn'.autoTx = None)
  BY <1>1, <1>2 DEF markBad, ConnType, OptTx
<1>4. committed' \subseteq Change
  <2>1. PICK done \in LostAnswer \cup {{}} : committed' = committed \cup done
    BY DEF TransportError
  <2>2. ASSUME call.tx \in srv.tx
        PROVE  srv.pend[call.tx] \subseteq Change /\ Changes(call.chg) \subseteq Change
    BY <1>1, <2>2, PendType DEF SrvType, Changes, TypeOK, CallType
  <2>3. done \subseteq Change
    BY <2>1, <2>2 DEF LostAnswer
  <2> QED BY <1>1, <2>1, <2>3
<1>5. rows' \in [RowsObj -> RowsRec] /\ \A r \in RowsObj : rows'[r].open => rows'[r].handle # None
  <2>1. rows' \in {rows, [rows EXCEPT ![call.rows] = NoRows]}
    BY DEF TransportError
  <2>2. rows \in [RowsObj -> RowsRec] /\ \A r \in RowsObj : rows[r].open => rows[r].handle # None
    BY <1>1 DEF SessionInv, TypeOK, CallsAreConsistent
  <2>3. CASE rows' = [rows EXCEPT ![call.rows] = NoRows]
    <3>1. rows' \in [RowsObj -> RowsRec]
      BY <1>1, <2>3, RowsType
    <3> QED BY <2>2, <2>3, <3>1 DEF NoRows
  <2> QED BY <2>1, <2>2, <2>3
<1>6. txs' \in [TxObj -> TxRec]
  <2>1. txs' = txs \/ \E st \in TxState : txs' = [txs EXCEPT ![call.obj].st = st]
    BY DEF TransportError, TxState
  <2>2. txs \in [TxObj -> TxRec]
    BY <1>1 DEF TypeOK
  <2>3. CASE \E st \in TxState : txs' = [txs EXCEPT ![call.obj].st = st]
    <3>1. PICK st \in TxState : txs' = [txs EXCEPT ![call.obj].st = st]
      BY <2>3
    <3> QED BY <2>2, <3>1, TxsType
  <2> QED BY <2>1, <2>2, <2>3
<1>7. ledger' \in [Change -> Entry]
  <2>1. \E ack \in Ack : Return(ack)
    BY DEF TransportError, ExecAck, ErrorKind, Ack
  <2> QED BY <1>1, <2>1, ReturnType
<1> QED BY <1>1, <1>3, <1>4, <1>5, <1>6, <1>7, DownInv

----------------------------------------------------------------------------
(* The theorems *)

\* Every step of the session preserves the inductive invariant.
LEMMA StepInv == ASSUME SessionInv, [Next]_vars PROVE SessionInv'
<1>1. CASE UNCHANGED vars
  BY <1>1 DEF vars, SessionInv, TypeOK, CallsAreConsistent, OneTransaction,
              BadIsDisconnected, Usable
<1>2. CASE ConnSteps
  BY <1>2, PingInv, AnsweredInv, CloseInv, LinkDropsInv, TransportErrorInv DEF ConnSteps
<1> QED BY <1>1, <1>2, StatementCallsInv, StatementStepsInv, TxStepsInv, ObjectStepsInv,
           ResetSessionInv DEF Next

\* A new connection satisfies the invariant.
LEMMA InitInv == ASSUME Init PROVE SessionInv
<1>1. TypeOK
  <2>1. conn \in ConnType
    <3>1. <<>> \in Seq(StmtHandle)
      OBVIOUS
    <3> QED BY <3>1 DEF Init, ConnType, OptTx
  <2>2. stmts \in [StmtObj -> StmtRec] /\ rows \in [RowsObj -> RowsRec]
    BY DEF Init, StmtRec, RowsRec, NoStmt, NoRows, OptTx, OptStmt, StmtType
  <2>3. txs \in [TxObj -> TxRec] /\ ledger \in [Change -> Entry]
    BY DEF Init, TxRec, TxState, OptTx, Entry, Ack
  <2>4. srv \in SrvType
    BY DEF Init, SrvType, SrvDown
  <2> QED BY <2>1, <2>2, <2>3, <2>4, NoCallType DEF Init, TypeOK
<1>2. CallsAreConsistent
  BY DEF Init, CallsAreConsistent, NoStmt, NoRows, NoCall, Usable
<1>3. OneTransaction /\ BadIsDisconnected
  BY DEF Init, OneTransaction, BadIsDisconnected
<1> QED BY <1>1, <1>2, <1>3 DEF SessionInv

\* The session invariant holds in every reachable state, for every pool size,
\* every number of handles, objects and changes, and both call disciplines.
THEOREM SessionInvariant == Spec => []SessionInv
<1>1. Init => SessionInv
  BY InitInv
<1>2. SessionInv /\ [Next]_vars => SessionInv'
  BY StepInv
<1> QED BY <1>1, <1>2, PTL DEF Spec

\* The variables keep their types.
THEOREM TypeCorrect == Spec => []TypeOK
BY SessionInvariant, PTL DEF SessionInv

\* Objects and calls hold the handles they use, and only a live connection
\* has a server side.
THEOREM CallsStayConsistent == Spec => []CallsAreConsistent
BY SessionInvariant, PTL DEF SessionInv

\* A connection marked bad has no transaction and no link.
THEOREM BadMeansDisconnected == Spec => []BadIsDisconnected
BY SessionInvariant, PTL DEF SessionInv

\* The conn structs that methods leave behind are no more usable than before.
LEMMA StaysUnusable ==
  ASSUME NEW c \in ConnType, NEW h, c.closed \/ c.bad
  PROVE  /\ invalidateIfAuto(c).closed \/ invalidateIfAuto(c).bad
         /\ recycle(c, h).closed \/ recycle(c, h).bad
         /\ markBad(c).bad
BY DEF ConnType, invalidateIfAuto, invalidateAutoTx, recycle, markBad

\* Without a link no step makes anything durable.
LEMMA NoLinkNoCommit ==
  ASSUME SessionInv, [Next]_vars, ~srv.up
  PROVE  committed' = committed
<1>1. CASE UNCHANGED vars
  BY <1>1 DEF vars
<1>2. CASE StatementCalls
  BY <1>2 DEF StatementCalls, ExecContext, QueryContext, PrepareContext, StmtExecContext,
              StmtQueryContext, Enter
<1>3. CASE StatementSteps
  BY <1>3 DEF StatementSteps, getAutoTx, PrepareReuse, AllocateAndPrepare, Describe, Params,
              ExecuteAndCommitRetaining, Execute, ExecuteQuery, CommitRetaining, getRowsAffected
<1>4. CASE TxSteps
  BY <1>4 DEF TxSteps, BeginTx, Commit, Rollback, EndTx, commitAutoTx, startTx, endCommit,
              endRollback
<1>5. CASE ObjectSteps
  BY <1>5 DEF ObjectSteps, RowsNext, RowsClose, StmtClose, fetch, freeRows, commitRows,
              recycleStmt
<1>6. CASE Ping \/ pinged \/ Close \/ LinkDrops \/ ResetSession
  BY <1>6 DEF Ping, pinged, Close, LinkDrops, ResetSession
<1>7. CASE TransportError
  BY <1>7 DEF TransportError, LostAnswer
<1> QED BY <1>1, <1>2, <1>3, <1>4, <1>5, <1>6, <1>7 DEF Next, ConnSteps

\* A connection that is closed or bad never works again and never changes the
\* database again: only answered round trips and calls on a usable connection
\* change conn, and no step of the driver resets closed or bad.
THEOREM DeadConnectionsStayDead == Spec => DeadStaysDead
<1>1. SessionInv /\ [Next]_vars => [~Usable => committed' = committed /\ ~Usable']_vars
  <2> SUFFICES ASSUME SessionInv, [Next]_vars, ~Usable
               PROVE  committed' = committed /\ ~Usable'
    OBVIOUS
  <2>1. conn \in ConnType /\ ~srv.up /\ (conn.closed \/ conn.bad)
    BY DEF SessionInv, TypeOK, CallsAreConsistent, Usable
  <2>2. committed' = committed
    BY <2>1, NoLinkNoCommit
  <2>3. conn'.closed \/ conn'.bad
    <3>1. CASE UNCHANGED conn
      BY <2>1, <3>1
    <3>2. CASE StatementCalls
      BY <3>2 DEF StatementCalls, ExecContext, QueryContext, PrepareContext, StmtExecContext,
                  StmtQueryContext, Enter
    <3>3. CASE StatementSteps
      <4>1. Describe \/ Params
        BY <2>1, <3>3 DEF StatementSteps, getAutoTx, PrepareReuse, AllocateAndPrepare,
                    ExecuteAndCommitRetaining, Execute, ExecuteQuery, CommitRetaining,
                    getRowsAffected
      <4>2. conn' \in {conn, recycle(conn, call.handle), invalidateIfAuto(conn)}
        BY <4>1 DEF Describe, Params, Fail
      <4> QED BY <2>1, <4>2, StaysUnusable
    <3>4. CASE TxSteps
      <4>1. conn' = conn \/ conn' = [conn EXCEPT !.activeTx = None]
        BY <2>1, <3>4 DEF TxSteps, BeginTx, Commit, Rollback, EndTx, commitAutoTx, startTx,
                          endCommit, endRollback
      <4> QED BY <2>1, <4>1 DEF ConnType
    <3>5. CASE ObjectSteps
      <4>1. conn' = conn \/ \E h : conn' = recycle(conn, h)
        BY <2>1, <3>5 DEF ObjectSteps, RowsNext, RowsClose, StmtClose, fetch, freeRows,
                          commitRows, recycleStmt
      <4> QED BY <2>1, <4>1, StaysUnusable
    <3>6. CASE Ping \/ pinged \/ Close \/ LinkDrops \/ ResetSession
      BY <2>1, <3>6 DEF Ping, pinged, Close, LinkDrops, ResetSession, Usable, ConnType
    <3>7. CASE TransportError
      <4>1. pooledOnError \in {conn, recycle(conn, call.handle)}
        BY DEF pooledOnError
      <4>2. conn' = markBad(pooledOnError)
        BY <3>7 DEF TransportError
      <4>3. SessionInv'
        BY StepInv
      <4> QED BY <2>1, <4>1, <4>2, <4>3, KeptFields DEF markBad, SessionInv, TypeOK, ConnType
    <3> QED BY <3>1, <3>2, <3>3, <3>4, <3>5, <3>6, <3>7 DEF Next, ConnSteps, vars
  <2> QED BY <2>2, <2>3 DEF Usable
<1> QED BY <1>1, SessionInvariant, PTL DEF Spec, DeadStaysDead

----------------------------------------------------------------------------
(***************************************************************************)
(* The pool of statement handles of a connection that is used through      *)
(* database/sql's pool: every handle has at most one owner.                *)
(***************************************************************************)

----------------------------------------------------------------------------
(* The inductive invariant *)

Pooled == {conn.freeHandles[i] : i \in DOMAIN conn.freeHandles}

\* A statement of the server that neither the pool nor an object holds.
Unshared(h) ==
  /\ h \in srv.stmt /\ h \notin Pooled
  /\ \A s \in StmtObj : stmts[s].open => stmts[s].handle # h
  /\ \A r \in RowsObj : rows[r].open => rows[r].handle # h

\* The round trips of a method that works with a handle.
WithHandle == {"describe", "params", "lateAutoTx", "execute", "commitRetaining", "info",
               "recycle"}

\* The pool, the stmt objects and the rows that free their handle hold
\* handles of the server, each one its own.
ObjectsInv ==
  /\ Len(conn.freeHandles) <= MaxFreeHandles
  /\ \A i, j \in DOMAIN conn.freeHandles :
       conn.freeHandles[i] = conn.freeHandles[j] => i = j
  /\ Pooled \subseteq srv.stmt
  /\ \A s \in StmtObj : stmts[s].open => stmts[s].handle \in srv.stmt \ Pooled
  /\ \A s, q \in StmtObj :
       stmts[s].open /\ stmts[q].open /\ stmts[s].handle = stmts[q].handle => s = q
  /\ \A r \in RowsObj : rows[r].open => rows[r].handle \in srv.stmt \ Pooled
  /\ \A r \in RowsObj : rows[r].open /\ rows[r].autoFree =>
       /\ \A s \in StmtObj : stmts[s].open => stmts[s].handle # rows[r].handle
       /\ \A q \in RowsObj : rows[q].open /\ rows[q].handle = rows[r].handle => q = r

\* The method in progress works with a handle of its own, or with that of an
\* open stmt.
OwnerInv ==
  /\ call.stage \in WithHandle /\ call.stmt = None => Unshared(call.handle)
  /\ call.stmt # None =>
       call.stmt \in StmtObj /\ stmts[call.stmt].open /\ stmts[call.stmt].handle = call.handle
  /\ call.stage = "free" /\ rows[call.rows].autoFree => Unshared(rows[call.rows].handle)
  /\ call.stage \in {"prepare", "describe", "recycle", "free"} => call.stmt = None

HandlesInv == srv.up => ObjectsInv /\ OwnerInv

PoolInv == SessionInv /\ HandlesInv

----------------------------------------------------------------------------
(* What a step does to the handles *)

KeepsPool == conn'.freeHandles = conn.freeHandles /\ srv'.stmt = srv.stmt

\* h goes into the pool, or is dropped.
GivesUp(h) ==
  \/ /\ Len(conn.freeHandles) < MaxFreeHandles
     /\ conn'.freeHandles = Append(conn.freeHandles, h) /\ srv'.stmt = srv.stmt
  \/ conn'.freeHandles = conn.freeHandles /\ srv'.stmt = srv.stmt \ {h}

\* Objects may be closed, none is opened.
ShrinksStmts ==
  \A s \in StmtObj : stmts'[s].open => stmts[s].open /\ stmts'[s].handle = stmts[s].handle

ShrinksRows ==
  \A r \in RowsObj : rows'[r].open =>
    /\ rows[r].open /\ rows'[r].handle = rows[r].handle
    /\ rows'[r].autoFree <=> rows[r].autoFree

\* The types that the steps below compute with.
LEMMA PoolTypes ==
  ASSUME SessionInv
  PROVE  /\ conn \in ConnType /\ srv \in SrvType /\ call \in CallType
         /\ conn.freeHandles \in Seq(StmtHandle) /\ srv.stmt \subseteq StmtHandle
         /\ stmts \in [StmtObj -> StmtRec] /\ rows \in [RowsObj -> RowsRec]
         /\ call.stmt \in StmtObj \cup {None} /\ call.handle \in OptStmt
BY DEF SessionInv, TypeOK, ConnType, SrvType, CallType

\* The conn structs of the driver, as far as the pool goes.
LEMMA ConnPool ==
  ASSUME NEW c \in ConnType, NEW h
  PROVE  /\ invalidateAutoTx(c).freeHandles = c.freeHandles
         /\ invalidateIfAuto(c).freeHandles = c.freeHandles
         /\ recycle(c, h).freeHandles = IF PoolFull(c) THEN c.freeHandles
                                        ELSE Append(c.freeHandles, h)
BY DEF ConnType, invalidateAutoTx, invalidateIfAuto, recycle

\* The server's statements.
LEMMA SrvPool ==
  ASSUME NEW s \in SrvType, NEW c, NEW h, NEW t
  PROVE  /\ drop(s, h).stmt = s.stmt \ {h} /\ drop(s, h).up = s.up
         /\ dropIfAdHoc(s).stmt = (IF call.stmt = None THEN s.stmt \ {call.handle} ELSE s.stmt)
         /\ dropIfAdHoc(s).up = s.up
         /\ srvRecycle(c, s, h).stmt = (IF PoolFull(c) THEN s.stmt \ {h} ELSE s.stmt)
         /\ srvRecycle(c, s, h).up = s.up
         /\ closeCursor(s, h).stmt = s.stmt /\ closeCursor(s, h).up = s.up
         /\ afterExecute(s).stmt = s.stmt /\ afterExecute(s).up = s.up
         /\ afterCommit(s, t).stmt = s.stmt /\ afterCommit(s, t).up = s.up
         /\ afterEnd(s, t).stmt = s.stmt /\ afterEnd(s, t).up = s.up
BY DEF SrvType, drop, dropIfAdHoc, srvRecycle, closeCursor, afterExecute, afterCommit, afterEnd

\* Pooling a handle and telling the server gives the handle up.
LEMMA RecycleGivesUp ==
  ASSUME SessionInv, NEW c \in ConnType, NEW s \in SrvType, NEW h,
         c.freeHandles = conn.freeHandles, s.stmt = srv.stmt,
         conn'.freeHandles = recycle(c, h).freeHandles,
         srv'.stmt = srvRecycle(conn, s, h).stmt
  PROVE  GivesUp(h)
<1>1. Len(conn.freeHandles) \in Nat
  BY PoolTypes
<1>2. PoolFull(c) <=> PoolFull(conn)
  BY DEF PoolFull
<1>3. conn'.freeHandles = IF PoolFull(c) THEN c.freeHandles ELSE Append(c.freeHandles, h)
  BY ConnPool
<1>4. srv'.stmt = IF PoolFull(conn) THEN s.stmt \ {h} ELSE s.stmt
  BY DEF srvRecycle, drop, SrvType
<1>5. CASE PoolFull(conn)
  BY <1>2, <1>3, <1>4, <1>5 DEF GivesUp
<1>6. CASE ~PoolFull(conn)
  <2>1. Len(conn.freeHandles) < MaxFreeHandles
    BY <1>1, <1>6 DEF PoolFull
  <2> QED BY <1>2, <1>3, <1>4, <1>6, <2>1 DEF GivesUp
<1> QED BY <1>5, <1>6

----------------------------------------------------------------------------
(* What preserves the invariant of objects *)

\* The pool stays and no object is opened.
LEMMA KeptObjects ==
  ASSUME ObjectsInv, KeepsPool, ShrinksStmts, ShrinksRows
  PROVE  ObjectsInv' /\ \A h : Unshared(h) => Unshared(h)'
<1>1. Pooled' = Pooled
  BY DEF KeepsPool, Pooled
<1>2. ObjectsInv'
  BY <1>1 DEF ObjectsInv, KeepsPool, ShrinksStmts, ShrinksRows
<1>3. \A h : Unshared(h) => Unshared(h)'
  BY <1>1 DEF Unshared, KeepsPool, ShrinksStmts, ShrinksRows
<1> QED BY <1>2, <1>3

\* A handle that nobody holds any more is given up.
LEMMA GivenUp ==
  ASSUME SessionInv, ObjectsInv, NEW h \in StmtHandle, GivesUp(h),
         ShrinksStmts, ShrinksRows, h \notin Pooled, h \in srv.stmt,
         \A s \in StmtObj : stmts'[s].open => stmts'[s].handle # h,
         \A r \in RowsObj : rows'[r].open => rows'[r].handle # h
  PROVE  ObjectsInv'
<1>1. conn.freeHandles \in Seq(StmtHandle)
  BY PoolTypes
<1>2. CASE /\ Len(conn.freeHandles) < MaxFreeHandles
           /\ conn'.freeHandles = Append(conn.freeHandles, h) /\ srv'.stmt = srv.stmt
  <2> DEFINE f == conn.freeHandles
             n == Len(f)
  <2>1. n \in Nat /\ DOMAIN f = 1..n
    BY <1>1
  <2>2. /\ Len(conn'.freeHandles) = n + 1 /\ DOMAIN conn'.freeHandles = 1..(n + 1)
        /\ conn'.freeHandles[n + 1] = h
        /\ \A i \in 1..n : conn'.freeHandles[i] = f[i]
    BY <1>1, <1>2, <2>1
  <2>3. \A i \in 1..n : f[i] # h
    BY <2>1 DEF Pooled
  <2>4. Pooled' = Pooled \cup {h}
    <3>1. \A i \in 1..(n + 1) : i = n + 1 \/ i \in 1..n
      BY <2>1
    <3>2. \A i \in 1..n : i \in 1..(n + 1)
      BY <2>1
    <3>3. n + 1 \in 1..(n + 1)
      BY <2>1
    <3> HIDE DEF n
    <3> QED BY <2>1, <2>2, <3>1, <3>2, <3>3 DEF Pooled
  <2>5. \A i, j \in DOMAIN conn'.freeHandles :
          conn'.freeHandles[i] = conn'.freeHandles[j] => i = j
    <3> SUFFICES ASSUME NEW i \in 1..(n + 1), NEW j \in 1..(n + 1),
                        conn'.freeHandles[i] = conn'.freeHandles[j]
                 PROVE  i = j
      BY <2>2
    <3>1. \A k, l \in 1..n : f[k] = f[l] => k = l
      BY <2>1 DEF ObjectsInv
    <3>2. CASE i \in 1..n /\ j \in 1..n
      BY <2>2, <3>1, <3>2
    <3>3. (i \in 1..n \/ i = n + 1) /\ (j \in 1..n \/ j = n + 1)
      BY <2>1
    <3> HIDE DEF n
    <3> QED BY <2>2, <2>3, <3>2, <3>3
  <2>6. Len(conn'.freeHandles) <= MaxFreeHandles
    BY <1>2, <2>1, <2>2
  <2> QED BY <1>2, <2>4, <2>5, <2>6 DEF ObjectsInv, ShrinksStmts, ShrinksRows
<1>3. CASE conn'.freeHandles = conn.freeHandles /\ srv'.stmt = srv.stmt \ {h}
  <2>1. Pooled' = Pooled
    BY <1>3 DEF Pooled
  <2> QED BY <1>3, <2>1 DEF ObjectsInv, ShrinksStmts, ShrinksRows
<1> QED BY <1>2, <1>3 DEF GivesUp

\* The last pooled handle is taken out.
LEMMA TakenOut ==
  ASSUME SessionInv, ObjectsInv, conn.freeHandles # <<>>, UNCHANGED <<stmts, rows>>,
         srv'.stmt = srv.stmt,
         conn'.freeHandles = SubSeq(conn.freeHandles, 1, Len(conn.freeHandles) - 1),
         NEW h, h = conn.freeHandles[Len(conn.freeHandles)]
  PROVE  ObjectsInv' /\ Unshared(h)'
<1> DEFINE f == conn.freeHandles
           n == Len(f)
<1>1. f \in Seq(StmtHandle) /\ n \in Nat /\ n >= 1 /\ DOMAIN f = 1..n
  BY PoolTypes
<1>2. /\ Len(conn'.freeHandles) = n - 1 /\ DOMAIN conn'.freeHandles = 1..(n - 1)
      /\ \A i \in 1..(n - 1) : conn'.freeHandles[i] = f[i]
  BY <1>1
<1>3. \A i \in 1..(n - 1) : i \in 1..n /\ i # n
  BY <1>1
<1>4. n \in 1..n
  BY <1>1
<1>5. Pooled' \subseteq Pooled \ {h}
  <2>1. \A k, l \in 1..n : f[k] = f[l] => k = l
    BY <1>1 DEF ObjectsInv
  <2> HIDE DEF n
  <2> QED BY <1>1, <1>2, <1>3, <1>4, <2>1 DEF Pooled
<1>6. h \in Pooled
  BY <1>1, <1>4 DEF Pooled
<1>7. \A i, j \in DOMAIN conn'.freeHandles :
        conn'.freeHandles[i] = conn'.freeHandles[j] => i = j
  <2>1. \A k, l \in 1..n : f[k] = f[l] => k = l
    BY <1>1 DEF ObjectsInv
  <2> HIDE DEF n
  <2> QED BY <1>2, <1>3, <2>1
<1>8. Len(conn'.freeHandles) <= MaxFreeHandles
  BY <1>1, <1>2 DEF ObjectsInv
<1>9. ObjectsInv'
  BY <1>5, <1>7, <1>8 DEF ObjectsInv
<1>10. Unshared(h)'
  <2>1. /\ (\A s \in StmtObj : stmts[s].open => stmts[s].handle # h)
        /\ (\A r \in RowsObj : rows[r].open => rows[r].handle # h)
        /\ h \in srv.stmt
    BY <1>6 DEF ObjectsInv
  <2>2. h \notin Pooled'
    BY <1>5
  <2> QED BY <2>1, <2>2 DEF Unshared
<1> QED BY <1>9, <1>10


\* A statement the server has just allocated.
LEMMA Allocated ==
  ASSUME ObjectsInv, NEW h, h \notin srv.stmt, UNCHANGED <<stmts, rows>>,
         conn'.freeHandles = conn.freeHandles, srv'.stmt = srv.stmt \cup {h}
  PROVE  ObjectsInv' /\ Unshared(h)'
<1>1. Pooled' = Pooled
  BY DEF Pooled
<1>2. ObjectsInv'
  BY <1>1 DEF ObjectsInv
<1>3. Unshared(h)'
  BY <1>1 DEF ObjectsInv, Unshared
<1> QED BY <1>2, <1>3

\* A stmt object is made for a handle of its own.
LEMMA MadeStmt ==
  ASSUME SessionInv, ObjectsInv, KeepsPool, UNCHANGED rows, NEW s \in StmtObj,
         Unshared(call.handle), NEW typ,
         stmts' = [stmts EXCEPT ![s] = [open |-> TRUE, handle |-> call.handle, typ |-> typ]]
  PROVE  ObjectsInv'
<1>1. Pooled' = Pooled
  BY DEF KeepsPool, Pooled
<1>2. stmts'[s].handle = call.handle /\ \A q \in StmtObj : q # s => stmts'[q] = stmts[q]
  BY PoolTypes
<1> QED BY <1>1, <1>2 DEF ObjectsInv, KeepsPool, Unshared

\* Rows are made for a handle of their own, or for that of an open stmt, which
\* they do not free.
LEMMA MadeRows ==
  ASSUME SessionInv, ObjectsInv, KeepsPool, UNCHANGED stmts, NEW r \in RowsObj, ~rows[r].open,
         \/ Unshared(call.handle)
         \/ /\ ~rows'[r].autoFree
            /\ \E s \in StmtObj : stmts[s].open /\ stmts[s].handle = call.handle,
         rows'[r].handle = call.handle, \A q \in RowsObj : q # r => rows'[q] = rows[q]
  PROVE  ObjectsInv'
<1>1. Pooled' = Pooled
  BY DEF KeepsPool, Pooled
<1>2. CASE Unshared(call.handle)
  BY <1>1, <1>2 DEF ObjectsInv, KeepsPool, Unshared
<1>3. CASE /\ ~rows'[r].autoFree
           /\ \E s \in StmtObj : stmts[s].open /\ stmts[s].handle = call.handle
  <2>1. PICK s \in StmtObj : stmts[s].open /\ stmts[s].handle = call.handle
    BY <1>3
  <2>2. call.handle \in srv.stmt \ Pooled
    BY <2>1 DEF ObjectsInv
  <2>3. \A q \in RowsObj : rows[q].open /\ rows[q].autoFree => rows[q].handle # call.handle
    BY <2>1 DEF ObjectsInv
  <2> QED BY <1>1, <1>3, <2>2, <2>3 DEF ObjectsInv, KeepsPool
<1> QED BY <1>2, <1>3

----------------------------------------------------------------------------
(* What preserves the invariant of the method in progress *)

\* The zero call holds nothing.
LEMMA IdleOwner == ASSUME call' = NoCall PROVE OwnerInv'
BY DEF OwnerInv, NoCall, WithHandle

\* A method that goes on with the handle it has.
LEMMA KeptOwner ==
  ASSUME OwnerInv, \A h : Unshared(h) => Unshared(h)',
         call'.stmt = call.stmt, call'.handle = call.handle,
         call'.stage = nextStage(call),
         call.stage \notin {"none", "prepare", "recycle"},
         \A s \in StmtObj : stmts[s].open =>
           stmts'[s].open /\ stmts'[s].handle = stmts[s].handle
  PROVE  OwnerInv'
<1>1. call'.stage \notin {"free", "recycle", "describe"}
  BY DEF nextStage
<1>2. call'.stage = "prepare" => call.stmt = None
  BY DEF nextStage
<1>3. call'.stage \in WithHandle /\ call.stmt = None => call.stage \in WithHandle
  BY DEF nextStage, WithHandle
<1>4. (call.stage \in WithHandle /\ call.stmt = None => Unshared(call.handle))'
  <2>1. ASSUME call'.stage \in WithHandle, call'.stmt = None
        PROVE  (Unshared(call.handle))'
    <3>1. PICK h : h = call.handle
      OBVIOUS
    <3>2. Unshared(h)
      BY <1>3, <2>1, <3>1 DEF OwnerInv
    <3>3. Unshared(h)'
      BY <3>2
    <3>4. h = call'.handle
      BY <3>1
    <3> QED BY <3>3, <3>4 DEF Unshared
  <2> QED BY <2>1
<1> QED BY <1>1, <1>2, <1>4 DEF OwnerInv


----------------------------------------------------------------------------
(* The steps of a statement *)

\* A method fails and forgets its handle, or drops it.
LEMMA FailedPool ==
  ASSUME PoolInv, srv.up, NEW c, NEW s, Fail(c, s), c.freeHandles = conn.freeHandles,
         \/ s.stmt = srv.stmt
         \/ call.stmt = None /\ call.stage \in WithHandle /\ s.stmt = srv.stmt \ {call.handle}
  PROVE  ObjectsInv' /\ OwnerInv'
<1>1. /\ conn' = c /\ srv' = s /\ call' = NoCall /\ UNCHANGED <<stmts, rows>>
      /\ ObjectsInv /\ OwnerInv /\ SessionInv
  BY DEF Fail, Return, PoolInv, HandlesInv
<1>2. OwnerInv'
  BY <1>1, IdleOwner
<1>3. ShrinksStmts /\ ShrinksRows
  BY <1>1 DEF ShrinksStmts, ShrinksRows
<1>4. CASE s.stmt = srv.stmt
  BY <1>1, <1>2, <1>3, <1>4, KeptObjects DEF KeepsPool
<1>5. CASE call.stmt = None /\ call.stage \in WithHandle /\ s.stmt = srv.stmt \ {call.handle}
  <2>1. Unshared(call.handle) /\ call.handle \in StmtHandle
    BY <1>1, <1>5, CallHandle DEF OwnerInv, WithHandle
  <2>2. GivesUp(call.handle)
    BY <1>1, <1>5 DEF GivesUp
  <2>3. ObjectsInv'
    BY <1>1, <1>3, <2>1, <2>2, GivenUp DEF Unshared
  <2> QED BY <1>2, <2>3
<1> QED BY <1>4, <1>5

\* Advancing keeps the handle and the object.
LEMMA AdvanceKeeps ==
  ASSUME NEW c \in CallType, NEW t
  PROVE  /\ Advance(c).stage = nextStage(c) /\ Advance(c).stmt = c.stmt
         /\ Advance(c).handle = c.handle /\ Advance(c).rows = c.rows
         /\ [Advance(c) EXCEPT !.tx = t].stage = nextStage(c)
         /\ [Advance(c) EXCEPT !.tx = t].stmt = c.stmt
         /\ [Advance(c) EXCEPT !.tx = t].handle = c.handle
         /\ [Advance(c) EXCEPT !.handle = t].stage = nextStage(c)
         /\ [Advance(c) EXCEPT !.handle = t].stmt = c.stmt
         /\ [Advance(c) EXCEPT !.handle = t].handle = t
BY DEF CallType, Advance

\* A method goes on, with the handles as they are.
LEMMA AdvancedPool ==
  ASSUME PoolInv, srv.up, NEW t, call' = Advance(call) \/ call' = [Advance(call) EXCEPT !.tx = t],
         call.stage \notin {"none", "prepare", "recycle"},
         KeepsPool, UNCHANGED <<stmts, rows>>
  PROVE  ObjectsInv' /\ OwnerInv'
<1>1. ObjectsInv /\ OwnerInv /\ call \in CallType
  BY PoolTypes DEF PoolInv, HandlesInv
<1>2. ShrinksStmts /\ ShrinksRows
  BY DEF ShrinksStmts, ShrinksRows
<1>3. ObjectsInv' /\ \A h : Unshared(h) => Unshared(h)'
  BY <1>1, <1>2, KeptObjects
<1>4. call'.stmt = call.stmt /\ call'.handle = call.handle /\ call'.stage = nextStage(call)
  <2>1. CASE call' = Advance(call)
    BY <1>1, <2>1, AdvanceKeeps
  <2>2. CASE call' = [Advance(call) EXCEPT !.tx = t]
    BY <1>1, <2>2, AdvanceKeeps
  <2> QED BY <2>1, <2>2
<1>5. OwnerInv'
  BY <1>1, <1>3, <1>4, KeptOwner
<1> QED BY <1>3, <1>5

\* A method goes on with a new handle, which is its own.
LEMMA NewHandlePool ==
  ASSUME PoolInv, srv.up, NEW h, call' = [Advance(call) EXCEPT !.handle = h],
         call.stage = "prepare", Unshared(h)'
  PROVE  OwnerInv'
<1>1. OwnerInv /\ call \in CallType
  BY PoolTypes DEF PoolInv, HandlesInv
<1>2. call'.stmt = call.stmt /\ call'.handle = h /\ call'.stage = "describe"
  BY <1>1, AdvanceKeeps DEF nextStage
<1>3. call'.stmt = None
  BY <1>1, <1>2 DEF OwnerInv
<1>4. (Unshared(call.handle))'
  BY <1>2 DEF Unshared
<1> QED BY <1>2, <1>3, <1>4 DEF OwnerInv

\* getAutoTx leaves the handles alone.
LEMMA getAutoTxPool ==
  ASSUME PoolInv, getAutoTx PROVE ObjectsInv' /\ OwnerInv'
<1>1. srv.up /\ call.stage \in {"getAutoTx", "lateAutoTx"} /\ conn \in ConnType /\ srv \in SrvType
  BY PoolTypes DEF getAutoTx, At, PoolInv
<1>2. CASE Fail(conn, srv)
  BY <1>1, <1>2, FailedPool
<1>3. CASE \E h \in TxHandle \ srv.tx :
             /\ srv' = [srv EXCEPT !.tx = @ \cup {h}]
             /\ conn' = [conn EXCEPT !.autoTx = h]
             /\ call' = [Advance(call) EXCEPT !.tx = h]
             /\ UNCHANGED <<stmts, rows, txs, ledger>>
  <2>1. KeepsPool
    BY <1>1, <1>3 DEF KeepsPool, ConnType, SrvType
  <2> QED BY <1>1, <1>3, <2>1, AdvancedPool
<1> QED BY <1>2, <1>3 DEF getAutoTx

\* The last pooled handle becomes the call's own.
LEMMA PrepareReusePool ==
  ASSUME PoolInv, PrepareReuse PROVE ObjectsInv' /\ OwnerInv'
<1>1. /\ srv.up /\ call.stage = "prepare" /\ conn.freeHandles # <<>> /\ conn \in ConnType
      /\ SessionInv /\ ObjectsInv
  BY PoolTypes DEF PrepareReuse, At, PoolInv, HandlesInv
<1> DEFINE n == Len(conn.freeHandles)
           c == [conn EXCEPT !.freeHandles = SubSeq(@, 1, n - 1)]
<1>2. c.freeHandles = SubSeq(conn.freeHandles, 1, n - 1)
  BY <1>1 DEF ConnType
<1>3. PICK h : h = conn.freeHandles[n]
  OBVIOUS
<1>4. CASE /\ conn' = c
           /\ call' = [Advance(call) EXCEPT !.handle = conn.freeHandles[n]]
           /\ UNCHANGED <<stmts, rows, txs, srv, ledger>>
  <2>1. conn'.freeHandles = SubSeq(conn.freeHandles, 1, n - 1)
    BY <1>2, <1>4
  <2>2. ObjectsInv' /\ Unshared(h)'
    BY <1>1, <1>3, <1>4, <2>1, TakenOut
  <2>3. call' = [Advance(call) EXCEPT !.handle = h]
    BY <1>3, <1>4
  <2> QED BY <1>1, <2>2, <2>3, NewHandlePool
<1>5. CASE Fail(invalidateIfAuto(c), srv)
  <2>1. invalidateIfAuto(c).freeHandles = SubSeq(conn.freeHandles, 1, n - 1)
    BY <1>1 DEF invalidateIfAuto, invalidateAutoTx, ConnType
  <2>2. conn'.freeHandles = SubSeq(conn.freeHandles, 1, n - 1) /\ srv'.stmt = srv.stmt
        /\ call' = NoCall /\ UNCHANGED <<stmts, rows>>
    BY <1>5, <2>1 DEF Fail, Return
  <2>3. ObjectsInv'
    BY <1>1, <1>3, <2>2, TakenOut
  <2> QED BY <2>2, <2>3, IdleOwner
<1> QED BY <1>4, <1>5 DEF PrepareReuse

\* A new handle becomes the call's own, or nobody's.
LEMMA AllocateAndPreparePool ==
  ASSUME PoolInv, AllocateAndPrepare PROVE ObjectsInv' /\ OwnerInv'
<1>1. /\ srv.up /\ call.stage = "prepare" /\ conn \in ConnType /\ srv \in SrvType
      /\ SessionInv /\ ObjectsInv
  BY PoolTypes DEF AllocateAndPrepare, At, PoolInv, HandlesInv
<1>2. invalidateIfAuto(conn).freeHandles = conn.freeHandles
  BY <1>1, ConnPool
<1>3. CASE Fail(invalidateIfAuto(conn), srv)
  BY <1>1, <1>2, <1>3, FailedPool
<1>4. ASSUME NEW h \in StmtHandle \ srv.stmt, NEW s, s = [srv EXCEPT !.stmt = @ \cup {h}],
             \/ /\ srv' = s
                /\ call' = [Advance(call) EXCEPT !.handle = h]
                /\ UNCHANGED <<conn, stmts, rows, txs, ledger>>
             \/ Fail(invalidateIfAuto(conn), s)
      PROVE  ObjectsInv' /\ OwnerInv'
  <2>1. s.stmt = srv.stmt \cup {h}
    BY <1>1, <1>4 DEF SrvType
  <2>2. conn'.freeHandles = conn.freeHandles /\ srv'.stmt = srv.stmt \cup {h}
        /\ UNCHANGED <<stmts, rows>>
    BY <1>2, <1>4, <2>1 DEF Fail
  <2>3. ObjectsInv' /\ Unshared(h)'
    BY <1>1, <1>4, <2>2, Allocated
  <2>4. call' = NoCall \/ call' = [Advance(call) EXCEPT !.handle = h]
    BY <1>4 DEF Fail, Return
  <2> QED BY <1>1, <2>3, <2>4, IdleOwner, NewHandlePool
<1> QED BY <1>3, <1>4 DEF AllocateAndPrepare

\* Describing hands the handle to a stmt, or gives it up.
LEMMA DescribePool ==
  ASSUME PoolInv, srv.up, Describe PROVE ObjectsInv' /\ OwnerInv'
<1>1. /\ call.stage = "describe" /\ conn \in ConnType /\ srv \in SrvType
      /\ SessionInv /\ ObjectsInv /\ OwnerInv
  BY PoolTypes DEF Describe, At, PoolInv, HandlesInv
<1>2. Unshared(call.handle) /\ call.handle \in StmtHandle
  BY <1>1, CallHandle DEF OwnerInv, WithHandle
<1>3. CASE Fail(recycle(conn, call.handle), srvRecycle(conn, srv, call.handle))
  <2>1. call' = NoCall /\ UNCHANGED <<stmts, rows>>
        /\ conn' = recycle(conn, call.handle) /\ srv' = srvRecycle(conn, srv, call.handle)
    BY <1>3 DEF Fail, Return
  <2>2. GivesUp(call.handle)
    BY <1>1, <2>1, RecycleGivesUp
  <2>3. ShrinksStmts /\ ShrinksRows
    BY <2>1 DEF ShrinksStmts, ShrinksRows
  <2>4. ObjectsInv'
    BY <1>1, <1>2, <2>1, <2>2, <2>3, GivenUp DEF Unshared
  <2> QED BY <2>1, <2>4, IdleOwner
<1>4. CASE call' = Advance(call) /\ UNCHANGED <<conn, stmts, rows, txs, srv, ledger>>
  BY <1>1, <1>4, AdvancedPool DEF KeepsPool
<1>5. CASE /\ \E s \in StmtObj :
                /\ ~stmts[s].open
                /\ stmts' = [stmts EXCEPT ![s] =
                               [open |-> TRUE, handle |-> call.handle, typ |-> call.typ]]
           /\ Return("open")
           /\ UNCHANGED <<conn, rows, txs, srv>>
  <2>1. KeepsPool /\ call' = NoCall /\ rows' = rows
    BY <1>5 DEF KeepsPool, Return
  <2>2. ObjectsInv'
    BY <1>1, <1>2, <1>5, <2>1, MadeStmt
  <2> QED BY <2>1, <2>2, IdleOwner
<1> QED BY <1>3, <1>4, <1>5 DEF Describe


\* A statement that fails after it was prepared drops its ad-hoc handle.
LEMMA FailedStatement ==
  ASSUME PoolInv, srv.up, NEW c \in {conn, invalidateIfAuto(conn), invalidateAutoTx(conn)},
         NEW s \in SrvType, s.stmt = srv.stmt, Fail(c, dropIfAdHoc(s)), call.stage \in WithHandle
  PROVE  ObjectsInv' /\ OwnerInv'
<1>1. conn \in ConnType
  BY PoolTypes DEF PoolInv
<1>2. c.freeHandles = conn.freeHandles
  BY <1>1, ConnPool
<1>3. dropIfAdHoc(s).stmt = IF call.stmt = None THEN s.stmt \ {call.handle} ELSE s.stmt
  BY DEF dropIfAdHoc, drop, SrvType
<1> QED BY <1>2, <1>3, FailedPool

\* Parameters are written with the handle the call has.
LEMMA ParamsPool ==
  ASSUME PoolInv, srv.up, Params PROVE ObjectsInv' /\ OwnerInv'
<1>1. call.stage = "params" /\ call.stage \in WithHandle /\ srv \in SrvType
  BY PoolTypes DEF Params, At, PoolInv, WithHandle
<1>2. CASE Fail(invalidateIfAuto(conn), dropIfAdHoc(srv))
  BY <1>1, <1>2, FailedStatement
<1>3. CASE call' = Advance(call) /\ UNCHANGED <<conn, stmts, rows, txs, srv, ledger>>
  BY <1>1, <1>3, AdvancedPool DEF KeepsPool
<1> QED BY <1>2, <1>3 DEF Params

\* Executing and committing leave the handles alone, or drop the ad-hoc one.
LEMMA ExecutePool ==
  ASSUME PoolInv, ExecuteAndCommitRetaining \/ Execute \/ CommitRetaining
  PROVE  ObjectsInv' /\ OwnerInv'
<1>1. /\ srv.up /\ call.stage \in {"execute", "commitRetaining"} /\ call.stage \in WithHandle
      /\ conn \in ConnType /\ srv \in SrvType /\ SessionInv
  BY PoolTypes DEF ExecuteAndCommitRetaining, Execute, CommitRetaining, At, PoolInv, WithHandle
<1>2. ASSUME NEW s \in SrvType, s.stmt = srv.stmt, srv' = s, call' = Advance(call),
             UNCHANGED <<conn, stmts, rows, txs, ledger>>
      PROVE  ObjectsInv' /\ OwnerInv'
  BY <1>1, <1>2, AdvancedPool DEF KeepsPool
<1>3. call.handle \in StmtHandle
  BY <1>1, CallHandle
<1>4. /\ afterExecute(srv) \in SrvType /\ afterExecute(srv).stmt = srv.stmt
      /\ afterCommit(srv, call.tx) \in SrvType /\ afterCommit(srv, call.tx).stmt = srv.stmt
      /\ afterCommit(afterExecute(srv), call.tx) \in SrvType
      /\ afterCommit(afterExecute(srv), call.tx).stmt = srv.stmt
  <2>1. afterExecute(srv) \in SrvType /\ afterExecute(srv).stmt = srv.stmt
    BY <1>1, <1>3, afterExecuteType, SrvPool
  <2>2. ASSUME NEW s \in SrvType
        PROVE  afterCommit(s, call.tx) \in SrvType /\ afterCommit(s, call.tx).stmt = s.stmt
    BY afterCommitType, SrvPool
  <2> QED BY <1>1, <2>1, <2>2
<1>5. CASE Execute
  <2>1. CASE Fail(invalidateIfAuto(conn), dropIfAdHoc(srv))
    BY <1>1, <2>1, FailedStatement
  <2>2. CASE srv' = afterExecute(srv) /\ call' = Advance(call)
             /\ UNCHANGED <<conn, stmts, rows, txs, ledger>>
    BY <1>2, <1>4, <2>2
  <2> QED BY <1>5, <2>1, <2>2 DEF Execute
<1>6. CASE CommitRetaining
  <2>1. CASE Fail(invalidateAutoTx(conn), dropIfAdHoc(srv))
    BY <1>1, <2>1, FailedStatement
  <2>2. CASE srv' = afterCommit(srv, call.tx) /\ call' = Advance(call)
             /\ UNCHANGED <<conn, stmts, rows, txs, ledger>>
    BY <1>2, <1>4, <2>2
  <2> QED BY <1>6, <2>1, <2>2 DEF CommitRetaining
<1>7. CASE ExecuteAndCommitRetaining
  <2>1. PICK executed, done \in BOOLEAN :
          LET s == IF executed THEN afterExecute(srv) ELSE srv
              t == IF done THEN afterCommit(s, call.tx) ELSE s
          IN \/ /\ srv' = t
                /\ call' = Advance(call)
                /\ UNCHANGED <<conn, stmts, rows, txs, ledger>>
             \/ Fail(invalidateAutoTx(conn), dropIfAdHoc(t))
    BY <1>7 DEF ExecuteAndCommitRetaining
  <2>2. PICK t \in SrvType :
          /\ t.stmt = srv.stmt
          /\ \/ /\ srv' = t
                /\ call' = Advance(call)
                /\ UNCHANGED <<conn, stmts, rows, txs, ledger>>
             \/ Fail(invalidateAutoTx(conn), dropIfAdHoc(t))
    BY <1>1, <1>4, <2>1
  <2> QED BY <1>1, <1>2, <2>2, FailedStatement
<1> QED BY <1>5, <1>6, <1>7

\* Query hands its handle to rows.
LEMMA ExecuteQueryPool ==
  ASSUME PoolInv, ExecuteQuery PROVE ObjectsInv' /\ OwnerInv'
<1>1. /\ srv.up /\ call.stage = "execute" /\ call.stage \in WithHandle
      /\ conn \in ConnType /\ srv \in SrvType /\ SessionInv /\ ObjectsInv /\ OwnerInv
      /\ rows \in [RowsObj -> RowsRec]
  BY PoolTypes DEF ExecuteQuery, At, PoolInv, HandlesInv, WithHandle
<1>2. afterExecute(srv) \in SrvType /\ afterExecute(srv).stmt = srv.stmt
  <2>1. call.handle \in StmtHandle
    BY <1>1, CallHandle
  <2> QED BY <1>1, <2>1, afterExecuteType, SrvPool
<1>3. CASE \/ Fail(invalidateIfAuto(conn), dropIfAdHoc(srv))
           \/ Fail(invalidateIfAuto(conn), dropIfAdHoc(afterExecute(srv)))
  BY <1>1, <1>2, <1>3, FailedStatement
<1>4. CASE /\ srv' = afterExecute(srv)
           /\ \E r \in RowsObj :
                /\ ~rows[r].open
                /\ rows' = [rows EXCEPT ![r] =
                     [open |-> TRUE, handle |-> call.handle, tx |-> call.tx,
                      autoFree |-> autoFreeStmt,
                      commitOnClose |-> commitOnClose(call.auto, call.typ),
                      hasCursor |-> call.typ # "proc", chg |-> call.chg]]
           /\ Return("open")
           /\ UNCHANGED <<conn, stmts, txs>>
  <2>1. PICK r \in RowsObj :
          /\ ~rows[r].open
          /\ rows' = [rows EXCEPT ![r] =
               [open |-> TRUE, handle |-> call.handle, tx |-> call.tx,
                autoFree |-> autoFreeStmt,
                commitOnClose |-> commitOnClose(call.auto, call.typ),
                hasCursor |-> call.typ # "proc", chg |-> call.chg]]
    BY <1>4
  <2>2. /\ rows'[r].handle = call.handle /\ (rows'[r].autoFree <=> autoFreeStmt)
        /\ \A q \in RowsObj : q # r => rows'[q] = rows[q]
    BY <1>1, <2>1
  <2>3. \/ Unshared(call.handle)
        \/ /\ ~rows'[r].autoFree
           /\ \E s \in StmtObj : stmts[s].open /\ stmts[s].handle = call.handle
    BY <1>1, <2>2 DEF OwnerInv, autoFreeStmt
  <2>4. KeepsPool /\ call' = NoCall /\ stmts' = stmts
    BY <1>2, <1>4 DEF KeepsPool, Return
  <2>5. ObjectsInv'
    BY <1>1, <2>1, <2>2, <2>3, <2>4, MadeRows
  <2> QED BY <2>4, <2>5, IdleOwner
<1> QED BY <1>3, <1>4 DEF ExecuteQuery

\* Exec returns: an ad-hoc handle is given up.
LEMMA getRowsAffectedPool ==
  ASSUME PoolInv, getRowsAffected PROVE ObjectsInv' /\ OwnerInv'
<1>1. /\ srv.up /\ call.stage = "info" /\ call' = NoCall /\ UNCHANGED <<stmts, rows>>
      /\ conn \in ConnType /\ srv \in SrvType /\ SessionInv /\ ObjectsInv /\ OwnerInv
  BY PoolTypes DEF getRowsAffected, At, Return, PoolInv, HandlesInv
<1>2. ShrinksStmts /\ ShrinksRows
  BY <1>1 DEF ShrinksStmts, ShrinksRows
<1>3. CASE call.stmt = None
  <2>1. Unshared(call.handle) /\ call.handle \in StmtHandle
    BY <1>1, <1>3, CallHandle DEF OwnerInv, WithHandle
  <2>2. conn' = recycle(conn, call.handle) /\ srv' = srvRecycle(conn, srv, call.handle)
    BY <1>3 DEF getRowsAffected
  <2>3. GivesUp(call.handle)
    BY <1>1, <2>2, RecycleGivesUp
  <2>4. ObjectsInv'
    BY <1>1, <1>2, <2>1, <2>3, GivenUp DEF Unshared
  <2> QED BY <1>1, <2>4, IdleOwner
<1>4. CASE call.stmt # None
  <2>1. KeepsPool
    BY <1>4 DEF getRowsAffected, KeepsPool
  <2> QED BY <1>1, <1>2, <2>1, KeptObjects, IdleOwner
<1> QED BY <1>3, <1>4


\* The steps of a statement, together.
LEMMA StatementStepsPool ==
  ASSUME PoolInv, srv.up, StatementSteps PROVE ObjectsInv' /\ OwnerInv'
BY getAutoTxPool, PrepareReusePool, AllocateAndPreparePool, DescribePool, ParamsPool,
   ExecutePool, ExecuteQueryPool, getRowsAffectedPool DEF StatementSteps

\* A method that starts a statement holds no handle, or that of an open stmt.
LEMMA StatementCallsPool ==
  ASSUME PoolInv, srv.up, StatementCalls PROVE ObjectsInv' /\ OwnerInv'
<1>1. PICK u \in Users :
        \/ \E typ \in StmtType, chg \in Change \cup {None} :
             ExecContext(typ, chg, u) \/ QueryContext(typ, chg, u)
        \/ \E typ \in StmtType : PrepareContext(typ, u)
        \/ \E s \in StmtObj, chg \in Change \cup {None} :
             StmtExecContext(s, chg, u) \/ StmtQueryContext(s, chg, u)
  BY DEF StatementCalls
<1>2. ObjectsInv
  BY DEF PoolInv, HandlesInv
<1>3. ASSUME NEW fn, NEW typ, NEW chg, NEW s, NEW h, NEW stage, Enter(fn, typ, chg, s, h, stage),
             \/ s = None /\ stage \in {"getAutoTx", "prepare"}
             \/ /\ s \in StmtObj /\ stage \in {"getAutoTx", "params"}
                /\ stmts[s].open /\ stmts[s].handle = h
      PROVE  ObjectsInv' /\ OwnerInv'
  <2>1. UNCHANGED <<conn, stmts, rows, srv>> /\ call'.stage = stage /\ call'.stmt = s
        /\ call'.handle = h
    BY <1>3 DEF Enter
  <2>2. ShrinksStmts /\ ShrinksRows /\ KeepsPool
    BY <2>1 DEF ShrinksStmts, ShrinksRows, KeepsPool
  <2>3. ObjectsInv'
    BY <1>2, <2>2, KeptObjects
  <2>4. OwnerInv'
    BY <1>3, <2>1 DEF OwnerInv, WithHandle
  <2> QED BY <2>3, <2>4
<1>4. /\ AutoTxOr("prepare") \in {"getAutoTx", "prepare"}
      /\ AutoTxOr("params") \in {"getAutoTx", "params"}
  BY DEF AutoTxOr
<1>5. ASSUME NEW typ, NEW chg, ExecContext(typ, chg, u) \/ QueryContext(typ, chg, u)
      PROVE  ObjectsInv' /\ OwnerInv'
  BY <1>3, <1>4, <1>5 DEF ExecContext, QueryContext
<1>6. ASSUME NEW typ, PrepareContext(typ, u) PROVE ObjectsInv' /\ OwnerInv'
  BY <1>3, <1>4, <1>6 DEF PrepareContext
<1>7. ASSUME NEW s \in StmtObj, NEW chg, StmtExecContext(s, chg, u) \/ StmtQueryContext(s, chg, u)
      PROVE  ObjectsInv' /\ OwnerInv'
  BY <1>3, <1>4, <1>7 DEF StmtExecContext, StmtQueryContext
<1> QED BY <1>1, <1>5, <1>6, <1>7

----------------------------------------------------------------------------
(* The other steps *)

\* A step that leaves handles and objects alone and ends or starts a method.
LEMMA QuietPool ==
  ASSUME PoolInv, srv.up, KeepsPool, ShrinksStmts, ShrinksRows,
         call'.stmt = None, call'.stage \notin WithHandle \cup {"free"}
  PROVE  ObjectsInv' /\ OwnerInv'
<1>1. ObjectsInv'
  BY KeptObjects DEF PoolInv, HandlesInv
<1>2. OwnerInv'
  BY DEF OwnerInv, WithHandle
<1> QED BY <1>1, <1>2

\* The zero call, as far as handles go.
LEMMA NoCallHandles ==
  /\ NoCall.stmt = None /\ NoCall.stage = "none" /\ NoCall \in CallType
  /\ \A fn, st, o, t : [NoCall EXCEPT !.fn = fn, !.obj = o, !.tx = t, !.stage = st].stage = st
  /\ \A fn, st, o, t : [NoCall EXCEPT !.fn = fn, !.obj = o, !.tx = t, !.stage = st].stmt = None
BY NoCallType DEF NoCall

\* Transactions leave the handles alone.
LEMMA TxStepsPool ==
  ASSUME PoolInv, srv.up, TxSteps PROVE ObjectsInv' /\ OwnerInv'
<1>1. conn \in ConnType /\ srv \in SrvType /\ OwnerInv
  BY PoolTypes DEF PoolInv, HandlesInv
<1>2. ASSUME UNCHANGED <<stmts, rows>> PROVE ShrinksStmts /\ ShrinksRows
  BY <1>2 DEF ShrinksStmts, ShrinksRows
<1>3. ASSUME NEW t \in TxObj, BeginTx(t) PROVE ObjectsInv' /\ OwnerInv'
  <2>1. UNCHANGED <<conn, stmts, rows, srv>> /\ call'.stmt = None
        /\ call'.stage \in {"commitAuto", "start"}
    BY <1>3 DEF BeginTx, NoCall
  <2>2. KeepsPool /\ call'.stage \notin WithHandle \cup {"free"}
    BY <2>1 DEF KeepsPool, WithHandle
  <2> QED BY <1>2, <2>1, <2>2, QuietPool
<1>4. ASSUME NEW t \in TxObj, NEW fn, NEW st, NEW failed, EndTx(t, fn, st, failed)
      PROVE  ObjectsInv' /\ OwnerInv'
  <2>1. UNCHANGED <<stmts, rows, srv>> /\ conn'.freeHandles = conn.freeHandles
    BY <1>1, <1>4 DEF EndTx, ConnType
  <2>2. call'.stmt = None /\ call'.stage \in {"end", "none"}
    BY <1>4 DEF EndTx, NoCall
  <2>3. KeepsPool /\ call'.stage \notin WithHandle \cup {"free"}
    BY <2>1, <2>2 DEF KeepsPool, WithHandle
  <2> QED BY <1>2, <2>1, <2>2, <2>3, QuietPool
<1>5. ASSUME call' = NoCall, KeepsPool, UNCHANGED <<stmts, rows>>
      PROVE  ObjectsInv' /\ OwnerInv'
  <2>1. call'.stmt = None /\ call'.stage \notin WithHandle \cup {"free"}
    BY <1>5, NoCallHandles DEF WithHandle
  <2> QED BY <1>2, <1>5, <2>1, QuietPool
<1>6. CASE commitAutoTx
  <2>1. conn' = invalidateAutoTx(conn) /\ (srv' = srv \/ srv' = afterEnd(srv, call.tx))
        /\ UNCHANGED <<stmts, rows>>
    BY <1>6 DEF commitAutoTx, Fail
  <2>2. conn'.freeHandles = conn.freeHandles
    BY <1>1, <2>1, ConnPool
  <2>3. srv'.stmt = srv.stmt
    BY <1>1, <2>1 DEF afterEnd, SrvType
  <2>4. KeepsPool
    BY <2>2, <2>3 DEF KeepsPool
  <2>5. call.stage = "commitAuto" /\ (call' = NoCall \/ call' = Advance(call))
    BY <1>6 DEF commitAutoTx, At, Fail, Return
  <2> QED BY <1>5, <2>1, <2>4, <2>5, AdvancedPool
<1>7. CASE startTx
  <2>1. KeepsPool /\ call' = NoCall /\ UNCHANGED <<stmts, rows>>
    BY <1>1, <1>7 DEF startTx, Fail, Return, KeepsPool, ConnType, SrvType
  <2> QED BY <1>5, <2>1
<1>8. CASE endCommit \/ endRollback
  <2>1. call' = NoCall /\ UNCHANGED <<conn, stmts, rows>>
        /\ (srv' = srv \/ srv' = afterEnd(srv, call.tx))
    BY <1>8 DEF endCommit, endRollback
  <2>2. srv'.stmt = srv.stmt
    BY <1>1, <2>1 DEF afterEnd, SrvType
  <2> QED BY <1>5, <2>1, <2>2 DEF KeepsPool
<1> QED BY <1>3, <1>4, <1>6, <1>7, <1>8 DEF TxSteps, Commit, Rollback

\* Next and Ping work without a handle of their own.
LEMMA QuietStepsPool ==
  ASSUME PoolInv, srv.up, (\E r \in RowsObj : RowsNext(r)) \/ fetch \/ Ping \/ pinged
  PROVE  ObjectsInv' /\ OwnerInv'
<1>1. UNCHANGED <<conn, stmts, rows, srv>>
  BY DEF RowsNext, fetch, Ping, pinged
<1>2. call'.stmt = None /\ call'.stage \in {"fetch", "info database", "none"}
  <2>1. ASSUME NEW r, RowsNext(r) PROVE call'.stmt = None /\ call'.stage = "fetch"
    BY <2>1 DEF RowsNext, NoCall
  <2>2. ASSUME Ping PROVE call'.stmt = None /\ call'.stage = "info database"
    BY <2>2 DEF Ping, NoCall
  <2>3. ASSUME fetch \/ pinged PROVE call'.stmt = None /\ call'.stage = "none"
    <3>1. call' = NoCall
      BY <2>3 DEF fetch, pinged
    <3> QED BY <3>1, NoCallHandles
  <2> QED BY <2>1, <2>2, <2>3
<1>3. KeepsPool /\ ShrinksStmts /\ ShrinksRows
  BY <1>1 DEF KeepsPool, ShrinksStmts, ShrinksRows
<1>4. call'.stage \notin WithHandle \cup {"free"}
  BY <1>2 DEF WithHandle
<1> QED BY <1>2, <1>3, <1>4, QuietPool

\* Rows that are being closed have their handle to themselves if they free it.
LEMMA RowsClosePool ==
  ASSUME PoolInv, srv.up, NEW r \in RowsObj, RowsClose(r) PROVE ObjectsInv' /\ OwnerInv'
<1>1. /\ Usable /\ SessionInv /\ ObjectsInv /\ rows[r].open /\ rows \in [RowsObj -> RowsRec]
      /\ rows[r] \in RowsRec
  BY PoolTypes DEF PoolInv, HandlesInv, SessionInv, CallsAreConsistent, RowsClose
<1>2. /\ UNCHANGED <<conn, stmts, srv>> /\ rows' = [rows EXCEPT ![r].open = FALSE]
      /\ call'.stmt = None /\ call'.stage = "free" /\ call'.rows = r
  BY <1>1 DEF RowsClose, NoCall
<1>3. /\ rows'[r] = [rows[r] EXCEPT !.open = FALSE]
      /\ \A q \in RowsObj : q # r => rows'[q] = rows[q]
  BY <1>1, <1>2
<1>4. ~rows'[r].open /\ rows'[r].handle = rows[r].handle /\ (rows'[r].autoFree <=> rows[r].autoFree)
  BY <1>1, <1>3 DEF RowsRec
<1>5. KeepsPool /\ ShrinksStmts /\ ShrinksRows
  BY <1>2, <1>3, <1>4 DEF KeepsPool, ShrinksStmts, ShrinksRows
<1>6. ObjectsInv'
  BY <1>1, <1>5, KeptObjects
<1>7. (rows[call.rows].autoFree => Unshared(rows[call.rows].handle))'
  <2> SUFFICES ASSUME rows[r].autoFree
               PROVE  (Unshared(rows[r].handle))'
    BY <1>2, <1>4
  <2>1. /\ rows[r].handle \in srv.stmt \ Pooled
        /\ \A s \in StmtObj : stmts[s].open => stmts[s].handle # rows[r].handle
        /\ \A q \in RowsObj : rows[q].open /\ rows[q].handle = rows[r].handle => q = r
    BY <1>1 DEF ObjectsInv
  <2>2. Pooled' = Pooled
    BY <1>2 DEF Pooled
  <2> QED BY <1>2, <1>3, <1>4, <2>1, <2>2 DEF Unshared
<1>8. OwnerInv'
  BY <1>2, <1>7 DEF OwnerInv, WithHandle
<1> QED BY <1>6, <1>8


\* Rows that free their handle give it up.
LEMMA freeRowsPool ==
  ASSUME PoolInv, srv.up, freeRows PROVE ObjectsInv' /\ OwnerInv'
<1>1. /\ call.stage = "free" /\ UNCHANGED stmts /\ conn \in ConnType /\ srv \in SrvType
      /\ SessionInv /\ ObjectsInv /\ OwnerInv /\ call \in CallType
      /\ rows \in [RowsObj -> RowsRec] /\ call.rows \in RowsObj
      /\ rows[call.rows].handle \in StmtHandle
  BY PoolTypes DEF freeRows, At, PoolInv, HandlesInv, SessionInv, CallsAreConsistent, RowsRec,
                   OptStmt
<1>2. ShrinksStmts /\ ShrinksRows
  <2>1. rows' = rows \/ rows' = [rows EXCEPT ![call.rows] = NoRows]
    BY DEF freeRows
  <2>2. ~NoRows.open
    BY DEF NoRows
  <2> QED BY <1>1, <2>1, <2>2 DEF ShrinksStmts, ShrinksRows
<1>3. ObjectsInv'
  <2> DEFINE r == rows[call.rows]
             s == IF r.hasCursor THEN closeCursor(srv, r.handle) ELSE srv
  <2>1. s \in SrvType /\ s.stmt = srv.stmt
    BY <1>1 DEF closeCursor, SrvType
  <2>2. CASE r.autoFree
    <3>1. conn' = recycle(conn, r.handle) /\ srv' = srvRecycle(conn, s, r.handle)
      BY <2>2 DEF freeRows
    <3> HIDE DEF s
    <3>2. GivesUp(r.handle)
      BY <1>1, <2>1, <3>1, RecycleGivesUp
    <3>3. Unshared(r.handle)
      BY <1>1, <2>2 DEF OwnerInv
    <3> QED BY <1>1, <1>2, <3>2, <3>3, GivenUp DEF Unshared, ShrinksStmts, ShrinksRows
  <2>3. CASE ~r.autoFree
    <3>1. conn' = conn /\ srv' = s
      BY <2>3 DEF freeRows
    <3> HIDE DEF s
    <3> QED BY <1>1, <1>2, <2>1, <3>1, KeptObjects DEF KeepsPool
  <2> QED BY <2>2, <2>3
<1>4. OwnerInv'
  <2>1. CASE call' = NoCall
    BY <2>1, IdleOwner
  <2>2. CASE call' = Advance(call)
    <3>1. call'.stage = "commitOnClose" /\ call'.stmt = None
      BY <1>1, <2>2, AdvanceKeeps DEF nextStage, OwnerInv
    <3> QED BY <3>1 DEF OwnerInv, WithHandle
  <2> QED BY <2>1, <2>2 DEF freeRows
<1> QED BY <1>3, <1>4

\* The commit of closed rows leaves the handles alone.
LEMMA commitRowsPool ==
  ASSUME PoolInv, commitRows PROVE ObjectsInv' /\ OwnerInv'
<1>1. /\ srv.up /\ call' = NoCall /\ UNCHANGED stmts /\ conn \in ConnType /\ srv \in SrvType
      /\ rows \in [RowsObj -> RowsRec] /\ rows' = [rows EXCEPT ![call.rows] = NoRows]
      /\ conn' = conn \/ conn' = invalidateAutoTx(conn)
      /\ srv' = srv \/ srv' = afterCommit(srv, call.tx)
  BY PoolTypes DEF commitRows, PoolInv
<1>2. conn'.freeHandles = conn.freeHandles
  BY <1>1, ConnPool
<1>3. srv'.stmt = srv.stmt
  BY <1>1 DEF afterCommit, SrvType
<1>4. ~NoRows.open
  BY DEF NoRows
<1>5. ShrinksStmts /\ ShrinksRows
  BY <1>1, <1>4 DEF ShrinksStmts, ShrinksRows
<1>6. call'.stmt = None /\ call'.stage \notin WithHandle \cup {"free"}
  BY <1>1, NoCallHandles DEF WithHandle
<1> QED BY <1>1, <1>2, <1>3, <1>5, <1>6, QuietPool DEF KeepsPool

\* database/sql closes a stmt only when no rows of it are open.
LEMMA StmtClosePool ==
  ASSUME PoolInv, srv.up, ~Raw, NEW s \in StmtObj, StmtClose(s) PROVE ObjectsInv' /\ OwnerInv'
<1>1. /\ Usable /\ SessionInv /\ ObjectsInv /\ stmts[s].open /\ stmts \in [StmtObj -> StmtRec]
      /\ UNCHANGED <<conn, rows, srv>> /\ stmts' = [stmts EXCEPT ![s] = NoStmt]
  BY PoolTypes DEF PoolInv, HandlesInv, SessionInv, CallsAreConsistent, StmtClose
<1>2. call'.stmt = None /\ call'.stage = "recycle" /\ call'.handle = stmts[s].handle
  BY <1>1 DEF StmtClose, NoCall
<1>3. ~NoStmt.open
  BY DEF NoStmt
<1>4. ~stmts'[s].open /\ \A q \in StmtObj : q # s => stmts'[q] = stmts[q]
  BY <1>1, <1>3
<1>5. KeepsPool /\ ShrinksStmts /\ ShrinksRows
  BY <1>1, <1>4 DEF KeepsPool, ShrinksStmts, ShrinksRows
<1>6. ObjectsInv'
  BY <1>1, <1>5, KeptObjects
<1>7. (Unshared(call.handle))'
  <2>1. /\ stmts[s].handle \in srv.stmt \ Pooled
        /\ \A q \in StmtObj : stmts[q].open /\ stmts[q].handle = stmts[s].handle => q = s
    BY <1>1 DEF ObjectsInv
  <2>2. \A r \in RowsObj : rows[r].open => rows[r].handle # stmts[s].handle
    BY DEF StmtClose, RowsClosed
  <2>3. Pooled' = Pooled
    BY <1>1 DEF Pooled
  <2> QED BY <1>1, <1>2, <1>4, <2>1, <2>2, <2>3 DEF Unshared
<1>8. OwnerInv'
  BY <1>2, <1>7 DEF OwnerInv, WithHandle
<1> QED BY <1>6, <1>8

\* A closed stmt gives its handle up.
LEMMA recycleStmtPool ==
  ASSUME PoolInv, srv.up, recycleStmt PROVE ObjectsInv' /\ OwnerInv'
<1>1. /\ call.stage = "recycle" /\ call' = NoCall /\ UNCHANGED <<stmts, rows>>
      /\ conn \in ConnType /\ srv \in SrvType /\ SessionInv /\ ObjectsInv /\ OwnerInv
  BY PoolTypes DEF recycleStmt, At, PoolInv, HandlesInv
<1>2. Unshared(call.handle) /\ call.handle \in StmtHandle
  BY <1>1, CallHandle DEF OwnerInv, WithHandle
<1> DEFINE c == recycle(conn, call.handle)
           s == srvRecycle(conn, srv, call.handle)
<1>3. c \in ConnType /\ s \in SrvType
  BY <1>1, <1>2, ConnFunctions DEF srvRecycle, drop, SrvType
<1>4. /\ conn' = c \/ conn' = [c EXCEPT !.dirtyAutoTx = FALSE] \/ conn' = invalidateAutoTx(c)
      /\ srv' = s \/ srv' = afterCommit(s, conn.autoTx)
  BY DEF recycleStmt
<1> HIDE DEF c, s
<1>5. conn'.freeHandles = c.freeHandles /\ srv'.stmt = s.stmt
  BY <1>3, <1>4 DEF invalidateAutoTx, afterCommit, ConnType, SrvType
<1>6. GivesUp(call.handle)
  BY <1>1, <1>5, RecycleGivesUp DEF c, s
<1>7. ShrinksStmts /\ ShrinksRows
  BY <1>1 DEF ShrinksStmts, ShrinksRows
<1>8. ObjectsInv'
  BY <1>1, <1>2, <1>6, <1>7, GivenUp DEF Unshared
<1> QED BY <1>1, <1>8, IdleOwner

----------------------------------------------------------------------------
(* The theorems *)

\* A connection that is closed, dropped or marked bad has lost its server.
LEMMA ToSrvDown ==
  ASSUME Close \/ LinkDrops \/ TransportError \/ ResetSession PROVE ~srv'.up
<1>1. srv' = SrvDown
  BY DEF Close, LinkDrops, TransportError, ResetSession
<1>2. ~SrvDown.up
  BY DEF SrvDown
<1> QED BY <1>1, <1>2

\* The link never comes back.
LEMMA LinkStaysDown == ASSUME SessionInv, [Next]_vars, srv'.up PROVE srv.up
<1>1. srv \in SrvType
  BY PoolTypes
<1>2. ASSUME NEW s \in SrvType, NEW c, NEW h
      PROVE  dropIfAdHoc(s).up = s.up /\ srvRecycle(c, s, h).up = s.up /\ closeCursor(s, h).up = s.up
             /\ srvRecycle(c, closeCursor(s, h), h).up = s.up
  BY DEF dropIfAdHoc, srvRecycle, closeCursor, drop, SrvType
<1>3. CASE UNCHANGED vars \/ StatementCalls
  <2>1. CASE StatementCalls
    BY <2>1 DEF StatementCalls, ExecContext, QueryContext, PrepareContext, StmtExecContext,
                StmtQueryContext, Enter
  <2> QED BY <1>3, <2>1 DEF vars
<1>4. CASE StatementSteps
  <2>1. CASE Describe
    BY <1>1, <1>2, <2>1 DEF Describe, Fail
  <2>2. CASE Params
    BY <1>1, <1>2, <2>2 DEF Params, Fail
  <2> QED BY <1>4, <2>1, <2>2
          DEF StatementSteps, getAutoTx, PrepareReuse, AllocateAndPrepare,
              ExecuteAndCommitRetaining, Execute, ExecuteQuery, CommitRetaining, getRowsAffected
<1>5. CASE TxSteps
  BY <1>5 DEF TxSteps, BeginTx, Commit, Rollback, EndTx, commitAutoTx, startTx, endCommit,
              endRollback
<1>6. CASE ObjectSteps
  <2>1. CASE freeRows
    <3>1. \/ srv' = srv
          \/ srv' = closeCursor(srv, rows[call.rows].handle)
          \/ srv' = srvRecycle(conn, srv, rows[call.rows].handle)
          \/ srv' = srvRecycle(conn, closeCursor(srv, rows[call.rows].handle),
                               rows[call.rows].handle)
      BY <2>1 DEF freeRows
    <3> QED BY <1>1, <1>2, <3>1
  <2>2. CASE recycleStmt
    <3>1. CASE srv' = srvRecycle(conn, srv, call.handle)
      BY <1>1, <1>2, <3>1
    <3>2. CASE mustCommitDirty
      BY <2>2, <3>2 DEF recycleStmt
    <3> QED BY <2>2, <3>1, <3>2 DEF recycleStmt
  <2> QED BY <1>6, <2>1, <2>2 DEF ObjectSteps, RowsNext, RowsClose, StmtClose, fetch, commitRows
<1>7. CASE ConnSteps \/ ResetSession
  <2>1. CASE Ping \/ pinged
    BY <2>1 DEF Ping, pinged
  <2>2. CASE Close \/ LinkDrops \/ TransportError \/ ResetSession
    BY <2>2, ToSrvDown
  <2> QED BY <1>7, <2>1, <2>2 DEF ConnSteps
<1> QED BY <1>3, <1>4, <1>5, <1>6, <1>7 DEF Next

\* Every step of the pool's callers preserves the invariant.
LEMMA StepPool == ASSUME PoolInv, ~Raw, [Next]_vars PROVE PoolInv'
<1>1. SessionInv'
  BY StepInv DEF PoolInv
<1>2. SUFFICES ASSUME srv'.up PROVE ObjectsInv' /\ OwnerInv'
  BY <1>1 DEF PoolInv, HandlesInv
<1>3. srv.up
  BY <1>2, LinkStaysDown DEF PoolInv
<1>4. CASE UNCHANGED vars
  <2>1. UNCHANGED <<conn, stmts, rows, call, srv>>
    BY <1>4 DEF vars
  <2>2. Pooled' = Pooled
    BY <2>1 DEF Pooled
  <2> QED BY <1>3, <2>1, <2>2 DEF PoolInv, HandlesInv, ObjectsInv, OwnerInv, Unshared
<1>5. CASE Close \/ LinkDrops \/ TransportError \/ ResetSession
  BY <1>2, <1>5, ToSrvDown
<1>6. CASE ObjectSteps \/ Ping \/ pinged
  BY <1>3, <1>6, QuietStepsPool, RowsClosePool, StmtClosePool, freeRowsPool, commitRowsPool,
     recycleStmtPool DEF ObjectSteps
<1> QED BY <1>3, <1>4, <1>5, <1>6, StatementCallsPool, StatementStepsPool, TxStepsPool
        DEF Next, ConnSteps

\* Every statement handle of a pooled connection has at most one owner, in
\* every reachable state.
THEOREM PoolInvariant == ASSUME ~Raw PROVE Spec => []PoolInv
<1>1. Init => PoolInv
  <2> SUFFICES ASSUME Init PROVE PoolInv
    OBVIOUS
  <2>1. SessionInv /\ OwnerInv
    BY InitInv DEF Init, OwnerInv, NoCall, WithHandle
  <2>2. conn.freeHandles = <<>> /\ (\A s \in StmtObj : ~stmts[s].open)
        /\ (\A r \in RowsObj : ~rows[r].open)
    BY DEF Init, NoStmt, NoRows
  <2>3. Pooled = {}
    BY <2>2 DEF Pooled
  <2>4. ObjectsInv
    BY <2>2, <2>3 DEF ObjectsInv
  <2> QED BY <2>1, <2>4 DEF PoolInv, HandlesInv
<1>2. PoolInv /\ [Next]_vars => PoolInv'
  BY StepPool
<1> QED BY <1>1, <1>2, PTL DEF Spec

\* Preparing a pooled handle again disturbs no open stmt and no open rows.
THEOREM PooledHandlesAreFree == ASSUME ~Raw PROVE Spec => []PoolIsExclusive
<1>1. PoolInv => PoolIsExclusive
  <2> SUFFICES ASSUME PoolInv, srv.up PROVE PoolIsExclusive
    BY DEF PoolIsExclusive
  <2>1. ObjectsInv
    BY DEF PoolInv, HandlesInv
  <2>2. \A i \in DOMAIN conn.freeHandles : conn.freeHandles[i] \in Pooled
    BY DEF Pooled
  <2> QED BY <2>1, <2>2 DEF ObjectsInv, PoolIsExclusive
<1> QED BY <1>1, PoolInvariant, PTL

----------------------------------------------------------------------------
(***************************************************************************)
(* The transactions of a connection, whoever calls: the transactions the   *)
(* driver would use are open on the server, and a statement that may be    *)
(* run again has left no trace.  Each action is first reduced to what it   *)
(* does to the connection, the call, the server's transactions and the     *)
(* ledger (its outcome); the invariants are proved of the outcomes.        *)
(***************************************************************************)

----------------------------------------------------------------------------
(* The inductive invariant: transactions *)

\* A transaction object whose transaction the server still has to end.
LiveTx(t) == txs[t].st \in {"open", "committing", "rolling back"}

\* The stages of a statement that come before the server has run it, and all.
Early == {"getAutoTx", "lateAutoTx", "prepare", "describe", "params", "execute"}
Running == Early \cup {"commitRetaining", "info"}

StatementFn == {"exec", "query", "prepare"}

\* Nothing ever marks the auto-commit transaction dirty, and activeTx belongs
\* to an open transaction object.
DriverInv ==
  /\ ~conn.dirtyAutoTx
  /\ conn.activeTx # None =>
       \E t \in TxObj : txs[t].st = "open" /\ txs[t].handle = conn.activeTx

\* Every transaction somebody still counts on is a transaction of the server,
\* each one somebody else's.
LiveInv ==
  srv.up =>
    /\ conn.autoTx # None => conn.autoTx \in srv.tx
    /\ \A t \in TxObj : LiveTx(t) => txs[t].handle \in srv.tx /\ txs[t].handle # conn.autoTx
    /\ \A t, u \in TxObj :
         LiveTx(t) /\ LiveTx(u) /\ txs[t].handle = txs[u].handle => t = u
    /\ \A h \in TxHandle : srv.pend[h] # {} => h \in srv.tx

\* The transaction a method works on is the one its caller means.
CallInv ==
  /\ call.stage = "commitAuto" => call.tx = conn.autoTx
  /\ call.stage \in {"commitAuto", "start"} =>
       call.fn = "begin" /\ call.obj \in TxObj /\ txs[call.obj].st = "none"
  /\ call.stage = "end" =>
       /\ call.obj \in TxObj
       /\ txs[call.obj].handle = call.tx
       /\ txs[call.obj].st = IF call.fn = "commit" THEN "committing" ELSE "rolling back"
  /\ call.stage \in Running <=> call.fn \in StatementFn
  /\ call.fn \in StatementFn => call.tx = IF call.auto THEN conn.autoTx ELSE conn.activeTx
  /\ call.auto => call.fn \in StatementFn
  /\ call.stage = "commitRetaining" => call.auto
  /\ call.fn \notin {"exec", "query", "next", "close rows"} => call.chg = None

\* A change that was not asked for, that was not run, or that the caller may
\* retry is nowhere.
Nowhere(c) == c \notin committed /\ \A h \in TxHandle : c \notin srv.pend[h]

RetryInv ==
  /\ call.stage \in Early /\ call.chg # None => Nowhere(call.chg)
  /\ \A c \in Change : ledger[c].by = "none" => Nowhere(c)
  /\ \A c \in Change : ledger[c].ack = "retry" => c \notin committed /\ ~srv.up
  /\ call.chg # None => ledger[call.chg].by # "none"
  /\ \A r \in RowsObj : rows[r].chg # None => ledger[rows[r].chg].by # "none"

TxInv == SessionInv /\ DriverInv /\ LiveInv /\ CallInv /\ RetryInv

----------------------------------------------------------------------------
(* What a step does, field by field *)

\* The zero call.
LEMMA NoCallFields ==
  /\ NoCall.fn = "none" /\ NoCall.stage = "none" /\ NoCall.auto = FALSE /\ NoCall.tx = None
  /\ NoCall.handle = None /\ NoCall.stmt = None /\ NoCall.rows = None
  /\ NoCall.obj = None /\ NoCall.chg = None
BY DEF NoCall

\* A method that starts a statement: who asks for it and for which change.
StartsFor(u, chg, typ) ==
  /\ MayCall(u) /\ Usable
  /\ UNCHANGED <<conn, stmts, rows, txs, srv, committed>>
  /\ call'.fn \in StatementFn /\ call'.stage \in Early
  /\ call'.auto = (conn.activeTx = None) /\ call'.tx = currentTx
  /\ call'.chg = chg /\ call'.typ = typ
  /\ \/ chg = None /\ UNCHANGED ledger /\ (call'.fn = "prepare" \/ typ = "select")
     \/ /\ chg \in Change /\ ledger[chg].by = "none" /\ call'.fn # "prepare"
        /\ typ = "select" => SelectMayWrite
        /\ ledger' = [ledger EXCEPT ![chg] = [by |-> u, ack |-> "open"]]

\* Every statement starts for somebody.
LEMMA StatementStarts ==
  ASSUME TypeOK, StatementCalls
  PROVE  \E u \in Users, chg \in Change \cup {None}, typ \in StmtType : StartsFor(u, chg, typ)
<1>1. PICK u \in Users :
        \/ \E typ \in StmtType, chg \in Change \cup {None} :
             ExecContext(typ, chg, u) \/ QueryContext(typ, chg, u)
        \/ \E typ \in StmtType : PrepareContext(typ, u)
        \/ \E s \in StmtObj, chg \in Change \cup {None} :
             StmtExecContext(s, chg, u) \/ StmtQueryContext(s, chg, u)
  BY DEF StatementCalls
<1>2. AutoTxOr("prepare") \in Early /\ AutoTxOr("params") \in Early /\ "params" \in Early
  BY DEF AutoTxOr, Early
<1>3. ASSUME NEW typ \in StmtType, NEW chg \in Change \cup {None}, NEW fn \in {"exec", "query"},
             NEW s, NEW h, NEW stage \in Early, MayCall(u), AsksFor(typ, chg, u),
             Enter(fn, typ, chg, s, h, stage)
      PROVE  StartsFor(u, chg, typ)
  BY <1>3 DEF StartsFor, AsksFor, Enter, StatementFn
<1>4. ASSUME NEW typ \in StmtType, PrepareContext(typ, u)
      PROVE  StartsFor(u, None, typ)
  BY <1>2, <1>4 DEF PrepareContext, StartsFor, Enter, StatementFn
<1>5. ASSUME NEW s \in StmtObj PROVE stmts[s].typ \in StmtType
  BY DEF TypeOK, StmtRec
<1>6. ASSUME NEW s \in StmtObj, NEW chg \in Change \cup {None}, StmtExecContext(s, chg, u)
      PROVE  StartsFor(u, chg, stmts[s].typ)
  BY <1>2, <1>3, <1>5, <1>6 DEF StmtExecContext
<1>7. ASSUME NEW s \in StmtObj, NEW chg \in Change \cup {None}, StmtQueryContext(s, chg, u)
      PROVE  StartsFor(u, chg, stmts[s].typ)
  BY <1>2, <1>3, <1>5, <1>7 DEF StmtQueryContext
<1>8. ASSUME NEW typ \in StmtType, NEW chg \in Change \cup {None},
             ExecContext(typ, chg, u) \/ QueryContext(typ, chg, u)
      PROVE  StartsFor(u, chg, typ)
  BY <1>2, <1>3, <1>8 DEF ExecContext, QueryContext
<1> QED BY <1>1, <1>4, <1>5, <1>6, <1>7, <1>8

\* The conn struct keeps its transactions, or forgets the auto-commit one.
KeepsConn ==
  /\ conn'.activeTx = conn.activeTx /\ conn'.autoTx = conn.autoTx
  /\ conn'.dirtyAutoTx = conn.dirtyAutoTx
  /\ conn'.closed = conn.closed /\ conn'.bad = conn.bad

DropsAuto ==
  /\ conn'.activeTx = conn.activeTx /\ conn'.autoTx = None /\ ~conn'.dirtyAutoTx
  /\ conn'.closed = conn.closed /\ conn'.bad = conn.bad

\* The transactions of the server stay as they are, or h holds the changes p.
KeepsDb ==
  srv'.up = srv.up /\ srv'.tx = srv.tx /\ srv'.pend = srv.pend /\ committed' = committed

Holds(h, p) ==
  /\ h \in srv.tx
  /\ srv'.up = srv.up /\ srv'.tx = srv.tx /\ srv'.pend = [srv.pend EXCEPT ![h] = p]

\* The server runs the statement; the server commits h, keeping it.
Runs == Holds(call.tx, srv.pend[call.tx] \cup Changes(call.chg)) /\ committed' = committed
Commits(h) == Holds(h, {}) /\ committed' = committed \cup srv.pend[h]

\* The method goes on with another round trip.
GoesOn(stage) ==
  /\ call'.fn = call.fn /\ call'.stage = stage /\ call'.auto = call.auto
  /\ call'.chg = call.chg /\ call'.typ = call.typ /\ call'.rows = call.rows
  /\ call'.obj = call.obj
  /\ UNCHANGED <<rows, txs, ledger>>

\* The method returns and its caller hears ack.
Fails == Return("error") /\ UNCHANGED <<rows, txs>>

----------------------------------------------------------------------------
(* The outcomes of the steps of a statement *)

\* getAutoTx starts the auto-commit transaction.
StartsAuto ==
  \E h \in TxHandle \ srv.tx :
    /\ call.stage \in {"getAutoTx", "lateAutoTx"} /\ call.auto /\ srv.up
    /\ srv'.up = srv.up /\ srv'.tx = srv.tx \cup {h} /\ srv'.pend = srv.pend
    /\ conn'.activeTx = conn.activeTx /\ conn'.autoTx = h
    /\ conn'.dirtyAutoTx = conn.dirtyAutoTx
    /\ conn'.closed = conn.closed /\ conn'.bad = conn.bad
    /\ call'.tx = h /\ (\E stage \in Early : GoesOn(stage))
    /\ committed' = committed

\* Nothing has been run yet, and the method goes on or fails.
GoesOnEarly ==
  /\ call.stage \in Early /\ KeepsConn /\ KeepsDb
  /\ call'.tx = call.tx /\ \E stage \in Early : GoesOn(stage)

FailsEarly ==
  /\ call.stage \in Early /\ (KeepsConn \/ (call.auto /\ DropsAuto)) /\ KeepsDb /\ Fails

\* PrepareContext returns a stmt.
Prepares ==
  /\ call.stage = "describe" /\ call.fn = "prepare" /\ KeepsConn /\ KeepsDb
  /\ Return("open") /\ UNCHANGED <<rows, txs>>

\* The statement and the commit of the same flush.
RunsAndCommits ==
  /\ call.stage = "execute" /\ call.fn = "exec" /\ call.auto /\ srv.up
  /\ \/ /\ Holds(call.tx, {}) /\ KeepsConn
        /\ committed' = committed \cup srv.pend[call.tx] \cup Changes(call.chg)
        /\ call'.tx = call.tx /\ GoesOn("info")
     \/ (Runs \/ Commits(call.tx) \/ KeepsDb) /\ DropsAuto /\ Fails

\* Exec runs and its caller is told nothing yet.
RunsExec ==
  /\ call.stage = "execute" /\ call.fn = "exec" /\ srv.up /\ KeepsConn /\ Runs
  /\ call'.tx = call.tx
  /\ GoesOn(IF call.auto THEN "commitRetaining" ELSE "info")

\* Query runs: rows are made, or reading the blobs of a procedure's row fails.
RunsQuery ==
  /\ call.stage = "execute" /\ call.fn = "query" /\ srv.up /\ Runs
  /\ \/ /\ KeepsConn /\ Return("open") /\ UNCHANGED txs
        /\ \E r \in RowsObj :
             /\ ~rows[r].open
             /\ rows' = [rows EXCEPT ![r] =
                  [open |-> TRUE, handle |-> call.handle, tx |-> call.tx,
                   autoFree |-> autoFreeStmt,
                   commitOnClose |-> commitOnClose(call.auto, call.typ),
                   hasCursor |-> call.typ # "proc", chg |-> call.chg]]
     \/ (IF call.auto THEN DropsAuto ELSE KeepsConn) /\ Fails

\* The commit after a procedure.
CommitsProc ==
  /\ call.stage = "commitRetaining" /\ srv.up
  /\ \/ KeepsConn /\ Commits(call.tx) /\ call'.tx = call.tx /\ GoesOn("info")
     \/ DropsAuto /\ KeepsDb /\ Fails

\* Exec returns a result.
Succeeds ==
  /\ call.stage = "info" /\ KeepsConn /\ KeepsDb
  /\ Return(ExecAck) /\ UNCHANGED <<rows, txs>>

\* The conn structs a statement leaves behind, field by field.
LEMMA ConnEffects ==
  ASSUME NEW c \in ConnType, NEW h
  PROVE  /\ invalidateAutoTx(c).dirtyAutoTx = FALSE
         /\ ~call.auto => invalidateIfAuto(c) = c
         /\ call.auto => invalidateIfAuto(c) = invalidateAutoTx(c)
         /\ recycle(c, h).dirtyAutoTx = c.dirtyAutoTx
BY DEF ConnType, invalidateAutoTx, invalidateIfAuto, recycle

\* What the server is sent about statement handles does not touch transactions.
LEMMA SrvEffects ==
  ASSUME NEW s \in SrvType, NEW c, NEW h
  PROVE  /\ drop(s, h).tx = s.tx /\ drop(s, h).pend = s.pend /\ drop(s, h).up = s.up
         /\ dropIfAdHoc(s).tx = s.tx /\ dropIfAdHoc(s).pend = s.pend /\ dropIfAdHoc(s).up = s.up
         /\ srvRecycle(c, s, h).tx = s.tx /\ srvRecycle(c, s, h).pend = s.pend
         /\ srvRecycle(c, s, h).up = s.up
         /\ closeCursor(s, h).tx = s.tx /\ closeCursor(s, h).pend = s.pend
         /\ closeCursor(s, h).up = s.up
BY DEF SrvType, drop, dropIfAdHoc, srvRecycle, closeCursor

\* Running a statement and committing, field by field.
LEMMA DbEffects ==
  ASSUME NEW s \in SrvType, NEW h
  PROVE  /\ afterExecute(s).tx = s.tx /\ afterExecute(s).up = s.up
         /\ afterExecute(s).pend = [s.pend EXCEPT ![call.tx] = @ \cup Changes(call.chg)]
         /\ afterCommit(s, h).tx = s.tx /\ afterCommit(s, h).up = s.up
         /\ afterCommit(s, h).pend = [s.pend EXCEPT ![h] = {}]
         /\ afterEnd(s, h).tx = s.tx \ {h} /\ afterEnd(s, h).up = s.up
         /\ afterEnd(s, h).pend = [s.pend EXCEPT ![h] = {}]
BY DEF SrvType, afterExecute, afterCommit, afterEnd

\* Advancing changes the stage only.
LEMMA AdvanceEffect ==
  ASSUME NEW c \in CallType, NEW t, NEW h
  PROVE  /\ Advance(c).stage = nextStage(c)
         /\ [Advance(c) EXCEPT !.tx = t].tx = t
         /\ [Advance(c) EXCEPT !.tx = t].stage = nextStage(c)
         /\ [Advance(c) EXCEPT !.handle = h].stage = nextStage(c)
         /\ [Advance(c) EXCEPT !.handle = h].tx = c.tx
         /\ Advance(c).tx = c.tx
         /\ \A d \in {Advance(c), [Advance(c) EXCEPT !.tx = t], [Advance(c) EXCEPT !.handle = h]} :
              /\ d.fn = c.fn /\ d.auto = c.auto /\ d.chg = c.chg /\ d.typ = c.typ
              /\ d.rows = c.rows /\ d.obj = c.obj
BY DEF CallType, Advance

\* Every step of a statement has one of these outcomes.
LEMMA StatementOutcomes ==
  ASSUME SessionInv, StatementSteps
  PROVE  \/ StartsAuto \/ GoesOnEarly \/ FailsEarly \/ Prepares \/ RunsAndCommits
         \/ RunsExec \/ RunsQuery \/ CommitsProc \/ Succeeds
<1>1. conn \in ConnType /\ srv \in SrvType /\ call \in CallType /\ call.tx \in OptTx
  BY DEF SessionInv, TypeOK, CallType
<1>2. nextStage(call) \in Early \/ call.stage \notin Early \ {"execute"}
  BY DEF nextStage, Early
<1>3. ASSUME getAutoTx PROVE StartsAuto \/ FailsEarly
  <2>1. call.stage \in {"getAutoTx", "lateAutoTx"} /\ nextStage(call) \in Early
        /\ call.stage \in Early
    BY <1>2, <1>3 DEF getAutoTx, At, Early
  <2>2. CASE Fail(conn, srv)
    BY <1>3, <2>1, <2>2 DEF getAutoTx, Fail, FailsEarly, KeepsConn, KeepsDb, Fails
  <2>3. CASE \E h \in TxHandle \ srv.tx :
               /\ srv' = [srv EXCEPT !.tx = @ \cup {h}]
               /\ conn' = [conn EXCEPT !.autoTx = h]
               /\ call' = [Advance(call) EXCEPT !.tx = h]
               /\ UNCHANGED <<stmts, rows, txs, ledger>>
    <3>1. PICK h \in TxHandle \ srv.tx :
               /\ srv' = [srv EXCEPT !.tx = @ \cup {h}]
               /\ conn' = [conn EXCEPT !.autoTx = h]
               /\ call' = [Advance(call) EXCEPT !.tx = h]
               /\ UNCHANGED <<stmts, rows, txs, ledger>>
      BY <2>3
    <3>2. srv'.up = srv.up /\ srv'.tx = srv.tx \cup {h} /\ srv'.pend = srv.pend
      BY <1>1, <3>1 DEF SrvType
    <3>3. /\ conn'.activeTx = conn.activeTx /\ conn'.autoTx = h
          /\ conn'.dirtyAutoTx = conn.dirtyAutoTx
          /\ conn'.closed = conn.closed /\ conn'.bad = conn.bad
      BY <1>1, <3>1 DEF ConnType
    <3>4. GoesOn(nextStage(call)) /\ call'.tx = h
      BY <1>1, <3>1, AdvanceEffect DEF GoesOn
    <3> QED BY <1>3, <2>1, <3>1, <3>2, <3>3, <3>4 DEF StartsAuto, getAutoTx
  <2> QED BY <1>3, <2>2, <2>3 DEF getAutoTx
<1>4. ASSUME NEW c \in ConnType, c.activeTx = conn.activeTx, c.autoTx = conn.autoTx,
             c.dirtyAutoTx = conn.dirtyAutoTx, c.closed = conn.closed, c.bad = conn.bad,
             NEW s, s.tx = srv.tx, s.pend = srv.pend, s.up = srv.up,
             Fail(invalidateIfAuto(c), s) \/ Fail(c, s),
             committed' = committed, call.stage \in Early
      PROVE  FailsEarly
  <2>1. KeepsDb /\ Fails
    BY <1>4 DEF Fail, KeepsDb, Fails
  <2>2. KeepsConn \/ (call.auto /\ DropsAuto)
    <3>1. CASE Fail(c, s)
      BY <1>4, <3>1 DEF Fail, KeepsConn
    <3>2. CASE Fail(invalidateIfAuto(c), s) /\ call.auto
      BY <1>4, <3>2, KeptFields, ConnEffects DEF Fail, DropsAuto
    <3>3. CASE Fail(invalidateIfAuto(c), s) /\ ~call.auto
      BY <1>4, <3>3, ConnEffects DEF Fail, KeepsConn
    <3> QED BY <1>1, <1>4, <3>1, <3>2, <3>3 DEF CallType
  <2> QED BY <1>4, <2>1, <2>2 DEF FailsEarly
<1>5. ASSUME PrepareReuse PROVE GoesOnEarly \/ FailsEarly
  <2> DEFINE n == Len(conn.freeHandles)
             c == [conn EXCEPT !.freeHandles = SubSeq(@, 1, n - 1)]
  <2>1. call.stage = "prepare" /\ committed' = committed /\ call.stage \in Early
        /\ nextStage(call) \in Early
    BY <1>2, <1>5 DEF PrepareReuse, At, Early
  <2>2. /\ c \in ConnType /\ c.activeTx = conn.activeTx /\ c.autoTx = conn.autoTx
        /\ c.dirtyAutoTx = conn.dirtyAutoTx /\ c.closed = conn.closed /\ c.bad = conn.bad
    <3>1. conn.freeHandles \in Seq(StmtHandle) /\ conn.freeHandles # <<>>
      BY <1>1, <1>5 DEF ConnType, PrepareReuse
    <3>2. n \in Nat /\ n >= 1
      BY <3>1
    <3>3. SubSeq(conn.freeHandles, 1, n - 1) \in Seq(StmtHandle)
      BY <3>1, <3>2
    <3> QED BY <1>1, <3>3 DEF ConnType
  <2>3. CASE Fail(invalidateIfAuto(c), srv)
    <3> HIDE DEF c
    <3> QED BY <1>4, <2>1, <2>2, <2>3
  <2>4. CASE /\ conn' = c
             /\ call' = [Advance(call) EXCEPT !.handle = conn.freeHandles[n]]
             /\ UNCHANGED <<stmts, rows, txs, srv, ledger>>
    <3>1. GoesOn(nextStage(call)) /\ call'.tx = call.tx
      BY <1>1, <2>4, AdvanceEffect DEF GoesOn
    <3> HIDE DEF c
    <3> QED BY <2>1, <2>2, <2>4, <3>1 DEF GoesOnEarly, KeepsConn, KeepsDb
  <2> QED BY <1>5, <2>3, <2>4 DEF PrepareReuse
<1>6. ASSUME AllocateAndPrepare PROVE GoesOnEarly \/ FailsEarly
  <2>1. call.stage = "prepare" /\ committed' = committed /\ call.stage \in Early
        /\ nextStage(call) \in Early
    BY <1>2, <1>6 DEF AllocateAndPrepare, At, Early
  <2>2. CASE Fail(invalidateIfAuto(conn), srv)
    BY <1>1, <1>4, <2>1, <2>2
  <2>3. ASSUME NEW h, NEW s, s = [srv EXCEPT !.stmt = @ \cup {h}],
               \/ /\ srv' = s
                  /\ call' = [Advance(call) EXCEPT !.handle = h]
                  /\ UNCHANGED <<conn, stmts, rows, txs, ledger>>
               \/ Fail(invalidateIfAuto(conn), s)
        PROVE  GoesOnEarly \/ FailsEarly
    <3>1. s.tx = srv.tx /\ s.pend = srv.pend /\ s.up = srv.up
      BY <1>1, <2>3 DEF SrvType
    <3>2. CASE Fail(invalidateIfAuto(conn), s)
      BY <1>1, <1>4, <2>1, <3>1, <3>2
    <3>3. CASE /\ srv' = s
               /\ call' = [Advance(call) EXCEPT !.handle = h]
               /\ UNCHANGED <<conn, stmts, rows, txs, ledger>>
      <4>1. GoesOn(nextStage(call)) /\ call'.tx = call.tx
        BY <1>1, <3>3, AdvanceEffect DEF GoesOn
      <4> QED BY <2>1, <3>1, <3>3, <4>1 DEF GoesOnEarly, KeepsConn, KeepsDb
    <3> QED BY <2>3, <3>2, <3>3
  <2> QED BY <1>6, <2>2, <2>3 DEF AllocateAndPrepare
<1>7. ASSUME Describe PROVE GoesOnEarly \/ FailsEarly \/ Prepares
  <2>1. call.stage = "describe" /\ committed' = committed /\ call.stage \in Early
        /\ nextStage(call) \in Early /\ call.handle \in StmtHandle
    BY <1>2, <1>7, CallHandle DEF Describe, At, Early
  <2>2. CASE Fail(recycle(conn, call.handle), srvRecycle(conn, srv, call.handle))
    <3>1. recycle(conn, call.handle) \in ConnType
      BY <1>1, <2>1, ConnFunctions
    <3>2. /\ recycle(conn, call.handle).activeTx = conn.activeTx
          /\ recycle(conn, call.handle).autoTx = conn.autoTx
          /\ recycle(conn, call.handle).dirtyAutoTx = conn.dirtyAutoTx
          /\ recycle(conn, call.handle).closed = conn.closed
          /\ recycle(conn, call.handle).bad = conn.bad
      BY <1>1, KeptFields, ConnEffects
    <3>3. /\ srvRecycle(conn, srv, call.handle).tx = srv.tx
          /\ srvRecycle(conn, srv, call.handle).pend = srv.pend
          /\ srvRecycle(conn, srv, call.handle).up = srv.up
      BY <1>1, SrvEffects
    <3> QED BY <1>4, <2>1, <2>2, <3>1, <3>2, <3>3
  <2>3. CASE /\ call' = Advance(call)
             /\ UNCHANGED <<conn, stmts, rows, txs, srv, ledger>>
    <3>1. GoesOn(nextStage(call)) /\ call'.tx = call.tx
      BY <1>1, <2>3, AdvanceEffect DEF GoesOn
    <3> QED BY <2>1, <2>3, <3>1 DEF GoesOnEarly, KeepsConn, KeepsDb
  <2>4. CASE call.fn = "prepare" /\ Return("open") /\ UNCHANGED <<conn, rows, txs, srv>>
    BY <2>1, <2>4 DEF Prepares, KeepsConn, KeepsDb
  <2> QED BY <1>7, <2>2, <2>3, <2>4 DEF Describe
<1>8. ASSUME Params PROVE GoesOnEarly \/ FailsEarly
  <2>1. call.stage = "params" /\ committed' = committed /\ call.stage \in Early
        /\ nextStage(call) \in Early
    BY <1>2, <1>8 DEF Params, At, Early
  <2>2. CASE Fail(invalidateIfAuto(conn), dropIfAdHoc(srv))
    BY <1>1, <1>4, <2>1, <2>2, SrvEffects
  <2>3. CASE /\ call' = Advance(call)
             /\ UNCHANGED <<conn, stmts, rows, txs, srv, ledger>>
    <3>1. GoesOn(nextStage(call)) /\ call'.tx = call.tx
      BY <1>1, <2>3, AdvanceEffect DEF GoesOn
    <3> QED BY <2>1, <2>3, <3>1 DEF GoesOnEarly, KeepsConn, KeepsDb
  <2> QED BY <1>8, <2>2, <2>3 DEF Params
<1>9. ASSUME ExecuteAndCommitRetaining PROVE RunsAndCommits
  <2>1. call.stage = "execute" /\ call.fn = "exec" /\ call.auto /\ srv.up
    BY <1>9 DEF ExecuteAndCommitRetaining, At
  <2>2. PICK executed, done \in BOOLEAN :
          LET s == IF executed THEN afterExecute(srv) ELSE srv
              t == IF done THEN afterCommit(s, call.tx) ELSE s
          IN /\ executed => CanExecute
             /\ done => call.tx \in srv.tx
             /\ committed' = IF done THEN committed \cup s.pend[call.tx] ELSE committed
             /\ \/ /\ executed /\ done
                   /\ srv' = t
                   /\ call' = Advance(call)
                   /\ UNCHANGED <<conn, stmts, rows, txs, ledger>>
                \/ /\ ~(executed /\ done)
                   /\ Fail(invalidateAutoTx(conn), dropIfAdHoc(t))
    BY <1>9 DEF ExecuteAndCommitRetaining
  <2> DEFINE s == IF executed THEN afterExecute(srv) ELSE srv
             t == IF done THEN afterCommit(s, call.tx) ELSE s
  <2>3. s \in SrvType /\ s.tx = srv.tx /\ s.up = srv.up
        /\ (~executed => s.pend = srv.pend)
        /\ (executed => s.pend = [srv.pend EXCEPT ![call.tx] = @ \cup Changes(call.chg)])
    BY <1>1, <2>1, afterExecuteType, CallHandle, DbEffects
  <2>4. t \in SrvType /\ t.tx = srv.tx /\ t.up = srv.up /\ (~done => t.pend = s.pend)
        /\ (done => t.pend = [s.pend EXCEPT ![call.tx] = {}])
    BY <2>3, afterCommitType, DbEffects
  <2>5. /\ dropIfAdHoc(t).tx = srv.tx /\ dropIfAdHoc(t).up = srv.up
        /\ dropIfAdHoc(t).pend = t.pend
    BY <2>4, SrvEffects
  <2>6. srv.pend \in [TxHandle -> SUBSET Change] /\ srv.tx \subseteq TxHandle
    BY <1>1 DEF SrvType
  <2>7. (executed => call.tx \in srv.tx) /\ (done => call.tx \in srv.tx)
        /\ committed' = (IF done THEN committed \cup s.pend[call.tx] ELSE committed)
    BY <2>2 DEF CanExecute
  <2> HIDE DEF s, t
  <2>8. CASE executed /\ done /\ srv' = t /\ call' = Advance(call)
             /\ UNCHANGED <<conn, stmts, rows, txs, ledger>>
    <3>1. nextStage(call) = "info"
      BY <1>9, <2>1 DEF nextStage, ExecuteAndCommitRetaining
    <3>2. GoesOn("info") /\ call'.tx = call.tx
      BY <1>1, <2>8, <3>1, AdvanceEffect DEF GoesOn
    <3>3. t.pend = [srv.pend EXCEPT ![call.tx] = {}]
          /\ s.pend[call.tx] = srv.pend[call.tx] \cup Changes(call.chg)
      BY <2>3, <2>4, <2>6, <2>7, <2>8
    <3>4. Holds(call.tx, {}) /\ KeepsConn
          /\ committed' = committed \cup srv.pend[call.tx] \cup Changes(call.chg)
      BY <2>4, <2>7, <2>8, <3>3 DEF Holds, KeepsConn
    <3> QED BY <2>1, <3>2, <3>4 DEF RunsAndCommits
  <2>9. CASE ~(executed /\ done) /\ Fail(invalidateAutoTx(conn), dropIfAdHoc(t))
    <3>1. srv'.tx = srv.tx /\ srv'.up = srv.up /\ srv'.pend = t.pend /\ Fails /\ DropsAuto
      BY <1>1, <2>5, <2>9, KeptFields, ConnEffects DEF Fail, Fails, DropsAuto
    <3>3. CASE ~executed /\ done
      BY <2>1, <2>3, <2>4, <2>7, <3>1, <3>3 DEF Commits, Holds, RunsAndCommits
    <3>4. CASE ~executed /\ ~done
      BY <2>1, <2>3, <2>4, <2>7, <3>1, <3>4 DEF KeepsDb, RunsAndCommits
    <3>5. CASE executed /\ ~done
      <4>1. Runs
        BY <2>3, <2>4, <2>7, <3>1, <3>5 DEF Runs, Holds
      <4> QED BY <2>1, <3>1, <4>1 DEF RunsAndCommits
    <3> QED BY <2>9, <3>3, <3>4, <3>5
  <2> QED BY <2>2, <2>8, <2>9 DEF s, t
<1>10. ASSUME call.tx \in srv.tx, srv'.tx = srv.tx, srv'.up = srv.up,
              srv'.pend = afterExecute(srv).pend, committed' = committed
       PROVE  Runs
  BY <1>1, <1>10, DbEffects DEF Runs, Holds
<1>11. ASSUME Execute PROVE RunsExec \/ FailsEarly
  <2>1. call.stage = "execute" /\ call.fn = "exec" /\ srv.up /\ call.stage \in Early
        /\ committed' = committed /\ (call.auto => call.typ = "proc")
    BY <1>11 DEF Execute, At, Early
  <2>2. CASE Fail(invalidateIfAuto(conn), dropIfAdHoc(srv))
    BY <1>1, <1>4, <2>1, <2>2, SrvEffects
  <2>3. CASE /\ CanExecute
             /\ srv' = afterExecute(srv)
             /\ call' = Advance(call)
             /\ UNCHANGED <<conn, stmts, rows, txs, ledger>>
    <3>1. nextStage(call) = IF call.auto THEN "commitRetaining" ELSE "info"
      BY <2>1 DEF nextStage
    <3>2. GoesOn(nextStage(call)) /\ call'.tx = call.tx
      BY <1>1, <2>3, AdvanceEffect DEF GoesOn
    <3>3. Runs
      BY <1>1, <1>10, <2>1, <2>3, DbEffects DEF CanExecute
    <3> QED BY <2>1, <2>3, <3>1, <3>2, <3>3 DEF RunsExec, KeepsConn
  <2> QED BY <1>11, <2>2, <2>3 DEF Execute
<1>12. ASSUME ExecuteQuery PROVE RunsQuery \/ FailsEarly
  <2>1. call.stage = "execute" /\ call.fn = "query" /\ srv.up /\ call.stage \in Early
        /\ committed' = committed /\ call.handle \in StmtHandle
    BY <1>12, CallHandle DEF ExecuteQuery, At, Early
  <2>2. CASE Fail(invalidateIfAuto(conn), dropIfAdHoc(srv))
    BY <1>1, <1>4, <2>1, <2>2, SrvEffects
  <2>3. CASE CanExecute /\ Fail(invalidateIfAuto(conn), dropIfAdHoc(afterExecute(srv)))
    <3>1. afterExecute(srv) \in SrvType
      BY <2>1, afterExecuteType
    <3>2. srv' = dropIfAdHoc(afterExecute(srv)) /\ conn' = invalidateIfAuto(conn) /\ Fails
      BY <2>3 DEF Fail, Fails
    <3>3. Runs
      <4>1. srv'.tx = srv.tx /\ srv'.up = srv.up /\ srv'.pend = afterExecute(srv).pend
        BY <1>1, <3>1, <3>2, DbEffects, SrvEffects
      <4>2. call.tx \in srv.tx
        BY <2>3 DEF CanExecute
      <4> QED BY <1>10, <2>1, <4>1, <4>2
    <3>4. IF call.auto THEN DropsAuto ELSE KeepsConn
      <4>1. CASE call.auto
        <5>1. conn' = invalidateAutoTx(conn)
          BY <1>1, <3>2, <4>1, ConnEffects
        <5>2. DropsAuto
          BY <1>1, <5>1, KeptFields, ConnEffects DEF DropsAuto
        <5> QED BY <4>1, <5>2
      <4>2. CASE ~call.auto
        BY <1>1, <3>2, <4>2, ConnEffects DEF KeepsConn
      <4> QED BY <4>1, <4>2
    <3> QED BY <2>1, <3>2, <3>3, <3>4 DEF RunsQuery
  <2>4. CASE /\ CanExecute
             /\ srv' = afterExecute(srv)
             /\ \E r \in RowsObj :
                  /\ ~rows[r].open
                  /\ rows' = [rows EXCEPT ![r] =
                       [open |-> TRUE, handle |-> call.handle, tx |-> call.tx,
                        autoFree |-> autoFreeStmt,
                        commitOnClose |-> commitOnClose(call.auto, call.typ),
                        hasCursor |-> call.typ # "proc", chg |-> call.chg]]
             /\ Return("open")
             /\ UNCHANGED <<conn, stmts, txs>>
    <3>1. Runs
      BY <1>1, <1>10, <2>1, <2>4, DbEffects DEF CanExecute
    <3> QED BY <2>1, <2>4, <3>1 DEF RunsQuery, KeepsConn
  <2> QED BY <1>12, <2>2, <2>3, <2>4 DEF ExecuteQuery
<1>13. ASSUME CommitRetaining PROVE CommitsProc
  <2>1. call.stage = "commitRetaining" /\ srv.up
    BY <1>13 DEF CommitRetaining, At
  <2>2. CASE Fail(invalidateAutoTx(conn), dropIfAdHoc(srv)) /\ committed' = committed
    <3>1. KeepsDb /\ DropsAuto /\ Fails
      BY <1>1, <2>2, KeptFields, ConnEffects, SrvEffects DEF Fail, KeepsDb, DropsAuto, Fails
    <3> QED BY <2>1, <3>1 DEF CommitsProc
  <2>3. CASE /\ call.tx \in srv.tx
             /\ committed' = committed \cup srv.pend[call.tx]
             /\ srv' = afterCommit(srv, call.tx)
             /\ call' = Advance(call)
             /\ UNCHANGED <<conn, stmts, rows, txs, ledger>>
    <3>1. nextStage(call) = "info"
      BY <2>1 DEF nextStage
    <3>2. GoesOn("info") /\ call'.tx = call.tx
      BY <1>1, <2>3, <3>1, AdvanceEffect DEF GoesOn
    <3>3. Commits(call.tx) /\ KeepsConn
      BY <1>1, <2>3, DbEffects DEF Commits, Holds, KeepsConn
    <3> QED BY <2>1, <3>2, <3>3 DEF CommitsProc
  <2> QED BY <1>13, <2>2, <2>3 DEF CommitRetaining
<1>14. ASSUME getRowsAffected PROVE Succeeds
  <2>1. call.stage = "info" /\ Return(ExecAck) /\ UNCHANGED <<rows, txs>>
        /\ committed' = committed
    BY <1>14 DEF getRowsAffected, At
  <2>2. conn' \in {conn, recycle(conn, call.handle)}
        /\ srv' \in {srv, srvRecycle(conn, srv, call.handle)}
    BY <1>14 DEF getRowsAffected
  <2>3. KeepsConn
    <3>1. CASE conn' = conn
      BY <3>1 DEF KeepsConn
    <3>2. CASE conn' = recycle(conn, call.handle)
      BY <1>1, <3>2, KeptFields, ConnEffects DEF KeepsConn
    <3> QED BY <2>2, <3>1, <3>2
  <2>4. KeepsDb
    BY <1>1, <2>1, <2>2, SrvEffects DEF KeepsDb
  <2> QED BY <2>1, <2>3, <2>4 DEF Succeeds
<1> QED BY <1>3, <1>5, <1>6, <1>7, <1>8, <1>9, <1>11, <1>12, <1>13, <1>14 DEF StatementSteps

----------------------------------------------------------------------------
(* Statements preserve the invariant of transactions *)

\* The types that the steps below compute with.
LEMMA TxTypes ==
  ASSUME SessionInv
  PROVE  /\ srv.tx \subseteq TxHandle /\ srv.pend \in [TxHandle -> SUBSET Change]
         /\ call.tx \in OptTx /\ call.chg \in Change \cup {None} /\ call.auto \in BOOLEAN
         /\ conn.activeTx \in OptTx /\ conn.autoTx \in OptTx
         /\ ledger \in [Change -> Entry] /\ txs \in [TxObj -> TxRec]
         /\ rows \in [RowsObj -> RowsRec] /\ committed \subseteq Change
         /\ conn.bad \in BOOLEAN /\ conn.closed \in BOOLEAN
BY DEF SessionInv, TypeOK, SrvType, CallType, ConnType

\* Telling the caller how it went changes one ack.
LEMMA ReturnEffect ==
  ASSUME SessionInv, NEW ack, Return(ack)
  PROVE  /\ call' = NoCall
         /\ \A c \in Change : ledger'[c].by = ledger[c].by
         /\ \A c \in Change : c # call.chg => ledger'[c].ack = ledger[c].ack
         /\ \A c \in Change : c = call.chg => ledger'[c].ack = ack
         /\ call.chg = None => ledger' = ledger
BY TxTypes DEF Return, Settle, Entry

\* An entry of the ledger.
LEMMA EntryFields ==
  ASSUME NEW x, NEW by, NEW ack, x = [by |-> by, ack |-> ack]
  PROVE  x.by = by /\ x.ack = ack
OBVIOUS

\* A statement starts.
LEMMA StartsForTx ==
  ASSUME TxInv, NEW u \in Users, NEW chg \in Change \cup {None}, NEW typ, StartsFor(u, chg, typ)
  PROVE  DriverInv' /\ LiveInv' /\ CallInv' /\ RetryInv'
<1>1. UNCHANGED <<conn, stmts, rows, txs, srv, committed>>
  BY DEF StartsFor
<1>2. DriverInv' /\ LiveInv'
  BY <1>1 DEF TxInv, DriverInv, LiveInv, LiveTx
<1>3. /\ call'.fn \in StatementFn /\ call'.stage \in Early /\ call'.chg = chg
      /\ call'.auto = (conn.activeTx = None) /\ call'.tx = currentTx
      /\ call'.fn = "prepare" => chg = None
  BY DEF StartsFor
<1>4. CallInv'
  BY <1>1, <1>3 DEF CallInv, StatementFn, Early, Running, currentTx
<1>5. ledger \in [Change -> Entry] /\ u # "none"
  BY TxTypes DEF TxInv, Users
<1>6. CASE chg = None /\ UNCHANGED ledger
  <2>1. \A c \in Change : Nowhere(c) => Nowhere(c)'
    BY <1>1 DEF Nowhere
  <2>2. call'.chg = None /\ ledger' = ledger /\ rows' = rows /\ srv' = srv /\ committed' = committed
    BY <1>1, <1>3, <1>6
  <2> QED BY <1>2, <1>4, <2>1, <2>2 DEF TxInv, RetryInv
<1>7. CASE /\ chg \in Change /\ ledger[chg].by = "none"
           /\ ledger' = [ledger EXCEPT ![chg] = [by |-> u, ack |-> "open"]]
  <2>1. /\ ledger'[chg].by = u /\ ledger'[chg].ack = "open"
        /\ \A c \in Change : c # chg => ledger'[c] = ledger[c]
    BY <1>5, <1>7
  <2>2. \A r \in RowsObj : rows[r].chg \in Change \cup {None}
    BY TxTypes DEF TxInv, RowsRec
  <2>3. \A c \in Change : Nowhere(c) => Nowhere(c)'
    BY <1>1 DEF Nowhere
  <2>4. call'.chg = chg /\ rows' = rows /\ srv' = srv /\ committed' = committed
    BY <1>1, <1>3
  <2>5. RetryInv'
    BY <1>5, <1>7, <2>1, <2>2, <2>3, <2>4 DEF TxInv, RetryInv
  <2> QED BY <1>2, <1>4, <2>5
<1> QED BY <1>2, <1>4, <1>6, <1>7 DEF StartsFor

\* The driver's and the server's transactions stay.
LEMMA KeptTx ==
  ASSUME TxInv, KeepsConn \/ DropsAuto, srv'.up = srv.up, srv'.tx = srv.tx,
         srv.up => \A h \in TxHandle : srv'.pend[h] # {} => h \in srv.tx,
         UNCHANGED txs
  PROVE  DriverInv' /\ LiveInv'
<1>1. conn'.activeTx = conn.activeTx /\ conn'.autoTx \in {conn.autoTx, None}
      /\ ~conn'.dirtyAutoTx
  BY DEF KeepsConn, DropsAuto, TxInv, DriverInv
<1>2. DriverInv'
  BY <1>1 DEF TxInv, DriverInv
<1>3. \A t \in TxObj : LiveTx(t) => txs[t].handle # None \/ ~srv.up
  BY TxTypes DEF TxInv, LiveInv
<1>4. LiveInv'
  BY <1>1, <1>3 DEF TxInv, LiveInv, LiveTx
<1> QED BY <1>2, <1>4

\* What a statement may do to its transaction.
LEMMA KeptDb ==
  ASSUME TxInv, KeepsDb \/ Runs \/ Commits(call.tx) \/ Holds(call.tx, {})
  PROVE  /\ srv'.up = srv.up /\ srv'.tx = srv.tx
         /\ srv.up => \A h \in TxHandle : srv'.pend[h] # {} => h \in srv.tx
         /\ \A h \in TxHandle : \A c \in srv'.pend[h] : c \in srv.pend[h] \/ c = call.chg
BY TxTypes DEF TxInv, KeepsDb, Runs, Commits, Holds, Changes, LiveInv

\* No call, no constraint.
LEMMA IdleTx == ASSUME call' = NoCall PROVE CallInv'
BY NoCallFields DEF CallInv, Running, Early, StatementFn

\* A step that runs or commits no more than the change of the call, and tells
\* nobody to retry a change that is somewhere, preserves RetryInv.
LEMMA KeptRetry ==
  ASSUME TxInv, srv'.up => srv.up,
         \A h \in TxHandle : \A c \in srv'.pend[h] : c \in srv.pend[h] \/ c = call.chg,
         \A c \in committed' : \/ c \in committed
                               \/ srv.up /\ (c = call.chg \/ \E h \in TxHandle : c \in srv.pend[h]),
         \A c \in Change : ledger'[c].by = ledger[c].by,
         \A c \in Change : ledger'[c].ack = "retry" =>
            ledger[c].ack = "retry" \/ (~srv'.up /\ c \notin committed'),
         \/ call'.chg \in {call.chg, None}
         \/ \E r \in RowsObj : call'.chg = rows[r].chg,
         call'.stage \in Early =>
            /\ call.stage \in Early /\ call'.chg = call.chg /\ committed' = committed
            /\ \A h \in TxHandle : srv'.pend[h] \subseteq srv.pend[h],
         \A r \in RowsObj : rows'[r].chg \in {rows[r].chg, call.chg, None}
  PROVE  RetryInv'
<1>1. call.chg \in Change \cup {None} /\ \A r \in RowsObj : rows[r].chg \in Change \cup {None}
  BY TxTypes DEF TxInv, RowsRec
<1>2. RetryInv
  BY DEF TxInv
<1>3. (call.stage \in Early /\ call.chg # None => Nowhere(call.chg))'
  BY <1>1, <1>2 DEF RetryInv, Nowhere
<1>4. \A c \in Change : ledger'[c].by = "none" => Nowhere(c)'
  BY <1>1, <1>2 DEF RetryInv, Nowhere
<1>5. \A c \in Change : ledger'[c].ack = "retry" => c \notin committed' /\ ~srv'.up
  BY <1>2 DEF RetryInv
<1>6. call'.chg # None => ledger'[call'.chg].by # "none"
  BY <1>1, <1>2 DEF RetryInv
<1>7. \A r \in RowsObj : rows'[r].chg # None => ledger'[rows'[r].chg].by # "none"
  BY <1>1, <1>2 DEF RetryInv
<1> QED BY <1>3, <1>4, <1>5, <1>6, <1>7 DEF RetryInv

\* What a statement may commit.
LEMMA KeptCommitted ==
  ASSUME TxInv,
         \/ KeepsDb \/ Runs
         \/ srv.up /\ Commits(call.tx)
         \/ /\ srv.up /\ Holds(call.tx, {})
            /\ committed' = committed \cup srv.pend[call.tx] \cup Changes(call.chg)
  PROVE  \A c \in committed' :
           \/ c \in committed
           \/ srv.up /\ (c = call.chg \/ \E h \in TxHandle : c \in srv.pend[h])
BY TxTypes DEF TxInv, KeepsDb, Runs, Commits, Holds, Changes

\* A method that returns, whatever its statement did.
LEMMA ReturnsTx ==
  ASSUME TxInv, KeepsConn \/ DropsAuto, UNCHANGED txs,
         KeepsDb \/ Runs \/ (srv.up /\ Commits(call.tx)),
         NEW ack, ack # "retry", Return(ack),
         \A r \in RowsObj : rows'[r].chg \in {rows[r].chg, call.chg, None}
  PROVE  DriverInv' /\ LiveInv' /\ CallInv' /\ RetryInv'
<1>1. DriverInv' /\ LiveInv'
  BY KeptDb, KeptTx
<1>2. call' = NoCall /\ (\A c \in Change : ledger'[c].by = ledger[c].by)
      /\ (\A c \in Change : ledger'[c].ack = "retry" => ledger[c].ack = "retry")
  BY ReturnEffect DEF TxInv
<1>3. CallInv'
  BY <1>2, IdleTx
<1>4. call'.chg = None /\ call'.stage \notin Early
  BY <1>2, NoCallFields DEF Early
<1>5. srv'.up = srv.up
  BY KeptDb
<1>6. \A h \in TxHandle : \A c \in srv'.pend[h] : c \in srv.pend[h] \/ c = call.chg
  BY KeptDb
<1>7. \A c \in committed' :
        \/ c \in committed
        \/ srv.up /\ (c = call.chg \/ \E h \in TxHandle : c \in srv.pend[h])
  BY KeptCommitted
<1>8. RetryInv'
  BY <1>2, <1>4, <1>5, <1>6, <1>7, KeptRetry
<1> QED BY <1>1, <1>3, <1>8

\* A method that goes on, whatever its statement did.
LEMMA GoesOnTx ==
  ASSUME TxInv, KeepsConn, call'.tx = call.tx, NEW stage, GoesOn(stage),
         KeepsDb \/ Runs
           \/ (srv.up /\ Commits(call.tx))
           \/ (srv.up /\ Holds(call.tx, {})
                /\ committed' = committed \cup srv.pend[call.tx] \cup Changes(call.chg)),
         call.stage \in Running, stage \in Running,
         stage \in Early => call.stage \in Early /\ KeepsDb,
         stage = "commitRetaining" => call.auto
  PROVE  DriverInv' /\ LiveInv' /\ CallInv' /\ RetryInv'
<1>1. UNCHANGED <<rows, txs, ledger>> /\ call'.stage = stage /\ call'.fn = call.fn
      /\ call'.auto = call.auto /\ call'.chg = call.chg
  BY DEF GoesOn
<1>2. DriverInv' /\ LiveInv'
  BY <1>1, KeptDb, KeptTx
<1>3. CallInv'
  <2>1. call.fn \in StatementFn /\ call.tx = (IF call.auto THEN conn.autoTx ELSE conn.activeTx)
        /\ (call.fn = "prepare" => call.chg = None)
    BY DEF TxInv, CallInv
  <2>2. stage \notin {"commitAuto", "start", "end"}
    BY DEF Running, Early
  <2> QED BY <1>1, <2>1, <2>2 DEF CallInv, KeepsConn, StatementFn
<1>4. srv'.up = srv.up
  BY KeptDb
<1>5. \A h \in TxHandle : \A c \in srv'.pend[h] : c \in srv.pend[h] \/ c = call.chg
  BY KeptDb
<1>6. \A c \in committed' :
        \/ c \in committed
        \/ srv.up /\ (c = call.chg \/ \E h \in TxHandle : c \in srv.pend[h])
  BY KeptCommitted
<1>7. stage \in Early => committed' = committed /\ \A h \in TxHandle : srv'.pend[h] \subseteq srv.pend[h]
  BY DEF KeepsDb
<1>8. \A r \in RowsObj : rows'[r].chg = rows[r].chg
  BY <1>1
<1>9. RetryInv'
  BY <1>1, <1>4, <1>5, <1>6, <1>7, <1>8, KeptRetry
<1> QED BY <1>2, <1>3, <1>9

\* The steps of a statement, together.
LEMMA StatementStepsTx ==
  ASSUME TxInv, StatementSteps
  PROVE  DriverInv' /\ LiveInv' /\ CallInv' /\ RetryInv'
<1>1. ASSUME StartsAuto PROVE DriverInv' /\ LiveInv' /\ CallInv' /\ RetryInv'
  <2>1. PICK h \in TxHandle \ srv.tx :
    /\ call.stage \in {"getAutoTx", "lateAutoTx"} /\ call.auto /\ srv.up
    /\ srv'.up = srv.up /\ srv'.tx = srv.tx \cup {h} /\ srv'.pend = srv.pend
    /\ conn'.activeTx = conn.activeTx /\ conn'.autoTx = h
    /\ conn'.dirtyAutoTx = conn.dirtyAutoTx
    /\ conn'.closed = conn.closed /\ conn'.bad = conn.bad
    /\ call'.tx = h /\ (\E stage \in Early : GoesOn(stage))
    /\ committed' = committed
    BY <1>1 DEF StartsAuto
  <2>2. UNCHANGED <<rows, txs, ledger>> /\ call'.stage \in Early /\ call'.fn = call.fn
        /\ call'.auto = call.auto /\ call'.chg = call.chg
    BY <2>1 DEF GoesOn
  <2>3. DriverInv'
    BY <2>1, <2>2 DEF TxInv, DriverInv
  <2>4. LiveInv'
    <3>1. txs' = txs /\ srv.up /\ LiveInv
      BY <2>1, <2>2 DEF TxInv
    <3>2. \A t \in TxObj : LiveTx(t)' => txs'[t].handle \in srv'.tx /\ txs'[t].handle # conn'.autoTx
      <4>1. \A t \in TxObj : LiveTx(t) => txs[t].handle \in srv.tx
        BY <3>1 DEF LiveInv
      <4>2. h \notin srv.tx /\ conn'.autoTx = h /\ srv'.tx = srv.tx \cup {h}
        BY <2>1
      <4> QED BY <3>1, <4>1, <4>2 DEF LiveTx
    <3>3. conn'.autoTx \in srv'.tx /\ \A g \in TxHandle : srv'.pend[g] # {} => g \in srv'.tx
      BY <2>1, <3>1 DEF LiveInv
    <3>4. \A t, u \in TxObj :
            LiveTx(t)' /\ LiveTx(u)' /\ txs'[t].handle = txs'[u].handle => t = u
      BY <2>1, <3>1 DEF LiveInv, LiveTx
    <3> QED BY <3>2, <3>3, <3>4 DEF LiveInv
  <2>5. CallInv'
    BY <2>1, <2>2 DEF TxInv, CallInv, Running, Early, StatementFn
  <2>6. call.stage \in Early
    BY <2>1 DEF Early
  <2>7. RetryInv'
    BY <2>1, <2>2, <2>6, KeptRetry
  <2> QED BY <2>3, <2>4, <2>5, <2>7
<1>2. "execute" \in Running /\ "info" \in Running \ Early
      /\ "commitRetaining" \in Running \ Early /\ Early \subseteq Running
  BY DEF Running, Early
<1>3. ASSUME Fails \/ (\E ack : ack # "retry" /\ Return(ack) /\ UNCHANGED <<rows, txs>>),
             KeepsConn \/ DropsAuto, KeepsDb \/ Runs \/ (srv.up /\ Commits(call.tx))
      PROVE  DriverInv' /\ LiveInv' /\ CallInv' /\ RetryInv'
  <2>1. PICK ack : ack # "retry" /\ Return(ack) /\ UNCHANGED <<rows, txs>>
    BY <1>3 DEF Fails
  <2>2. \A r \in RowsObj : rows'[r].chg = rows[r].chg
    BY <2>1
  <2> QED BY <1>3, <2>1, <2>2, ReturnsTx
<1>4. ASSUME GoesOnEarly PROVE DriverInv' /\ LiveInv' /\ CallInv' /\ RetryInv'
  <2>1. PICK stage \in Early : GoesOn(stage)
    BY <1>4 DEF GoesOnEarly
  <2>2. stage # "commitRetaining"
    BY <2>1 DEF Early
  <2> QED BY <1>2, <1>4, <2>1, <2>2, GoesOnTx DEF GoesOnEarly
<1>5. CASE FailsEarly
  BY <1>3, <1>5 DEF FailsEarly
<1>6. CASE Prepares
  BY <1>3, <1>6 DEF Prepares
<1>7. CASE RunsAndCommits
  BY <1>2, <1>3, <1>7, GoesOnTx DEF RunsAndCommits
<1>8. CASE RunsExec
  BY <1>2, <1>8, GoesOnTx DEF RunsExec
<1>9. CASE RunsQuery
  <2>1. CASE Fails /\ (KeepsConn \/ DropsAuto)
    BY <1>3, <1>9, <2>1 DEF RunsQuery
  <2>2. CASE /\ KeepsConn /\ Return("open") /\ UNCHANGED txs
             /\ \E r \in RowsObj : \E x :
                  rows' = [rows EXCEPT ![r] = x] /\ x.chg = call.chg
    <3>1. \A r \in RowsObj : rows'[r].chg \in {rows[r].chg, call.chg, None}
      BY <2>2, TxTypes DEF TxInv
    <3> QED BY <1>9, <2>2, <3>1, ReturnsTx DEF RunsQuery
  <2> QED BY <1>9, <2>1, <2>2 DEF RunsQuery
<1>10. CASE CommitsProc
  BY <1>2, <1>3, <1>10, GoesOnTx DEF CommitsProc
<1>11. CASE Succeeds
  BY <1>3, <1>11 DEF Succeeds, ExecAck
<1> QED BY <1>1, <1>4, <1>5, <1>6, <1>7, <1>8, <1>9, <1>10, <1>11, StatementOutcomes DEF TxInv

----------------------------------------------------------------------------
(* The outcomes of the other steps *)

\* A method that is no statement starts.
Starts(fn, stage) ==
  /\ call = NoCall
  /\ call'.fn = fn /\ call'.stage = stage /\ call'.auto = FALSE
  /\ UNCHANGED <<srv, committed>>

\* op_commit and op_rollback end transaction h.
Ends(h) ==
  /\ h \in srv.tx
  /\ srv'.up = srv.up /\ srv'.tx = srv.tx \ {h} /\ srv'.pend = [srv.pend EXCEPT ![h] = {}]

BeginsTx(t) ==
  /\ Usable /\ txs[t].st = "none" /\ (Raw \/ (TxClosed /\ RowsClosed))
  /\ Starts("begin", IF conn.autoTx # None THEN "commitAuto" ELSE "start")
  /\ call'.obj = t /\ call'.tx = conn.autoTx /\ call'.chg = None
  /\ UNCHANGED <<conn, rows, txs, ledger>>

\* BeginTx commits the auto-commit transaction, then starts another one.
CommitsAuto ==
  /\ call.stage = "commitAuto" /\ srv.up /\ DropsAuto
  /\ \/ /\ Ends(call.tx) /\ committed' = committed \cup srv.pend[call.tx]
        /\ GoesOn("start")
     \/ KeepsDb /\ Fails

StartsTx ==
  /\ call.stage = "start" /\ srv.up
  /\ \/ \E h \in TxHandle \ srv.tx :
          /\ srv'.up = srv.up /\ srv'.tx = srv.tx \cup {h} /\ srv'.pend = srv.pend
          /\ conn'.activeTx = h /\ conn'.autoTx = conn.autoTx
          /\ conn'.dirtyAutoTx = conn.dirtyAutoTx
          /\ conn'.closed = conn.closed /\ conn'.bad = conn.bad
          /\ txs' = [txs EXCEPT ![call.obj] = [st |-> "open", handle |-> h]]
          /\ Return("open") /\ UNCHANGED <<rows, committed>>
     \/ KeepsConn /\ KeepsDb /\ Fails

\* Commit or Rollback of t starts, or fails at once.
EndsTx(t, fn, st, failed) ==
  /\ call = NoCall /\ txs[t].st = "open" /\ (Raw \/ RowsClosed)
  /\ conn'.activeTx = None /\ conn'.autoTx = conn.autoTx
  /\ conn'.dirtyAutoTx = conn.dirtyAutoTx
  /\ conn'.closed = conn.closed /\ conn'.bad = conn.bad
  /\ txs' = [txs EXCEPT ![t].st = IF Usable THEN st ELSE failed]
  /\ \/ /\ Usable /\ Starts(fn, "end")
        /\ call'.obj = t /\ call'.tx = txs[t].handle /\ call'.chg = None
     \/ ~Usable /\ call' = NoCall
  /\ UNCHANGED <<rows, srv, committed, ledger>>

\* The answer to Commit or Rollback.
Ended ==
  /\ call.stage = "end" /\ srv.up /\ call' = NoCall /\ KeepsConn /\ UNCHANGED rows
  /\ \/ /\ call.fn = "commit" /\ Ends(call.tx)
        /\ committed' = committed \cup srv.pend[call.tx]
        /\ txs' = [txs EXCEPT ![call.obj].st = "committed"]
        /\ ledger' = CommitAcks(call.obj)
     \/ /\ call.fn = "commit" /\ KeepsDb /\ UNCHANGED ledger
        /\ txs' = [txs EXCEPT ![call.obj].st = "commit failed"]
     \/ /\ call.fn = "rollback" /\ (Ends(call.tx) \/ KeepsDb)
        /\ UNCHANGED <<committed, ledger>>
        /\ txs' = [txs EXCEPT ![call.obj].st = "rolled back"]

\* The steps of explicit transactions have these outcomes.
LEMMA TxOutcomes ==
  ASSUME SessionInv, TxSteps
  PROVE  \/ \E t \in TxObj : \/ BeginsTx(t)
                             \/ EndsTx(t, "commit", "committing", "commit failed")
                             \/ EndsTx(t, "rollback", "rolling back", "rolled back")
         \/ CommitsAuto \/ StartsTx \/ Ended
<1>1. conn \in ConnType /\ srv \in SrvType /\ call \in CallType
  BY DEF SessionInv, TypeOK
<1>2. ASSUME NEW t \in TxObj, BeginTx(t) PROVE BeginsTx(t)
  BY <1>2 DEF BeginTx, BeginsTx, Starts, NoCall
<1>3. ASSUME NEW t \in TxObj, NEW fn, NEW st, NEW failed, EndTx(t, fn, st, failed)
      PROVE  EndsTx(t, fn, st, failed)
  <2>1. /\ conn'.activeTx = None /\ conn'.autoTx = conn.autoTx
        /\ conn'.dirtyAutoTx = conn.dirtyAutoTx
        /\ conn'.closed = conn.closed /\ conn'.bad = conn.bad
    BY <1>1, <1>3 DEF EndTx, ConnType
  <2>2. CASE Usable
    BY <1>3, <2>1, <2>2 DEF EndTx, EndsTx, Starts, NoCall
  <2>3. CASE ~Usable
    BY <1>3, <2>1, <2>3 DEF EndTx, EndsTx
  <2> QED BY <2>2, <2>3
<1>4. ASSUME commitAutoTx PROVE CommitsAuto
  <2>1. call.stage = "commitAuto" /\ srv.up
    BY <1>4 DEF commitAutoTx, At
  <2>2. ASSUME conn' = invalidateAutoTx(conn) PROVE DropsAuto
    BY <1>1, <2>2, KeptFields, ConnEffects DEF DropsAuto
  <2>3. CASE Fail(invalidateAutoTx(conn), srv) /\ UNCHANGED committed
    BY <2>1, <2>2, <2>3 DEF Fail, Fails, KeepsDb, CommitsAuto
  <2>4. CASE /\ call.tx \in srv.tx
             /\ committed' = committed \cup srv.pend[call.tx]
             /\ srv' = afterEnd(srv, call.tx)
             /\ conn' = invalidateAutoTx(conn)
             /\ call' = Advance(call)
             /\ UNCHANGED <<stmts, rows, txs, ledger>>
    <3>1. GoesOn("start")
      BY <1>1, <2>1, <2>4, AdvanceEffect DEF GoesOn, nextStage
    <3>2. Ends(call.tx)
      BY <1>1, <2>4, DbEffects DEF Ends
    <3> QED BY <2>1, <2>2, <2>4, <3>1, <3>2 DEF CommitsAuto
  <2> QED BY <1>4, <2>3, <2>4 DEF commitAutoTx
<1>5. ASSUME startTx PROVE StartsTx
  <2>1. call.stage = "start" /\ srv.up /\ committed' = committed
    BY <1>5 DEF startTx, At
  <2>2. CASE Fail(conn, srv)
    BY <2>1, <2>2 DEF Fail, Fails, KeepsDb, KeepsConn, StartsTx
  <2>3. ASSUME NEW h \in TxHandle \ srv.tx,
               srv' = [srv EXCEPT !.tx = @ \cup {h}],
               conn' = [conn EXCEPT !.activeTx = h],
               txs' = [txs EXCEPT ![call.obj] = [st |-> "open", handle |-> h]],
               Return("open"), UNCHANGED <<stmts, rows>>
        PROVE  StartsTx
    <3>1. srv'.up = srv.up /\ srv'.tx = srv.tx \cup {h} /\ srv'.pend = srv.pend
      BY <1>1, <2>3 DEF SrvType
    <3>2. /\ conn'.activeTx = h /\ conn'.autoTx = conn.autoTx
          /\ conn'.dirtyAutoTx = conn.dirtyAutoTx
          /\ conn'.closed = conn.closed /\ conn'.bad = conn.bad
      BY <1>1, <2>3 DEF ConnType
    <3> QED BY <2>1, <2>3, <3>1, <3>2 DEF StartsTx
  <2> QED BY <1>5, <2>2, <2>3 DEF startTx
<1>6. ASSUME endCommit PROVE Ended
  <2>1. ASSUME srv' = afterEnd(srv, call.tx), call.tx \in srv.tx PROVE Ends(call.tx)
    BY <1>1, <2>1, DbEffects DEF Ends
  <2> QED BY <1>6, <2>1 DEF endCommit, Ended, At, KeepsConn, KeepsDb
<1>7. ASSUME endRollback PROVE Ended
  <2>1. ASSUME srv' = afterEnd(srv, call.tx), call.tx \in srv.tx PROVE Ends(call.tx)
    BY <1>1, <2>1, DbEffects DEF Ends
  <2> QED BY <1>7, <2>1 DEF endRollback, Ended, At, KeepsConn, KeepsDb
<1> QED BY <1>2, <1>3, <1>4, <1>5, <1>6, <1>7 DEF TxSteps, Commit, Rollback

\* Rows fetch, start to close, or are forgotten on a connection that is gone.
Fetches(r) ==
  /\ rows[r].open /\ Starts("next", "fetch")
  /\ call'.rows = r /\ call'.chg = rows[r].chg
  /\ UNCHANGED <<conn, rows, txs, ledger>>

ClosesRows(r) ==
  /\ rows[r].open /\ Usable /\ Starts("close rows", "free")
  /\ call'.rows = r /\ call'.chg = rows[r].chg /\ call'.tx = rows[r].tx
  /\ rows' = [rows EXCEPT ![r].open = FALSE]
  /\ UNCHANGED <<conn, txs, ledger>>

ForgetsRows(r) ==
  /\ rows[r].open /\ ~Usable /\ call = NoCall /\ call' = NoCall
  /\ ledger' = CloseAck(r) /\ rows' = [rows EXCEPT ![r] = NoRows]
  /\ UNCHANGED <<conn, txs, srv, committed>>

\* Closing rows frees the handle and commits if the rows are to commit.
FreesRows ==
  /\ call.stage = "free" /\ KeepsConn /\ KeepsDb /\ UNCHANGED txs
  /\ \/ /\ rows[call.rows].commitOnClose
        /\ GoesOn("commitOnClose") /\ call'.tx = call.tx
     \/ /\ ~rows[call.rows].commitOnClose
        /\ call' = NoCall /\ ledger' = CloseAck(call.rows)
        /\ rows' = [rows EXCEPT ![call.rows] = NoRows]

CommitsRows ==
  /\ call.stage = "commitOnClose" /\ srv.up /\ UNCHANGED txs /\ call' = NoCall
  /\ rows' = [rows EXCEPT ![call.rows] = NoRows]
  /\ \/ Commits(call.tx) /\ KeepsConn /\ ledger' = CloseAck(call.rows)
     \/ KeepsDb /\ DropsAuto /\ Return("error")

\* A method without a transaction of its own starts, or ends.
StartsOther ==
  /\ Starts("close stmt", "recycle") \/ Starts("ping", "info database")
  /\ Raw \/ RowsClosed \/ ~TxClosed
  /\ call'.chg = None /\ UNCHANGED <<conn, rows, txs, ledger>>

Answered ==
  /\ call' = NoCall /\ call.stage \in {"none", "fetch", "recycle", "info database"}
  /\ KeepsConn /\ KeepsDb /\ UNCHANGED <<rows, txs, ledger>>

\* The steps of rows and statement objects have these outcomes.
LEMMA ObjectOutcomes ==
  ASSUME SessionInv, DriverInv, ObjectSteps
  PROVE  \/ \E r \in RowsObj : Fetches(r) \/ ClosesRows(r) \/ ForgetsRows(r)
         \/ FreesRows \/ CommitsRows \/ StartsOther \/ Answered
<1>1. conn \in ConnType /\ srv \in SrvType /\ call \in CallType
  BY DEF SessionInv, TypeOK
<1>2. ASSUME NEW r \in RowsObj, RowsNext(r) PROVE Fetches(r)
  BY <1>2 DEF RowsNext, Fetches, Starts, NoCall
<1>3. ASSUME NEW r \in RowsObj, RowsClose(r) PROVE ClosesRows(r) \/ ForgetsRows(r)
  <2>1. CASE Usable
    BY <1>3, <2>1 DEF RowsClose, ClosesRows, Starts, NoCall
  <2>2. CASE ~Usable
    BY <1>3, <2>2 DEF RowsClose, ForgetsRows
  <2> QED BY <2>1, <2>2
<1>4. ASSUME NEW s \in StmtObj, StmtClose(s) PROVE StartsOther \/ Answered
  <2>1. CASE Usable
    BY <1>4, <2>1 DEF StmtClose, StartsOther, Starts, NoCall
  <2>2. CASE ~Usable
    BY <1>4, <2>2 DEF StmtClose, Answered, KeepsConn, KeepsDb, NoCall
  <2> QED BY <2>1, <2>2
<1>5. ASSUME fetch PROVE Answered
  BY <1>5 DEF fetch, At, Answered, KeepsConn, KeepsDb
<1>6. ASSUME NEW h, conn' \in {conn, recycle(conn, h)} PROVE KeepsConn
  <2>1. CASE conn' = conn
    BY <2>1 DEF KeepsConn
  <2>2. CASE conn' = recycle(conn, h)
    BY <1>1, <2>2, KeptFields, ConnEffects DEF KeepsConn
  <2> QED BY <1>6, <2>1, <2>2
<1>7. ASSUME freeRows PROVE FreesRows
  <2> DEFINE h == rows[call.rows].handle
  <2>1. conn' \in {conn, recycle(conn, h)}
    BY <1>7 DEF freeRows
  <2>2. PICK s \in {srv, closeCursor(srv, h)} : srv' \in {s, srvRecycle(conn, s, h)}
    BY <1>7 DEF freeRows
  <2>3. s \in SrvType /\ s.up = srv.up /\ s.tx = srv.tx /\ s.pend = srv.pend
    BY <1>1, <2>2 DEF SrvType, closeCursor
  <2>4. KeepsDb /\ KeepsConn
    <3>1. KeepsConn
      BY <1>6, <2>1
    <3>2. committed' = committed
      BY <1>7 DEF freeRows
    <3> HIDE DEF h
    <3> QED BY <2>2, <2>3, <3>1, <3>2, SrvEffects DEF KeepsDb
  <2>5. call.stage = "free" /\ UNCHANGED txs
    BY <1>7 DEF freeRows, At
  <2>6. CASE rows[call.rows].commitOnClose
    <3>1. call' = Advance(call) /\ UNCHANGED <<rows, ledger>>
      BY <1>7, <2>6 DEF freeRows
    <3>2. GoesOn("commitOnClose") /\ call'.tx = call.tx
      BY <1>1, <2>5, <3>1, AdvanceEffect DEF GoesOn, nextStage
    <3> QED BY <2>4, <2>5, <2>6, <3>2 DEF FreesRows
  <2>7. CASE ~rows[call.rows].commitOnClose
    BY <1>7, <2>4, <2>5, <2>7 DEF FreesRows, freeRows
  <2> QED BY <2>6, <2>7
<1>8. ASSUME commitRows PROVE CommitsRows
  <2>1. /\ call.stage = "commitOnClose" /\ srv.up /\ UNCHANGED txs /\ call' = NoCall
        /\ rows' = [rows EXCEPT ![call.rows] = NoRows]
    BY <1>8 DEF commitRows, At
  <2>2. CASE /\ call.tx \in srv.tx
             /\ committed' = committed \cup srv.pend[call.tx]
             /\ srv' = afterCommit(srv, call.tx)
             /\ ledger' = CloseAck(call.rows)
             /\ UNCHANGED conn
    <3>1. Commits(call.tx) /\ KeepsConn
      BY <1>1, <2>2, DbEffects DEF Commits, Holds, KeepsConn
    <3> QED BY <2>1, <2>2, <3>1 DEF CommitsRows
  <2>3. CASE /\ conn' = invalidateAutoTx(conn)
             /\ ledger' = IF call.chg = None THEN ledger ELSE Settle(call.chg, "error")
             /\ UNCHANGED <<srv, committed>>
    <3>1. DropsAuto
      BY <1>1, <2>3, KeptFields, ConnEffects DEF DropsAuto
    <3> QED BY <2>1, <2>3, <3>1 DEF CommitsRows, KeepsDb, Return
  <2> QED BY <1>8, <2>2, <2>3 DEF commitRows
<1>9. ASSUME recycleStmt PROVE Answered
  <2>1. ~mustCommitDirty
    BY DEF mustCommitDirty, DriverInv
  <2>2. conn' = recycle(conn, call.handle) /\ srv' = srvRecycle(conn, srv, call.handle)
        /\ committed' = committed /\ call.stage = "recycle" /\ call' = NoCall
        /\ UNCHANGED <<rows, txs, ledger>>
    BY <1>9, <2>1 DEF recycleStmt, At
  <2>3. KeepsConn /\ KeepsDb
    BY <1>1, <1>6, <2>2, SrvEffects DEF KeepsDb
  <2> QED BY <2>2, <2>3 DEF Answered
<1> QED BY <1>2, <1>3, <1>4, <1>5, <1>7, <1>8, <1>9 DEF ObjectSteps

\* So have a ping and its answer.
LEMMA PingOutcomes ==
  ASSUME Ping \/ pinged
  PROVE  StartsOther \/ Answered
<1>1. CASE Ping
  BY <1>1 DEF Ping, StartsOther, Starts, NoCall
<1>2. CASE pinged
  BY <1>2 DEF pinged, At, Answered, KeepsConn, KeepsDb
<1> QED BY <1>1, <1>2

----------------------------------------------------------------------------
(* The other steps preserve the invariant of transactions *)

\* A method that works on no transaction of its own.
LEMMA OtherCallTx ==
  ASSUME call'.fn \notin StatementFn, call'.auto = FALSE,
         call'.stage \notin Running \cup {"commitAuto", "start", "end"},
         call'.fn \notin {"next", "close rows"} => call'.chg = None
  PROVE  CallInv'
BY DEF CallInv, Running

\* The objects' steps, together.
LEMMA ObjectStepsTx ==
  ASSUME TxInv, ObjectSteps \/ Ping \/ pinged
  PROVE  DriverInv' /\ LiveInv' /\ CallInv' /\ RetryInv'
<1>1. \A r \in RowsObj : rows[r].chg \in Change \cup {None}
  BY TxTypes DEF TxInv, RowsRec
<1>2. \A c \in Change : \A r :
        /\ CloseAck(r)[c].by = ledger[c].by
        /\ CloseAck(r)[c].ack = "retry" => ledger[c].ack = "retry"
  BY TxTypes DEF TxInv, CloseAck, Settle, Entry
<1>3. ASSUME NEW r \in RowsObj, Fetches(r) \/ ClosesRows(r)
      PROVE  DriverInv' /\ LiveInv' /\ CallInv' /\ RetryInv'
  <2>1. UNCHANGED <<conn, txs, srv, committed, ledger>> /\ call'.chg = rows[r].chg
        /\ call'.stage \in {"fetch", "free"} /\ call'.fn \in {"next", "close rows"}
        /\ call'.auto = FALSE
    BY <1>3 DEF Fetches, ClosesRows, Starts
  <2>2. DriverInv' /\ LiveInv'
    BY <2>1 DEF TxInv, DriverInv, LiveInv, LiveTx
  <2>3. CallInv' /\ call'.stage \notin Early
    BY <2>1, OtherCallTx DEF StatementFn, Running, Early
  <2>4. \A q \in RowsObj : rows'[q].chg = rows[q].chg
    <3>1. rows' = rows \/ rows' = [rows EXCEPT ![r].open = FALSE]
      BY <1>3 DEF Fetches, ClosesRows
    <3>2. rows \in [RowsObj -> RowsRec] /\ [rows[r] EXCEPT !.open = FALSE].chg = rows[r].chg
      BY TxTypes DEF TxInv, RowsRec
    <3> QED BY <3>1, <3>2
  <2>5. RetryInv'
    BY <2>1, <2>3, <2>4, KeptRetry
  <2> QED BY <2>2, <2>3, <2>5
<1>4. ASSUME KeepsConn \/ DropsAuto, KeepsDb \/ (srv.up /\ Commits(call.tx)), UNCHANGED txs,
             CallInv', call'.stage \notin Early,
             call'.chg \in {call.chg, None},
             \A c \in Change : ledger'[c].by = ledger[c].by
                               /\ (ledger'[c].ack = "retry" => ledger[c].ack = "retry"),
             \A q \in RowsObj : rows'[q].chg \in {rows[q].chg, None}
      PROVE  DriverInv' /\ LiveInv' /\ CallInv' /\ RetryInv'
  <2>1. DriverInv' /\ LiveInv'
    BY <1>4, KeptDb, KeptTx
  <2>2. srv'.up = srv.up
        /\ \A h \in TxHandle : \A c \in srv'.pend[h] : c \in srv.pend[h] \/ c = call.chg
    BY <1>4, KeptDb
  <2>3. \A c \in committed' :
          \/ c \in committed
          \/ srv.up /\ (c = call.chg \/ \E h \in TxHandle : c \in srv.pend[h])
    BY <1>4, KeptCommitted
  <2>4. RetryInv'
    BY <1>4, <2>2, <2>3, KeptRetry
  <2> QED BY <1>4, <2>1, <2>4
<1>5. ASSUME call' = NoCall
      PROVE  CallInv' /\ call'.stage \notin Early /\ call'.chg = None
  BY <1>5, NoCallFields, IdleTx DEF Early
<1>6. \A r : \A q \in RowsObj : [rows EXCEPT ![r] = NoRows][q].chg \in {rows[q].chg, None}
  BY TxTypes DEF TxInv, NoRows
<1>7. ASSUME NEW r \in RowsObj, ForgetsRows(r)
      PROVE  DriverInv' /\ LiveInv' /\ CallInv' /\ RetryInv'
  BY <1>2, <1>4, <1>5, <1>6, <1>7 DEF ForgetsRows, KeepsConn, KeepsDb
<1>8. CASE FreesRows
  <2>1. CASE GoesOn("commitOnClose")
    <3>1. call.fn \notin StatementFn /\ ~call.auto /\ call'.auto = FALSE
      BY <1>8, <2>1, TxTypes DEF TxInv, CallInv, FreesRows, Running, Early, GoesOn
    <3>2. call'.fn = call.fn /\ call'.chg = call.chg /\ call'.stage = "commitOnClose"
          /\ UNCHANGED <<rows, txs, ledger>>
      BY <2>1 DEF GoesOn
    <3>3. call.fn \notin {"next", "close rows"} => call.chg = None
      BY <3>1 DEF TxInv, CallInv, StatementFn
    <3>4. CallInv' /\ call'.stage \notin Early
      BY <3>1, <3>2, <3>3, OtherCallTx DEF Running, Early
    <3> QED BY <1>4, <1>8, <3>2, <3>4 DEF FreesRows
  <2>2. CASE /\ call' = NoCall /\ ledger' = CloseAck(call.rows)
             /\ rows' = [rows EXCEPT ![call.rows] = NoRows]
    BY <1>2, <1>4, <1>5, <1>6, <1>8, <2>2 DEF FreesRows
  <2> QED BY <1>8, <2>1, <2>2 DEF FreesRows
<1>9. CASE CommitsRows
  <2>1. \A c \in Change : ledger'[c].by = ledger[c].by
                          /\ (ledger'[c].ack = "retry" => ledger[c].ack = "retry")
    BY <1>2, <1>9, ReturnEffect DEF CommitsRows, TxInv
  <2> QED BY <1>4, <1>5, <1>6, <1>9, <2>1 DEF CommitsRows
<1>10. CASE StartsOther
  <2>1. UNCHANGED <<conn, rows, txs, srv, committed, ledger>> /\ call'.chg = None
        /\ call'.stage \in {"recycle", "info database"} /\ call'.fn \in {"close stmt", "ping"}
        /\ call'.auto = FALSE
    BY <1>10 DEF StartsOther, Starts
  <2>2. CallInv' /\ call'.stage \notin Early
    BY <2>1, OtherCallTx DEF StatementFn, Running, Early
  <2> QED BY <1>4, <2>1, <2>2 DEF KeepsConn, KeepsDb
<1>11. CASE Answered
  BY <1>4, <1>5, <1>11 DEF Answered
<1> QED BY <1>3, <1>7, <1>8, <1>9, <1>10, <1>11, ObjectOutcomes, PingOutcomes DEF TxInv

\* Tx.Commit acknowledges what was asked for in that transaction, and no more.
LEMMA CommitAcksEffect ==
  ASSUME NEW t, NEW c \in Change
  PROVE  /\ CommitAcks(t)[c].by = ledger[c].by
         /\ CommitAcks(t)[c].ack # ledger[c].ack => CommitAcks(t)[c].ack = "ok"
         /\ CommitAcks(t)[c].ack = ledger[c].ack
              \/ (ledger[c].by = t /\ ledger[c].ack = "open" /\ CommitAcks(t)[c].ack = "ok")
<1>1. CASE ledger[c] = [by |-> t, ack |-> "open"]
  <2>1. CommitAcks(t)[c] = [by |-> t, ack |-> "ok"]
    BY <1>1 DEF CommitAcks
  <2>2. CommitAcks(t)[c].by = t /\ CommitAcks(t)[c].ack = "ok"
    BY <2>1, EntryFields
  <2>3. ledger[c].by = t /\ ledger[c].ack = "open"
    BY <1>1, EntryFields
  <2> QED BY <2>2, <2>3
<1>2. CASE ledger[c] # [by |-> t, ack |-> "open"]
  BY <1>2 DEF CommitAcks
<1> QED BY <1>1, <1>2

\* The steps of explicit transactions, together.
LEMMA TxStepsTx ==
  ASSUME TxInv, TxSteps
  PROVE  DriverInv' /\ LiveInv' /\ CallInv' /\ RetryInv'
<1>0. /\ txs \in [TxObj -> TxRec] /\ srv.tx \subseteq TxHandle
      /\ srv.pend \in [TxHandle -> SUBSET Change]
  BY TxTypes DEF TxInv
<1>1. ASSUME NEW t \in TxObj, BeginsTx(t)
      PROVE  DriverInv' /\ LiveInv' /\ CallInv' /\ RetryInv'
  <2>1. UNCHANGED <<conn, rows, txs, srv, committed, ledger>> /\ call'.chg = None
        /\ call'.fn = "begin" /\ call'.obj = t /\ call'.tx = conn.autoTx
        /\ call'.stage \in {"commitAuto", "start"} /\ txs[t].st = "none" /\ call'.auto = FALSE
    BY <1>1 DEF BeginsTx, Starts
  <2>2. DriverInv' /\ LiveInv'
    BY <2>1 DEF TxInv, DriverInv, LiveInv, LiveTx
  <2>3. CallInv' /\ call'.stage \notin Early
    BY <2>1 DEF CallInv, StatementFn, Running, Early
  <2>4. RetryInv'
    BY <2>1, <2>3, KeptRetry
  <2> QED BY <2>2, <2>3, <2>4
<1>2. ASSUME call' = NoCall
      PROVE  CallInv' /\ call'.stage \notin Early /\ call'.chg = None
  BY <1>2, NoCallFields, IdleTx DEF Early
<1>3. ASSUME NEW h, Ends(h)
      PROVE  /\ h \in TxHandle
             /\ \A g \in TxHandle : \A c \in srv'.pend[g] : c \in srv.pend[g]
             /\ srv.up => \A g \in TxHandle : srv'.pend[g] # {} => g \in srv'.tx
             /\ \A c \in srv.pend[h] : \E g \in TxHandle : c \in srv.pend[g]
  BY <1>0, <1>3 DEF Ends, TxInv, LiveInv
<1>4. CASE CommitsAuto
  <2>1. CASE KeepsDb /\ Fails
    <3>1. \A r \in RowsObj : rows'[r].chg = rows[r].chg
      BY <2>1 DEF Fails
    <3> QED BY <1>4, <2>1, <3>1, ReturnsTx DEF Fails, CommitsAuto
  <2>2. CASE /\ Ends(call.tx) /\ committed' = committed \cup srv.pend[call.tx]
             /\ GoesOn("start")
    <3>1. /\ UNCHANGED <<rows, txs, ledger>> /\ call'.stage = "start" /\ call'.fn = call.fn
          /\ call'.chg = call.chg /\ call'.obj = call.obj /\ call'.auto = call.auto
      BY <2>2 DEF GoesOn
    <3>2. conn'.autoTx = None /\ conn'.activeTx = conn.activeTx /\ ~conn'.dirtyAutoTx
      BY <1>4 DEF CommitsAuto, DropsAuto
    <3>3. call.tx = conn.autoTx /\ call.fn = "begin" /\ call.obj \in TxObj
          /\ txs[call.obj].st = "none" /\ ~call.auto /\ call.chg = None
      BY <1>4 DEF CommitsAuto, TxInv, CallInv, StatementFn
    <3>4. DriverInv'
      BY <3>1, <3>2 DEF TxInv, DriverInv
    <3>5. LiveInv'
      <4>1. \A t \in TxObj : LiveTx(t) => txs[t].handle \in srv.tx \ {call.tx}
        BY <1>4, <3>3 DEF TxInv, LiveInv, CommitsAuto
      <4>2. \A t \in TxObj : LiveTx(t)' => txs'[t].handle \in srv'.tx /\ txs'[t].handle # conn'.autoTx
        BY <1>0, <2>2, <3>1, <3>2, <4>1 DEF Ends, LiveTx
      <4>3. srv.up /\ txs' = txs
        BY <1>4, <3>1 DEF CommitsAuto
      <4> QED BY <1>3, <2>2, <3>2, <4>2, <4>3 DEF LiveInv, LiveTx, TxInv
    <3>6. CallInv' /\ call'.stage \notin Early
      BY <3>1, <3>3, TxTypes DEF CallInv, StatementFn, Running, Early, TxInv
    <3>7. \A c \in committed' :
            c \in committed \/ (srv.up /\ \E h \in TxHandle : c \in srv.pend[h])
      <4>1. \A c \in srv.pend[call.tx] : \E g \in TxHandle : c \in srv.pend[g]
        BY <1>3, <2>2
      <4>2. srv.up
        BY <1>4 DEF CommitsAuto
      <4> QED BY <2>2, <4>1, <4>2
    <3>8. srv'.up = srv.up /\ \A r \in RowsObj : rows'[r].chg = rows[r].chg
      BY <2>2, <3>1 DEF Ends
    <3>9. RetryInv'
      BY <1>3, <2>2, <3>1, <3>6, <3>7, <3>8, KeptRetry
    <3> QED BY <3>4, <3>5, <3>6, <3>9
  <2> QED BY <1>4, <2>1, <2>2 DEF CommitsAuto
<1>5. CASE StartsTx
  <2>1. CASE KeepsConn /\ KeepsDb /\ Fails
    <3>1. \A r \in RowsObj : rows'[r].chg = rows[r].chg
      BY <2>1 DEF Fails
    <3> QED BY <2>1, <3>1, ReturnsTx DEF Fails
  <2>2. ASSUME NEW h \in TxHandle \ srv.tx,
               srv'.up = srv.up, srv'.tx = srv.tx \cup {h}, srv'.pend = srv.pend,
               conn'.activeTx = h, conn'.autoTx = conn.autoTx,
               conn'.dirtyAutoTx = conn.dirtyAutoTx,
               txs' = [txs EXCEPT ![call.obj] = [st |-> "open", handle |-> h]],
               Return("open"), UNCHANGED <<rows, committed>>
        PROVE  DriverInv' /\ LiveInv' /\ CallInv' /\ RetryInv'
    <3>1. call.obj \in TxObj /\ conn.autoTx = None /\ srv.up
      BY <1>5 DEF StartsTx, TxInv, CallInv, SessionInv, CallsAreConsistent
    <3>2. /\ txs'[call.obj].st = "open" /\ txs'[call.obj].handle = h
          /\ \A t \in TxObj : t # call.obj => txs'[t] = txs[t]
      BY <1>0, <2>2, <3>1
    <3>3. DriverInv'
      BY <2>2, <3>1, <3>2 DEF TxInv, DriverInv
    <3>4. LiveInv'
      <4>1. \A t \in TxObj : LiveTx(t) => txs[t].handle \in srv.tx /\ txs[t].handle # h
        BY <3>1 DEF TxInv, LiveInv
      <4>2. \A t, u \in TxObj :
              LiveTx(t) /\ LiveTx(u) /\ txs[t].handle = txs[u].handle => t = u
        BY <3>1 DEF TxInv, LiveInv
      <4>3. \A t \in TxObj : t # call.obj => (LiveTx(t)' <=> LiveTx(t))
        BY <3>2 DEF LiveTx
      <4>4. \A t \in TxObj : LiveTx(t)' => txs'[t].handle \in srv'.tx /\ txs'[t].handle # conn'.autoTx
        <5>1. h # None /\ conn'.autoTx = None /\ srv'.tx = srv.tx \cup {h}
          BY <2>2, <3>1
        <5>2. \A t \in TxObj : LiveTx(t) => txs[t].handle # None
          BY <1>0, <4>1
        <5> QED BY <3>2, <4>1, <4>3, <5>1, <5>2
      <4>5. \A t, u \in TxObj :
              LiveTx(t)' /\ LiveTx(u)' /\ txs'[t].handle = txs'[u].handle => t = u
        BY <3>2, <4>1, <4>2, <4>3
      <4>6. \A g \in TxHandle : srv'.pend[g] # {} => g \in srv'.tx
        BY <2>2, <3>1 DEF TxInv, LiveInv
      <4> QED BY <2>2, <3>1, <4>4, <4>5, <4>6 DEF LiveInv
    <3>5. call' = NoCall /\ (\A c \in Change : ledger'[c].by = ledger[c].by)
          /\ (\A c \in Change : ledger'[c].ack = "retry" => ledger[c].ack = "retry")
      BY <2>2, ReturnEffect DEF TxInv
    <3>6. \A r \in RowsObj : rows'[r].chg = rows[r].chg
      BY <2>2
    <3>7. RetryInv'
      BY <1>2, <2>2, <3>5, <3>6, KeptRetry
    <3> QED BY <1>2, <3>3, <3>4, <3>5, <3>7
  <2> QED BY <1>5, <2>1, <2>2 DEF StartsTx
<1>6. ASSUME NEW t \in TxObj, NEW st, txs' = [txs EXCEPT ![t].st = st]
      PROVE  /\ txs'[t].handle = txs[t].handle /\ txs'[t].st = st
             /\ \A u \in TxObj : u # t => txs'[u] = txs[u]
  <2>1. txs[t] \in TxRec
    BY <1>0
  <2>2. [txs[t] EXCEPT !.st = st].handle = txs[t].handle /\ [txs[t] EXCEPT !.st = st].st = st
    BY <2>1 DEF TxRec
  <2> QED BY <1>0, <1>6, <2>2
<1>7. ASSUME NEW t \in TxObj, NEW fn \in {"commit", "rollback"}, NEW st, NEW failed,
             st = IF fn = "commit" THEN "committing" ELSE "rolling back",
             failed \in {"commit failed", "rolled back"},
             EndsTx(t, fn, st, failed)
      PROVE  DriverInv' /\ LiveInv' /\ CallInv' /\ RetryInv'
  <2> DEFINE new == IF Usable THEN st ELSE failed
  <2>1. /\ txs'[t].handle = txs[t].handle /\ txs'[t].st = new
        /\ \A u \in TxObj : u # t => txs'[u] = txs[u]
    <3>1. txs' = [txs EXCEPT ![t].st = new]
      BY <1>7 DEF EndsTx
    <3> HIDE DEF new
    <3> QED BY <1>6, <3>1
  <2>2. /\ UNCHANGED <<rows, srv, committed, ledger>> /\ conn'.activeTx = None
        /\ conn'.autoTx = conn.autoTx /\ conn'.dirtyAutoTx = conn.dirtyAutoTx
        /\ txs[t].st = "open"
    BY <1>7 DEF EndsTx
  <2>3. DriverInv'
    BY <2>2 DEF TxInv, DriverInv
  <2>4. LiveInv'
    <3>1. \A u \in TxObj : txs'[u].handle = txs[u].handle /\ (LiveTx(u)' => LiveTx(u))
      BY <2>1, <2>2 DEF LiveTx
    <3> QED BY <2>2, <3>1 DEF TxInv, LiveInv
  <2>5. CallInv' /\ call'.stage \notin Early /\ call'.chg = None
    <3>1. CASE call' = NoCall
      BY <1>2, <3>1
    <3>2. CASE /\ Usable /\ Starts(fn, "end")
               /\ call'.obj = t /\ call'.tx = txs[t].handle /\ call'.chg = None
      BY <1>7, <2>1, <3>2 DEF Starts, CallInv, StatementFn, Running, Early
    <3> QED BY <1>7, <3>1, <3>2 DEF EndsTx
  <2>6. \A r \in RowsObj : rows'[r].chg = rows[r].chg
    BY <2>2
  <2>7. RetryInv'
    BY <2>2, <2>5, <2>6, KeptRetry
  <2> QED BY <2>3, <2>4, <2>5, <2>7
<1>8. CASE Ended
  <2>1. call.obj \in TxObj /\ txs[call.obj].handle = call.tx /\ txs[call.obj].st # "open"
        /\ LiveTx(call.obj) /\ call.chg \in Change \cup {None}
    BY <1>8, TxTypes DEF Ended, TxInv, CallInv, LiveTx
  <2>2. PICK st \in {"committed", "commit failed", "rolled back"} :
          txs' = [txs EXCEPT ![call.obj].st = st]
    BY <1>8 DEF Ended
  <2>3. /\ txs'[call.obj].handle = txs[call.obj].handle /\ txs'[call.obj].st = st
        /\ \A u \in TxObj : u # call.obj => txs'[u] = txs[u]
    BY <1>6, <2>1, <2>2
  <2>4. DriverInv'
    BY <1>8, <2>1, <2>3 DEF TxInv, DriverInv, Ended, KeepsConn
  <2>5. CallInv' /\ call'.stage \notin Early /\ call'.chg = None
    BY <1>2, <1>8 DEF Ended
  <2>6. \A c \in Change : ledger'[c].by = ledger[c].by
                          /\ (ledger'[c].ack = "retry" => ledger[c].ack = "retry")
    <3>1. ledger \in [Change -> Entry]
      BY TxTypes DEF TxInv
    <3>2. \A c \in Change : CommitAcks(call.obj)[c].by = ledger[c].by
                            /\ (CommitAcks(call.obj)[c].ack = "retry" => ledger[c].ack = "retry")
      BY CommitAcksEffect
    <3>3. ledger' = ledger \/ ledger' = CommitAcks(call.obj)
      BY <1>8 DEF Ended
    <3> QED BY <3>2, <3>3
  <2>7. \A u \in TxObj : txs'[u].handle = txs[u].handle /\ (LiveTx(u)' => LiveTx(u) /\ u # call.obj)
    BY <2>2, <2>3 DEF LiveTx
  <2>8. \A r \in RowsObj : rows'[r].chg = rows[r].chg
    BY <1>8 DEF Ended
  <2>9. srv.up /\ conn'.autoTx = conn.autoTx
    BY <1>8 DEF Ended, KeepsConn
  <2>10. CASE Ends(call.tx) /\ committed' \in {committed, committed \cup srv.pend[call.tx]}
    <3>1. \A u \in TxObj : LiveTx(u)' => txs'[u].handle \in srv'.tx /\ txs'[u].handle # conn'.autoTx
      BY <2>1, <2>7, <2>9, <2>10 DEF TxInv, LiveInv, Ends
    <3>2. conn'.autoTx # None => conn'.autoTx \in srv'.tx
      BY <2>1, <2>9, <2>10 DEF TxInv, LiveInv, Ends
    <3>3. LiveInv'
      BY <1>3, <2>7, <2>9, <2>10, <3>1, <3>2 DEF TxInv, LiveInv
    <3>4. \A c \in srv.pend[call.tx] : \E g \in TxHandle : c \in srv.pend[g]
      BY <1>3, <2>10
    <3>5. \A c \in committed' :
            c \in committed \/ (srv.up /\ \E h \in TxHandle : c \in srv.pend[h])
      BY <2>9, <2>10, <3>4
    <3>6. srv'.up = srv.up /\ \A g \in TxHandle : \A c \in srv'.pend[g] : c \in srv.pend[g]
      BY <1>3, <2>10 DEF Ends
    <3>7. RetryInv'
      BY <2>5, <2>6, <2>8, <3>5, <3>6, KeptRetry
    <3> QED BY <2>4, <2>5, <3>3, <3>7
  <2>11. CASE KeepsDb
    <3>1. LiveInv'
      BY <2>7, <2>9, <2>11 DEF TxInv, LiveInv, KeepsDb
    <3>2. RetryInv'
      BY <2>5, <2>6, <2>8, <2>11, KeptRetry DEF KeepsDb
    <3> QED BY <2>4, <2>5, <3>1, <3>2
  <2> QED BY <1>8, <2>10, <2>11 DEF Ended
<1> QED BY <1>1, <1>4, <1>5, <1>7, <1>8, TxOutcomes DEF TxInv

----------------------------------------------------------------------------
(* The end of the connection *)

\* Close, or a checkout that finds a transaction left over.
Closes ==
  /\ call = NoCall /\ (Raw \/ (TxClosed /\ RowsClosed))
  /\ srv'.up = FALSE /\ (\A h \in TxHandle : srv'.pend[h] = {})
  /\ conn'.activeTx \in {conn.activeTx, None} /\ ~conn'.dirtyAutoTx /\ ~Usable'
  /\ \/ committed' = committed
     \/ /\ srv.up /\ conn.autoTx \in srv.tx
        /\ committed' = committed \cup srv.pend[conn.autoTx]
  /\ UNCHANGED <<rows, txs, call, ledger>>

\* The link goes and nobody knows yet.
Drops ==
  /\ srv.up /\ srv'.up = FALSE /\ (\A h \in TxHandle : srv'.pend[h] = {})
  /\ UNCHANGED <<conn, rows, txs, call, committed, ledger>>

\* A method learns that the link is gone.
Breaks ==
  /\ call # NoCall
  /\ srv'.up = FALSE /\ (\A h \in TxHandle : srv'.pend[h] = {})
  /\ conn'.activeTx = None /\ ~conn'.dirtyAutoTx /\ ~Usable'
  /\ Return(IF At("info") THEN ExecAck ELSE ErrorKind)
  /\ \E done \in LostAnswer \cup {{}} : committed' = committed \cup done
  /\ rows' = IF call.fn = "close rows" THEN [rows EXCEPT ![call.rows] = NoRows] ELSE rows
  /\ txs' = IF call.fn = "commit"
            THEN [txs EXCEPT ![call.obj].st = "commit failed"]
            ELSE IF call.fn = "rollback"
                 THEN [txs EXCEPT ![call.obj].st = "rolled back"] ELSE txs

\* The steps that end the connection have these outcomes.
LEMMA EndOutcomes ==
  ASSUME SessionInv, DriverInv, Close \/ ResetSession \/ LinkDrops \/ TransportError
  PROVE  Closes \/ Drops \/ Breaks
<1>1. conn \in ConnType /\ ~conn.dirtyAutoTx /\ (conn.bad => conn.activeTx = None)
  BY DEF SessionInv, TypeOK, DriverInv, BadIsDisconnected
<1>2. ASSUME srv' = SrvDown PROVE srv'.up = FALSE /\ (\A h \in TxHandle : srv'.pend[h] = {})
  BY <1>2 DEF SrvDown
<1>3. ASSUME NEW c \in ConnType, c.bad => c.activeTx = None, ~c.dirtyAutoTx
      PROVE  markBad(c).bad /\ markBad(c).activeTx = None /\ ~markBad(c).dirtyAutoTx
  BY <1>3 DEF markBad, ConnType
<1>4. CASE Close
  <2>1. conn'.activeTx = conn.activeTx /\ ~conn'.dirtyAutoTx /\ conn'.closed
    BY <1>1, <1>4 DEF Close, ConnType
  <2> QED BY <1>2, <1>4, <2>1 DEF Close, Closes, Usable
<1>5. CASE ResetSession
  BY <1>1, <1>2, <1>3, <1>5 DEF ResetSession, Closes, Usable
<1>6. CASE LinkDrops
  BY <1>2, <1>6 DEF LinkDrops, Drops
<1>7. CASE TransportError
  <2>1. /\ pooledOnError \in ConnType /\ pooledOnError.bad = conn.bad
        /\ pooledOnError.activeTx = conn.activeTx
        /\ pooledOnError.dirtyAutoTx = conn.dirtyAutoTx
    <3>1. CASE call.stage \in {"describe", "info"}
      <4>1. call.handle \in StmtHandle
        BY <3>1, CallHandle
      <4> QED BY <1>1, <4>1, ConnFunctions, KeptFields, ConnEffects DEF pooledOnError
    <3>2. CASE call.stage \notin {"describe", "info"}
      BY <1>1, <3>2 DEF pooledOnError, At
    <3> QED BY <3>1, <3>2
  <2>2. conn'.bad /\ conn'.activeTx = None /\ ~conn'.dirtyAutoTx
    BY <1>1, <1>3, <1>7, <2>1 DEF TransportError
  <2> QED BY <1>2, <1>7, <2>2 DEF TransportError, Breaks, Usable
<1> QED BY <1>4, <1>5, <1>6, <1>7

\* A lost answer is about the changes of the call's transaction.
LEMMA LostAnswerBound ==
  ASSUME NEW done \in LostAnswer \cup {{}}
  PROVE  \A c \in done : srv.up /\ call.tx \in srv.tx
                         /\ (c \in srv.pend[call.tx] \/ c \in Changes(call.chg))
BY DEF LostAnswer

\* A call that may be retried has left no trace.
LEMMA NothingLost ==
  ASSUME call.stage \in {"getAutoTx", "lateAutoTx", "prepare"}
  PROVE  LostAnswer = {}
BY DEF LostAnswer, At

\* The end of the connection preserves the invariant of transactions.
LEMMA EndStepsTx ==
  ASSUME TxInv, Close \/ ResetSession \/ LinkDrops \/ TransportError
  PROVE  DriverInv' /\ LiveInv' /\ CallInv' /\ RetryInv'
<1>1. LiveInv'
  <2>1. srv'.up = FALSE
    BY EndOutcomes DEF TxInv, Closes, Drops, Breaks
  <2> QED BY <2>1 DEF LiveInv
<1>2. \A h \in TxHandle : srv'.pend[h] = {}
  BY EndOutcomes DEF TxInv, Closes, Drops, Breaks
<1>3. srv'.up = FALSE
  BY EndOutcomes DEF TxInv, Closes, Drops, Breaks
<1>4. CASE Closes
  <2>1. call' = NoCall
    BY <1>4 DEF Closes
  <2>2. DriverInv'
    BY <1>4 DEF Closes, TxInv, DriverInv
  <2>3. CallInv' /\ call'.stage \notin Early /\ call'.chg = None
    BY <2>1, IdleTx, NoCallFields DEF Early
  <2>4. \A c \in committed' :
          \/ c \in committed
          \/ srv.up /\ (c = call.chg \/ \E h \in TxHandle : c \in srv.pend[h])
    BY <1>4, TxTypes DEF TxInv, Closes
  <2>5. rows' = rows /\ ledger' = ledger
    BY <1>4 DEF Closes
  <2>6. RetryInv'
    BY <1>2, <1>3, <2>3, <2>4, <2>5, KeptRetry
  <2> QED BY <1>1, <2>2, <2>3, <2>6
<1>5. CASE Drops
  <2>1. UNCHANGED <<conn, rows, txs, call, committed, ledger>>
    BY <1>5 DEF Drops
  <2>2. DriverInv' /\ CallInv'
    BY <2>1 DEF TxInv, DriverInv, CallInv
  <2>3. RetryInv'
    BY <1>2, <1>3, <2>1, KeptRetry
  <2> QED BY <1>1, <2>2, <2>3
<1>6. CASE Breaks
  <2>1. DriverInv'
    BY <1>6 DEF Breaks, DriverInv
  <2>2. PICK ack \in {"ok", "open", "error", "retry"} :
          /\ Return(ack)
          /\ ack = "retry" => call.stage \in {"getAutoTx", "lateAutoTx", "prepare"}
    BY <1>6 DEF Breaks, ExecAck, ErrorKind, At
  <2>3. /\ call' = NoCall
        /\ \A c \in Change : ledger'[c].by = ledger[c].by
        /\ \A c \in Change : c # call.chg => ledger'[c].ack = ledger[c].ack
        /\ \A c \in Change : c = call.chg => ledger'[c].ack = ack
    BY <2>2, ReturnEffect DEF TxInv
  <2>4. CallInv' /\ call'.stage \notin Early /\ call'.chg = None
    BY <2>3, IdleTx, NoCallFields DEF Early
  <2>5. PICK done \in LostAnswer \cup {{}} : committed' = committed \cup done
    BY <1>6 DEF Breaks
  <2>6. \A c \in committed' :
          \/ c \in committed
          \/ srv.up /\ (c = call.chg \/ \E h \in TxHandle : c \in srv.pend[h])
    BY <2>5, LostAnswerBound, TxTypes DEF TxInv, Changes
  <2>7. \A c \in Change : ledger'[c].ack = "retry" =>
           ledger[c].ack = "retry" \/ (~srv'.up /\ c \notin committed')
    <3> SUFFICES ASSUME NEW c \in Change, c = call.chg, ack = "retry"
                 PROVE  c \notin committed'
      BY <1>3, <2>3
    <3>1. committed' = committed
      BY <2>2, <2>5, NothingLost
    <3>2. call.stage \in Early /\ call.chg # None
      BY <2>2 DEF Early
    <3> QED BY <3>1, <3>2 DEF TxInv, RetryInv, Nowhere
  <2>8. \A r \in RowsObj : rows'[r].chg \in {rows[r].chg, None}
    BY <1>6, TxTypes DEF Breaks, TxInv, NoRows
  <2>9. RetryInv'
    BY <1>2, <1>3, <2>3, <2>4, <2>6, <2>7, <2>8, KeptRetry
  <2> QED BY <1>1, <2>1, <2>4, <2>9
<1> QED BY <1>4, <1>5, <1>6, EndOutcomes DEF TxInv

----------------------------------------------------------------------------
(* The theorems about transactions *)

\* Every step preserves the invariant of transactions.
LEMMA StepTx == ASSUME TxInv, [Next]_vars PROVE TxInv'
<1>1. SessionInv'
  BY StepInv DEF TxInv
<1>2. CASE UNCHANGED vars
  BY <1>1, <1>2 DEF vars, TxInv, DriverInv, LiveInv, LiveTx, CallInv, RetryInv, Nowhere
<1>3. CASE StatementCalls
  BY <1>1, <1>3, StatementStarts, StartsForTx DEF TxInv, SessionInv
<1>4. CASE StatementSteps \/ TxSteps \/ ObjectSteps \/ ConnSteps \/ ResetSession
  BY <1>1, <1>4, StatementStepsTx, TxStepsTx, ObjectStepsTx, EndStepsTx DEF TxInv, ConnSteps
<1> QED BY <1>2, <1>3, <1>4 DEF Next

\* A new connection has no transaction.
LEMMA InitTx == ASSUME Init PROVE TxInv
<1>1. SessionInv
  BY InitInv
<1>2. call = NoCall /\ srv.tx = {} /\ committed = {} /\ conn.autoTx = None
      /\ conn.activeTx = None /\ ~conn.dirtyAutoTx /\ \A h \in TxHandle : srv.pend[h] = {}
  BY DEF Init, SrvDown
<1>3. DriverInv /\ LiveInv
  BY <1>2 DEF Init, DriverInv, LiveInv, LiveTx
<1>4. CallInv
  BY <1>2, NoCallFields DEF CallInv, Running, Early, StatementFn
<1>5. RetryInv
  BY <1>2, NoCallFields DEF Init, RetryInv, Nowhere, NoRows, Early
<1> QED BY <1>1, <1>3, <1>4, <1>5 DEF TxInv

\* The invariant of transactions holds in every reachable state, whether the
\* callers are database/sql's pool or share a pinned connection.
THEOREM TxInvariant == Spec => []TxInv
<1>1. Init => TxInv
  BY InitTx
<1>2. TxInv /\ [Next]_vars => TxInv'
  BY StepTx
<1> QED BY <1>1, <1>2, PTL DEF Spec

\* The transactions the driver would use are open on the server.
THEOREM DriverHandlesAreLive == Spec => []HandlesAreLive
<1>1. TxInv => HandlesAreLive
  <2> SUFFICES ASSUME TxInv, srv.up
               PROVE  conn.activeTx \in srv.tx \cup {None} /\ conn.autoTx \in srv.tx \cup {None}
    BY DEF HandlesAreLive
  <2>1. conn.autoTx \in srv.tx \cup {None}
    BY DEF TxInv, LiveInv
  <2>2. ASSUME conn.activeTx # None PROVE conn.activeTx \in srv.tx
    <3>1. PICK t \in TxObj : txs[t].st = "open" /\ txs[t].handle = conn.activeTx
      BY <2>2 DEF TxInv, DriverInv
    <3> QED BY <3>1 DEF TxInv, LiveInv, LiveTx
  <2> QED BY <2>1, <2>2
<1> QED BY <1>1, TxInvariant, PTL

\* A statement that database/sql may run again has left no trace.
THEOREM RetriesAreSafe == Spec => []RetryIsSafe
<1>1. TxInv => RetryIsSafe
  BY DEF TxInv, RetryInv, RetryIsSafe
<1> QED BY <1>1, TxInvariant, PTL

----------------------------------------------------------------------------
(***************************************************************************)
(* Durability on a connection that is used through database/sql's pool,    *)
(* with statements that change data only if they are described as doing    *)
(* so.                                                                     *)
(***************************************************************************)

----------------------------------------------------------------------------
(* The inductive invariant: changes *)

\* Rows that are open or being closed.
Held(r) == rows[r].open \/ (call.fn = "close rows" /\ call.rows = r)

\* Somebody is about to commit the auto-commit transaction, with c in it.
InCharge(c) ==
  \/ call.chg = c /\ call.stage = "commitRetaining"
  \/ \E r \in RowsObj : Held(r) /\ rows[r].commitOnClose /\ rows[r].chg = c

\* One user at a time: a transaction, or a statement in auto-commit mode.
UsersInv ==
  /\ \A t, u \in TxObj : LiveTx(t) /\ LiveTx(u) => t = u
  /\ \A t \in TxObj : txs[t].st \in {"committing", "rolling back"} =>
       call.stage = "end" /\ call.obj = t
  /\ \A t \in TxObj : Usable /\ txs[t].st = "open" =>
       conn.activeTx = txs[t].handle /\ conn.activeTx # None
  /\ call.auto => RowsClosed /\ TxClosed
  /\ call.stage \in {"commitAuto", "start"} => TxClosed
  /\ \A c \in Change : ledger[c].by \in TxObj => txs[ledger[c].by].st # "none"

\* Where the change of the statement in progress is.
StatementInv ==
  /\ call.fn \in {"exec", "query"} /\ call.chg = None => call.typ = "select"
  /\ call.fn \in {"exec", "query"} /\ call.chg # None =>
       /\ ledger[call.chg].ack = "open"
       /\ call.auto => ledger[call.chg].by = "auto" /\ call.typ # "select"
       /\ ~call.auto => \E t \in TxObj : /\ ledger[call.chg].by = t /\ txs[t].st = "open"
                                         /\ call.tx = txs[t].handle
       /\ call.stage = "commitRetaining" /\ srv.up => call.chg \in srv.pend[call.tx]
       /\ call.stage = "info" /\ call.auto => call.chg \in committed

\* The methods of rows and transactions, and their round trips.
MethodInv ==
  /\ call.stage = "end" <=> call.fn \in {"commit", "rollback"}
  /\ call.stage \in {"free", "commitOnClose"} <=> call.fn = "close rows"
  /\ call.fn \in {"next", "close rows"} =>
       call.rows \in RowsObj /\ call.chg = rows[call.rows].chg
  /\ call.fn = "close rows" => call.tx = rows[call.rows].tx
  /\ call.stage = "commitOnClose" => rows[call.rows].commitOnClose

\* Rows that commit are alone with the auto-commit transaction; other rows
\* that changed something belong to a transaction.
RowsInv ==
  \A r \in RowsObj : Held(r) =>
    /\ rows[r].commitOnClose =>
         /\ rows[r].chg # None /\ ledger[rows[r].chg].by = "auto"
         /\ TxClosed
         /\ \A q \in RowsObj : Held(q) => q = r
         /\ srv.up => /\ rows[r].chg \in srv.pend[rows[r].tx]
                      /\ rows[r].tx = conn.autoTx /\ conn.autoTx # None
         /\ Usable <=> ledger[rows[r].chg].ack = "open"
         /\ call # NoCall => call.fn \in {"next", "close rows"} /\ call.rows = r
    /\ ~rows[r].commitOnClose /\ rows[r].chg # None => ledger[rows[r].chg].by \in TxObj

\* Which changes a transaction of the server may hold.
PendInv ==
  srv.up => \A h \in TxHandle : \A c \in srv.pend[h] :
    /\ ledger[c].by \in TxObj =>
         /\ txs[ledger[c].by].handle = h /\ h # conn.autoTx
         /\ \A u \in TxObj : LiveTx(u) /\ txs[u].handle = h => u = ledger[c].by
    /\ ledger[c].by = "auto" =>
         /\ \A u \in TxObj : LiveTx(u) => txs[u].handle # h
         /\ h = conn.autoTx => ledger[c].ack = "open" /\ InCharge(c)

\* What a transaction was asked for is in the server's hands.
OpenInv ==
  srv.up => \A c \in Change : \A t \in TxObj :
    /\ txs[t].st \in {"open", "committing"}
    /\ ledger[c].by = t /\ ledger[c].ack = "open"
    => c \in srv.pend[txs[t].handle] \/ (call.chg = c /\ call.stage \in Early)

ChangeInv ==
  /\ UsersInv /\ StatementInv /\ MethodInv /\ RowsInv /\ PendInv /\ OpenInv
  /\ AckedIsDurable /\ OnlyCommitCommits

DurInv == TxInv /\ ChangeInv

----------------------------------------------------------------------------
(* What the invariant says of the transactions of the server *)

\* Who may ask for a change.
LEMMA ByWhom ==
  ASSUME TxInv, NEW c \in Change, ledger[c].by # "none"
  PROVE  ledger[c].by = "auto" \/ ledger[c].by \in TxObj
BY TxTypes DEF TxInv, Entry

\* What is in a transaction was asked for.
LEMMA PendAsked ==
  ASSUME TxInv, NEW h \in TxHandle, NEW c \in srv.pend[h]
  PROVE  c \in Change /\ (ledger[c].by = "auto" \/ ledger[c].by \in TxObj)
<1>1. c \in Change
  BY TxTypes DEF TxInv
<1>2. ledger[c].by # "none"
  BY <1>1 DEF TxInv, RetryInv, Nowhere
<1> QED BY <1>1, <1>2, ByWhom

\* The auto-commit transaction holds auto-committed changes only, and somebody
\* is about to commit them.
LEMMA AutoPend ==
  ASSUME DurInv, srv.up, conn.autoTx \in TxHandle, NEW c \in srv.pend[conn.autoTx]
  PROVE  /\ c \in Change /\ ledger[c].by = "auto" /\ ledger[c].ack = "open"
         /\ InCharge(c)
BY PendAsked DEF DurInv, ChangeInv, PendInv

\* The transaction being ended holds its own changes only.
LEMMA EndPend ==
  ASSUME DurInv, srv.up, call.stage = "end", call.tx \in TxHandle, NEW c \in srv.pend[call.tx]
  PROVE  c \in Change /\ ledger[c].by = call.obj
<1>1. call.obj \in TxObj /\ txs[call.obj].handle = call.tx /\ LiveTx(call.obj)
  BY DEF DurInv, TxInv, CallInv, LiveTx
<1>2. c \in Change /\ (ledger[c].by = "auto" \/ ledger[c].by \in TxObj)
  BY PendAsked DEF DurInv
<1> QED BY <1>1, <1>2 DEF DurInv, ChangeInv, PendInv

\* While a statement runs no rows are waiting to commit.
LEMMA NoCommitRows ==
  ASSUME DurInv, call # NoCall, call.fn \notin {"next", "close rows"}
  PROVE  \A r \in RowsObj : Held(r) => ~rows[r].commitOnClose
BY DEF DurInv, ChangeInv, RowsInv

\* So the auto-commit transaction is empty until its statement runs.
LEMMA AutoEmpty ==
  ASSUME DurInv, srv.up, call # NoCall, call.fn \notin {"next", "close rows"},
         call.stage # "commitRetaining", conn.autoTx \in TxHandle
  PROVE  srv.pend[conn.autoTx] = {}
BY AutoPend, NoCommitRows DEF InCharge

----------------------------------------------------------------------------
(* What a step has to respect *)

\* Transactions gain the change of the statement only, and what is in the
\* auto-commit transaction has somebody to commit it.
LEMMA KeptPend ==
  ASSUME DurInv, srv'.up => srv.up,
         \A h \in TxHandle : \A c \in srv'.pend[h] :
           c \in srv.pend[h]
           \/ (c \in Changes(call.chg) /\ h = call.tx /\ call.fn \in {"exec", "query"}
                /\ (call.auto => call.tx = conn.autoTx)),
         \A t \in TxObj : txs[t].st # "none" => txs'[t].handle = txs[t].handle,
         \A t \in TxObj : LiveTx(t)' =>
           (LiveTx(t) /\ txs'[t].handle = txs[t].handle) \/ srv'.pend[txs'[t].handle] = {},
         \A c \in Change : ledger'[c].by = ledger[c].by,
         srv'.up /\ conn'.autoTx \in TxHandle =>
           \A c \in srv'.pend[conn'.autoTx] :
             ledger[c].by = "auto" /\ ledger'[c].ack = "open" /\ InCharge(c)'
  PROVE  PendInv'
<1> SUFFICES ASSUME srv'.up, NEW h \in TxHandle, NEW c \in srv'.pend[h]
             PROVE  /\ ledger[c].by \in TxObj =>
                         /\ txs'[ledger[c].by].handle = h /\ h # conn'.autoTx
                         /\ \A u \in TxObj : LiveTx(u)' /\ txs'[u].handle = h => u = ledger[c].by
                    /\ ledger[c].by = "auto" =>
                         /\ \A u \in TxObj : LiveTx(u)' => txs'[u].handle # h
                         /\ h = conn'.autoTx => ledger'[c].ack = "open" /\ InCharge(c)'
  <2>1. \A h \in TxHandle : \A c \in srv'.pend[h] : c \in Change
    BY TxTypes DEF DurInv, TxInv, Changes
  <2> QED BY <2>1 DEF PendInv
<1>1. c \in Change /\ "auto" \notin TxObj
  BY TxTypes DEF DurInv, TxInv, Changes
<1>2. h = conn'.autoTx => ledger[c].by = "auto" /\ ledger'[c].ack = "open" /\ InCharge(c)'
  OBVIOUS
<1>3. ASSUME NEW u \in TxObj, LiveTx(u)', txs'[u].handle = h
      PROVE  LiveTx(u) /\ txs[u].handle = h
  BY <1>3
<1>4. /\ ledger[c].by \in TxObj =>
           /\ txs[ledger[c].by].handle = h /\ txs[ledger[c].by].st # "none"
           /\ \A u \in TxObj : LiveTx(u) /\ txs[u].handle = h => u = ledger[c].by
      /\ ledger[c].by = "auto" => \A u \in TxObj : LiveTx(u) => txs[u].handle # h
  <2>1. CASE c \in srv.pend[h]
    <3>1. ledger[c].by \in TxObj => txs[ledger[c].by].st # "none"
      BY <1>1 DEF DurInv, ChangeInv, UsersInv
    <3> QED BY <2>1, <3>1 DEF DurInv, ChangeInv, PendInv
  <2>2. CASE c \in Changes(call.chg) /\ h = call.tx /\ call.fn \in {"exec", "query"}
             /\ (call.auto => call.tx = conn.autoTx)
    <3>0. c = call.chg /\ c # None
      BY <2>2 DEF Changes
    <3>1. call.auto => ledger[c].by = "auto"
      BY <2>2, <3>0 DEF DurInv, ChangeInv, StatementInv
    <3>2. ~call.auto => \E t \in TxObj : ledger[c].by = t /\ txs[t].st = "open" /\ txs[t].handle = h
      BY <2>2, <3>0 DEF DurInv, ChangeInv, StatementInv
    <3>3. CASE call.auto
      <4>1. \A u \in TxObj : LiveTx(u) => txs[u].handle # h
        BY <2>2, <3>3 DEF DurInv, TxInv, LiveInv
      <4> QED BY <1>1, <3>1, <3>3, <4>1
    <3>4. CASE ~call.auto
      <4>1. PICK t \in TxObj : ledger[c].by = t /\ txs[t].st = "open" /\ txs[t].handle = h
        BY <3>2, <3>4
      <4>2. \A u \in TxObj : LiveTx(u) /\ txs[u].handle = h => u = t
        BY <4>1 DEF DurInv, TxInv, LiveInv, LiveTx
      <4> QED BY <1>1, <4>1, <4>2
    <3> QED BY <3>3, <3>4
  <2> QED BY <2>1, <2>2
<1>5. ledger[c].by \in TxObj =>
        /\ txs'[ledger[c].by].handle = h /\ h # conn'.autoTx
        /\ \A u \in TxObj : LiveTx(u)' /\ txs'[u].handle = h => u = ledger[c].by
  BY <1>1, <1>2, <1>3, <1>4
<1>6. ledger[c].by = "auto" =>
        /\ \A u \in TxObj : LiveTx(u)' => txs'[u].handle # h
        /\ h = conn'.autoTx => ledger'[c].ack = "open" /\ InCharge(c)'
  BY <1>2, <1>3, <1>4
<1> QED BY <1>5, <1>6

\* Open transactions lose nothing, and gain the change of their statement.
LEMMA KeptOpen ==
  ASSUME DurInv, srv'.up => srv.up,
         \A t \in TxObj : txs'[t].st \in {"open", "committing"} =>
           \/ txs[t].st = "none"
           \/ txs[t].st \in {"open", "committing"} /\ txs'[t].handle = txs[t].handle
              /\ srv.pend[txs[t].handle] \subseteq srv'.pend[txs[t].handle],
         \A c \in Change : ledger'[c].by = ledger[c].by
                           /\ (ledger'[c].ack = "open" => ledger[c].ack = "open"),
         call.chg # None /\ call.stage \in Early /\ ledger[call.chg].by \in TxObj =>
           \/ call'.chg = call.chg /\ call'.stage \in Early
           \/ ledger'[call.chg].ack # "open"
           \/ call.chg \in srv'.pend[call.tx]
  PROVE  OpenInv'
<1> SUFFICES ASSUME srv'.up, NEW c \in Change, NEW t \in TxObj,
                    txs'[t].st \in {"open", "committing"},
                    ledger'[c].by = t, ledger'[c].ack = "open"
             PROVE  c \in srv'.pend[txs'[t].handle] \/ (call'.chg = c /\ call'.stage \in Early)
  BY DEF OpenInv
<1>1. ledger[c].by = t /\ ledger[c].ack = "open" /\ srv.up /\ txs[t].st # "none"
  BY DEF DurInv, ChangeInv, UsersInv
<1>2. /\ txs[t].st \in {"open", "committing"} /\ txs'[t].handle = txs[t].handle
      /\ srv.pend[txs[t].handle] \subseteq srv'.pend[txs[t].handle]
  BY <1>1
<1>3. c \in srv.pend[txs[t].handle] \/ (call.chg = c /\ call.stage \in Early)
  BY <1>1, <1>2 DEF DurInv, ChangeInv, OpenInv
<1>4. CASE call.chg = c /\ call.stage \in Early
  <2>1. c # None
    OBVIOUS
  <2>2. call.fn \in {"exec", "query"}
    BY <1>4, <2>1 DEF DurInv, TxInv, CallInv, Running, StatementFn
  <2>3. call.tx = txs[t].handle
    BY <1>1, <1>4, <2>1, <2>2 DEF DurInv, ChangeInv, StatementInv
  <2> QED BY <1>1, <1>2, <1>4, <2>1, <2>3
<1> QED BY <1>2, <1>3, <1>4

\* Commits by somebody in charge.
LEMMA KeptOnly ==
  ASSUME DurInv, \A c \in Change : ledger'[c].by = ledger[c].by,
         committed' \subseteq Change,
         \A t \in TxObj : txs[t].st \in {"committing", "committed", "commit failed"} =>
                          txs'[t].st \in {"committing", "committed", "commit failed"},
         \A c \in committed' : \/ c \in committed \/ ledger[c].by = "auto"
                               \/ ledger[c].by \in TxObj
                                  /\ txs'[ledger[c].by].st \in {"committing", "committed", "commit failed"}
  PROVE  OnlyCommitCommits'
BY DEF DurInv, ChangeInv, OnlyCommitCommits

\* A step after which no rows are waiting to commit.
LEMMA PlainRows ==
  ASSUME DurInv,
         \A r \in RowsObj : Held(r)' =>
           /\ Held(r) /\ rows'[r].chg = rows[r].chg
           /\ ~rows[r].commitOnClose /\ ~rows'[r].commitOnClose,
         \A c \in Change : ledger'[c].by = ledger[c].by
  PROVE  RowsInv'
<1>1. \A r \in RowsObj : rows[r].chg \in Change \cup {None}
  BY TxTypes DEF DurInv, TxInv, RowsRec
<1> SUFFICES ASSUME NEW r \in RowsObj, Held(r)'
             PROVE  /\ ~rows'[r].commitOnClose
                    /\ rows'[r].chg # None => ledger'[rows'[r].chg].by \in TxObj
  BY DEF RowsInv
<1>2. /\ Held(r) /\ rows'[r].chg = rows[r].chg
      /\ ~rows[r].commitOnClose /\ ~rows'[r].commitOnClose
  OBVIOUS
<1>3. rows[r].chg # None => ledger[rows[r].chg].by \in TxObj
  BY <1>2 DEF DurInv, ChangeInv, RowsInv
<1> QED BY <1>1, <1>2, <1>3

----------------------------------------------------------------------------
(* Statements *)

\* A statement in progress.
LEMMA InStatement ==
  ASSUME DurInv, call.fn \in StatementFn
  PROVE  /\ call # NoCall /\ call.fn \notin {"next", "close rows"}
         /\ call.stage \notin {"none", "commitAuto", "start", "end", "free", "commitOnClose"}
         /\ call.tx = IF call.auto THEN conn.autoTx ELSE conn.activeTx
         /\ call.chg # None => call.fn \in {"exec", "query"}
         /\ call.auto => \A t \in TxObj : ~LiveTx(t)
         /\ \A t \in TxObj : LiveTx(t) => txs[t].st = "open"
<1>1. call.stage \in Running
  BY DEF DurInv, TxInv, CallInv
<1>2. /\ call # NoCall /\ call.fn \notin {"next", "close rows"}
      /\ call.stage \notin {"none", "commitAuto", "start", "end", "free", "commitOnClose"}
  BY <1>1, NoCallFields DEF Running, Early, StatementFn
<1>3. /\ call.tx = IF call.auto THEN conn.autoTx ELSE conn.activeTx
      /\ call.chg # None => call.fn \in {"exec", "query"}
  BY <1>2 DEF DurInv, TxInv, CallInv, StatementFn
<1>4. \A t \in TxObj : LiveTx(t) => txs[t].st = "open"
  BY <1>2 DEF DurInv, ChangeInv, UsersInv, LiveTx
<1>5. call.auto => \A t \in TxObj : ~LiveTx(t)
  BY <1>4 DEF DurInv, ChangeInv, UsersInv, TxClosed
<1> QED BY <1>2, <1>3, <1>4, <1>5

\* Outside of a call only objects and transactions count.
LEMMA IdleUsers ==
  ASSUME DurInv, call' = NoCall, UNCHANGED txs, call.stage # "end",
         Usable' => Usable /\ conn'.activeTx = conn.activeTx,
         \A c \in Change : ledger'[c].by = ledger[c].by
  PROVE  UsersInv' /\ StatementInv' /\ MethodInv'
<1>1. UsersInv'
  BY NoCallFields DEF DurInv, ChangeInv, UsersInv, LiveTx
<1>2. StatementInv' /\ MethodInv'
  BY NoCallFields DEF StatementInv, MethodInv
<1> QED BY <1>1, <1>2

\* The driver keeps or drops the auto-commit transaction.
LEMMA ConnKept ==
  ASSUME KeepsConn \/ DropsAuto
  PROVE  /\ Usable' <=> Usable
         /\ conn'.activeTx = conn.activeTx
         /\ conn'.autoTx \in TxHandle => KeepsConn
BY DEF KeepsConn, DropsAuto, Usable

\* A statement returns.
LEMMA ReturnsDur ==
  ASSUME DurInv, call.fn \in StatementFn, KeepsConn \/ DropsAuto, UNCHANGED <<rows, txs>>,
         NEW ack \in {"open", "ok", "error"}, Return(ack),
         \/ KeepsDb
         \/ ack = "error" /\ srv.up /\ Runs /\ call.stage = "execute" /\ (call.auto => DropsAuto)
         \/ ack = "error" /\ srv.up /\ Commits(call.tx) /\ call.auto /\ DropsAuto,
         call.stage = "commitRetaining" => DropsAuto,
         ack # "error" => (call.stage = "info" /\ ack = ExecAck) \/ call.chg = None
  PROVE  ChangeInv'
<1>1. /\ call # NoCall /\ call.fn \notin {"next", "close rows"} /\ call.stage # "end"
      /\ call.tx = IF call.auto THEN conn.autoTx ELSE conn.activeTx
      /\ call.chg # None => call.fn \in {"exec", "query"}
      /\ call.auto => \A t \in TxObj : ~LiveTx(t)
  BY InStatement
<1>2. /\ call' = NoCall
      /\ \A c \in Change : ledger'[c].by = ledger[c].by
      /\ \A c \in Change : c # call.chg => ledger'[c].ack = ledger[c].ack
      /\ \A c \in Change : c = call.chg => ledger'[c].ack = ack
      /\ call.chg = None => ledger' = ledger
  BY ReturnEffect DEF DurInv, TxInv
<1>3. /\ srv.tx \subseteq TxHandle /\ srv.pend \in [TxHandle -> SUBSET Change]
      /\ call.chg \in Change \cup {None} /\ committed \subseteq Change
  BY TxTypes DEF DurInv, TxInv
<1>4. UsersInv' /\ StatementInv' /\ MethodInv'
  BY <1>1, <1>2, ConnKept, IdleUsers
<1>5. RowsInv'
  <2>1. \A r \in RowsObj : Held(r)' => rows[r].open /\ rows'[r] = rows[r]
    BY <1>2, NoCallFields DEF Held
  <2>2. \A r \in RowsObj : rows[r].open => Held(r) /\ ~rows[r].commitOnClose
    BY <1>1, NoCommitRows DEF Held
  <2> QED BY <1>2, <2>1, <2>2, PlainRows
<1>6. srv'.up => srv.up
  BY DEF KeepsDb, Runs, Commits, Holds
<1>7. \A h \in TxHandle : \A c \in srv'.pend[h] :
        c \in srv.pend[h] \/ (c \in Changes(call.chg) /\ h = call.tx)
  BY <1>3 DEF KeepsDb, Runs, Commits, Holds
<1>8. conn'.autoTx \in TxHandle /\ srv'.up => srv'.pend[conn'.autoTx] = {}
  <2> SUFFICES ASSUME conn'.autoTx \in TxHandle, srv'.up
               PROVE  srv'.pend[conn.autoTx] = {} /\ conn'.autoTx = conn.autoTx
    OBVIOUS
  <2>1. conn'.autoTx = conn.autoTx /\ ~DropsAuto
    BY DEF KeepsConn, DropsAuto
  <2>2. srv.pend[conn.autoTx] = {} /\ conn.autoTx \in TxHandle
    BY <1>1, <1>6, <2>1, AutoEmpty
  <2>3. CASE KeepsDb
    BY <2>1, <2>2, <2>3 DEF KeepsDb
  <2>4. CASE Runs /\ ~call.auto
    <3>1. call.tx = conn.activeTx /\ call.tx # None
      BY <1>1, <1>3, <2>4 DEF Runs, Holds
    <3>2. conn.activeTx = None \/ conn.autoTx = None
      BY DEF DurInv, TxInv, SessionInv, OneTransaction
    <3> QED BY <2>2, <3>1, <3>2
  <2> QED BY <2>1, <2>3, <2>4
<1>9. PendInv'
  <2>1. \A c : c \in Changes(call.chg) => call.fn \in {"exec", "query"}
    BY <1>1 DEF Changes
  <2>2. \A h \in TxHandle : \A c \in srv'.pend[h] :
          c \in srv.pend[h]
          \/ (c \in Changes(call.chg) /\ h = call.tx /\ call.fn \in {"exec", "query"}
               /\ (call.auto => call.tx = conn.autoTx))
    BY <1>1, <1>7, <2>1
  <2>3. \A t \in TxObj : LiveTx(t)' => LiveTx(t) /\ txs'[t].handle = txs[t].handle
    BY DEF LiveTx
  <2> QED BY <1>2, <1>6, <1>8, <2>2, <2>3, KeptPend
<1>10. OpenInv'
  <2>1. \A t \in TxObj : txs[t].st \in {"open", "committing"} =>
          srv.pend[txs[t].handle] \subseteq srv'.pend[txs[t].handle]
    <3> SUFFICES ASSUME NEW t \in TxObj, LiveTx(t)
                 PROVE  srv.pend[txs[t].handle] \subseteq srv'.pend[txs[t].handle]
      BY DEF LiveTx
    <3>1. KeepsDb \/ (Runs /\ srv.up)
      BY <1>1
    <3>2. srv.up => txs[t].handle \in TxHandle
      BY <1>3 DEF DurInv, TxInv, LiveInv
    <3> QED BY <1>3, <3>1, <3>2 DEF KeepsDb, Runs, Holds
  <2>2. call.stage \in Early => call.stage # "info"
    BY DEF Early
  <2>3. \A c \in Change : ledger'[c].ack = "open" => ledger[c].ack = "open"
    <3>1. call.chg \in Change /\ ack = "open" => ledger[call.chg].ack = "open"
      BY <1>1 DEF DurInv, ChangeInv, StatementInv
    <3> QED BY <1>2, <3>1
  <2>4. call.chg # None /\ call.stage \in Early => ledger'[call.chg].ack # "open"
    BY <1>2, <1>3, <2>2
  <2> QED BY <1>2, <1>6, <2>1, <2>3, <2>4, KeptOpen
<1>11. committed \subseteq committed'
  BY DEF KeepsDb, Runs, Commits
<1>12. AckedIsDurable'
  <2>1. call.chg \in Change /\ ack = "ok" => call.chg \in committed
    BY <1>1 DEF DurInv, ChangeInv, StatementInv, ExecAck
  <2> QED BY <1>2, <1>11, <2>1 DEF DurInv, ChangeInv, AckedIsDurable
<1>13. OnlyCommitCommits'
  <2>1. \A c \in committed' : c \in committed \/ ledger[c].by = "auto"
    <3>1. CASE committed' = committed
      BY <3>1
    <3>2. CASE srv.up /\ call.auto /\ Commits(call.tx)
      BY <1>1, <1>3, <3>2, AutoPend DEF Commits, Holds
    <3> QED BY <3>1, <3>2 DEF KeepsDb, Runs
  <2>2. committed' \subseteq Change
    BY <1>3 DEF KeepsDb, Runs, Commits, Holds
  <2> QED BY <1>2, <2>1, <2>2, KeptOnly
<1> QED BY <1>4, <1>5, <1>9, <1>10, <1>12, <1>13 DEF ChangeInv

\* A statement that goes on, as far as the objects are concerned.
LEMMA GoesOnUsers ==
  ASSUME DurInv, call.fn \in StatementFn, NEW stage \in Running, GoesOn(stage),
         Usable' => Usable /\ conn'.activeTx = conn.activeTx
  PROVE  UsersInv' /\ MethodInv' /\ RowsInv'
<1>1. /\ call'.fn = call.fn /\ call'.stage = stage /\ call'.auto = call.auto
      /\ UNCHANGED <<rows, txs, ledger>>
  BY DEF GoesOn
<1>2. call.fn \notin {"next", "close rows"} /\ call # NoCall
      /\ call.stage \notin {"commitAuto", "start", "end"}
  BY InStatement
<1>3. stage \notin {"commitAuto", "start", "end", "free", "commitOnClose"}
      /\ call.fn \notin {"commit", "rollback", "next", "close rows"}
  BY DEF Running, Early, StatementFn
<1>4. UsersInv'
  <2>1. UsersInv
    BY DEF DurInv, ChangeInv
  <2>2. \A t \in TxObj : txs[t].st \notin {"committing", "rolling back"}
    BY <1>2, <2>1 DEF UsersInv
  <2>3. (call.auto => RowsClosed /\ TxClosed)'
    BY <1>1, <2>1 DEF UsersInv, RowsClosed, TxClosed
  <2>4. \A t \in TxObj : Usable' /\ txs'[t].st = "open" =>
          conn'.activeTx = txs'[t].handle /\ conn'.activeTx # None
    BY <1>1, <2>1 DEF UsersInv
  <2> QED BY <1>1, <1>3, <2>1, <2>2, <2>3, <2>4 DEF UsersInv, LiveTx
<1>5. MethodInv'
  BY <1>1, <1>3 DEF MethodInv
<1>6. RowsInv'
  <2>1. \A r \in RowsObj : Held(r)' => rows[r].open /\ rows'[r] = rows[r]
    BY <1>1, <1>3 DEF Held
  <2>2. \A r \in RowsObj : rows[r].open => Held(r) /\ ~rows[r].commitOnClose
    BY <1>2, NoCommitRows DEF Held
  <2> QED BY <1>1, <2>1, <2>2, PlainRows
<1> QED BY <1>4, <1>5, <1>6

\* A statement that goes on before it has run.
LEMMA EarlyDur ==
  ASSUME DurInv, call.fn \in StatementFn, call.stage \in Early, NEW stage \in Early, GoesOn(stage),
         committed' = committed, srv'.up = srv.up, srv'.pend = srv.pend,
         Usable' => Usable /\ conn'.activeTx = conn.activeTx,
         \/ conn'.autoTx = conn.autoTx /\ call'.tx = call.tx
         \/ srv.up /\ call.auto /\ conn'.autoTx \in TxHandle \ srv.tx
  PROVE  ChangeInv'
<1>1. UsersInv' /\ MethodInv' /\ RowsInv'
  BY GoesOnUsers DEF Running
<1>2. /\ call'.fn = call.fn /\ call'.stage = stage /\ call'.auto = call.auto
      /\ call'.chg = call.chg /\ call'.typ = call.typ
      /\ UNCHANGED <<rows, txs, ledger>>
  BY DEF GoesOn
<1>3. /\ call # NoCall /\ call.fn \notin {"next", "close rows"}
      /\ call.stage # "commitRetaining" /\ stage \notin {"commitRetaining", "info"}
  BY InStatement DEF Early
<1>4. StatementInv'
  BY <1>2, <1>3 DEF DurInv, ChangeInv, StatementInv
<1>5. srv'.up /\ conn'.autoTx \in TxHandle => srv'.pend[conn'.autoTx] = {}
  <2>1. CASE conn'.autoTx = conn.autoTx
    BY <1>3, <2>1, AutoEmpty
  <2>2. CASE srv.up /\ conn'.autoTx \in TxHandle \ srv.tx
    BY <2>2 DEF DurInv, TxInv, LiveInv
  <2> QED BY <2>1, <2>2
<1>6. PendInv'
  <2>1. \A t \in TxObj : LiveTx(t)' => LiveTx(t) /\ txs'[t].handle = txs[t].handle
    BY <1>2 DEF LiveTx
  <2> QED BY <1>2, <1>5, <2>1, KeptPend
<1>7. OpenInv'
  BY <1>2, KeptOpen
<1>8. AckedIsDurable' /\ OnlyCommitCommits'
  BY <1>2 DEF DurInv, ChangeInv, AckedIsDurable, OnlyCommitCommits
<1> QED BY <1>1, <1>4, <1>6, <1>7, <1>8 DEF ChangeInv

\* A statement that goes on after it has run, or after its commit.
LEMMA GoesOnDur ==
  ASSUME DurInv, call.fn \in StatementFn, srv.up, KeepsConn, call'.tx = call.tx,
         NEW stage \in {"commitRetaining", "info"}, GoesOn(stage),
         \/ /\ Runs /\ call.fn = "exec" /\ call.stage = "execute"
            /\ stage = IF call.auto THEN "commitRetaining" ELSE "info"
         \/ /\ Holds(call.tx, {}) /\ call.auto /\ stage = "info"
            /\ committed' = committed \cup srv.pend[call.tx] \cup Changes(call.chg)
         \/ Commits(call.tx) /\ call.stage = "commitRetaining" /\ stage = "info"
  PROVE  ChangeInv'
<1>1. UsersInv' /\ MethodInv' /\ RowsInv'
  <2>1. stage \in Running
    BY DEF Running
  <2> QED BY <2>1, ConnKept, GoesOnUsers
<1>2. /\ call'.fn = call.fn /\ call'.stage = stage /\ call'.auto = call.auto
      /\ call'.chg = call.chg /\ call'.typ = call.typ
      /\ UNCHANGED <<rows, txs, ledger>>
  BY DEF GoesOn
<1>3. /\ call # NoCall /\ call.fn \notin {"next", "close rows"}
      /\ call.tx = IF call.auto THEN conn.autoTx ELSE conn.activeTx
      /\ call.chg # None => call.fn \in {"exec", "query"}
      /\ call.auto => \A t \in TxObj : ~LiveTx(t)
  BY InStatement
<1>4. /\ srv.tx \subseteq TxHandle /\ srv.pend \in [TxHandle -> SUBSET Change]
      /\ call.chg \in Change \cup {None} /\ committed \subseteq Change
      /\ call.auto \in BOOLEAN
  BY TxTypes DEF DurInv, TxInv
<1>5. call.stage = "commitRetaining" => call.auto
  BY DEF DurInv, TxInv, CallInv
<1>6. call.tx \in TxHandle /\ srv'.up = srv.up /\ conn'.autoTx = conn.autoTx
  BY <1>4 DEF Runs, Commits, Holds, KeepsConn
<1>7. \A t \in TxObj : LiveTx(t)' => LiveTx(t) /\ txs'[t].handle = txs[t].handle
  BY <1>2 DEF LiveTx
<1>8. CASE Runs /\ call.fn = "exec" /\ call.stage = "execute"
           /\ stage = IF call.auto THEN "commitRetaining" ELSE "info"
  <2>1. /\ committed' = committed
        /\ srv'.pend = [srv.pend EXCEPT ![call.tx] = srv.pend[call.tx] \cup Changes(call.chg)]
    BY <1>8 DEF Runs, Holds
  <2>2. \A h \in TxHandle : \A c \in srv'.pend[h] :
          c \in srv.pend[h] \/ (c \in Changes(call.chg) /\ h = call.tx)
    BY <1>4, <2>1
  <2>3. call.chg # None => call.chg \in srv'.pend[call.tx]
    BY <1>4, <1>6, <2>1 DEF Changes
  <2>4. StatementInv'
    <3>1. stage = "info" => ~call.auto
      BY <1>8
    <3> QED BY <1>2, <2>1, <2>3, <3>1 DEF DurInv, ChangeInv, StatementInv
  <2>5. conn'.autoTx \in TxHandle => \A c \in srv'.pend[conn'.autoTx] :
          ledger[c].by = "auto" /\ ledger'[c].ack = "open" /\ InCharge(c)'
    <3> SUFFICES ASSUME conn.autoTx \in TxHandle, NEW c \in srv'.pend[conn.autoTx]
                 PROVE  ledger[c].by = "auto" /\ ledger'[c].ack = "open" /\ InCharge(c)'
      BY <1>6
    <3>1. srv.pend[conn.autoTx] = {}
      BY <1>3, <1>8, AutoEmpty
    <3>2. c = call.chg /\ c # None /\ conn.autoTx = call.tx
      BY <2>2, <3>1 DEF Changes
    <3>3. call.auto
      <4>1. conn.activeTx = None \/ conn.autoTx = None
        BY DEF DurInv, TxInv, SessionInv, OneTransaction
      <4> QED BY <1>3, <3>2, <4>1
    <3>4. ledger[c].by = "auto" /\ ledger[c].ack = "open"
      BY <1>3, <3>2, <3>3 DEF DurInv, ChangeInv, StatementInv
    <3> QED BY <1>2, <1>8, <3>2, <3>3, <3>4 DEF InCharge
  <2>6. PendInv'
    <3>1. \A h \in TxHandle : \A c \in srv'.pend[h] :
            c \in srv.pend[h]
            \/ (c \in Changes(call.chg) /\ h = call.tx /\ call.fn \in {"exec", "query"}
                 /\ (call.auto => call.tx = conn.autoTx))
      BY <1>3, <1>8, <2>2
    <3> QED BY <1>2, <1>6, <1>7, <2>5, <3>1, KeptPend
  <2>7. OpenInv'
    <3>1. \A t \in TxObj : LiveTx(t) => srv.pend[txs[t].handle] \subseteq srv'.pend[txs[t].handle]
      <4>1. \A t \in TxObj : LiveTx(t) => txs[t].handle \in TxHandle
        BY <1>4 DEF DurInv, TxInv, LiveInv
      <4> QED BY <1>4, <2>1, <4>1
    <3>2. \A t \in TxObj : txs'[t].st \in {"open", "committing"} =>
            /\ txs[t].st \in {"open", "committing"} /\ txs'[t].handle = txs[t].handle
            /\ srv.pend[txs[t].handle] \subseteq srv'.pend[txs[t].handle]
      BY <1>2, <3>1 DEF LiveTx
    <3> QED BY <1>2, <1>6, <2>3, <3>2, KeptOpen
  <2>8. AckedIsDurable' /\ OnlyCommitCommits'
    BY <1>2, <2>1 DEF DurInv, ChangeInv, AckedIsDurable, OnlyCommitCommits
  <2> QED BY <1>1, <2>4, <2>6, <2>7, <2>8 DEF ChangeInv
<1>9. ASSUME call.auto, stage = "info",
             \/ /\ Holds(call.tx, {})
                /\ committed' = committed \cup srv.pend[call.tx] \cup Changes(call.chg)
             \/ Commits(call.tx) /\ call.stage = "commitRetaining"
      PROVE  ChangeInv'
  <2>1. /\ srv'.pend = [srv.pend EXCEPT ![call.tx] = {}]
        /\ committed \cup srv.pend[call.tx] \subseteq committed'
        /\ committed' \subseteq committed \cup srv.pend[call.tx] \cup Changes(call.chg)
    BY <1>9 DEF Commits, Holds
  <2>2. call.chg # None => call.chg \in committed'
    <3>1. CASE Commits(call.tx) /\ call.stage = "commitRetaining"
      BY <1>3, <2>1, <3>1 DEF DurInv, ChangeInv, StatementInv
    <3>2. CASE committed' = committed \cup srv.pend[call.tx] \cup Changes(call.chg)
      BY <3>2 DEF Changes
    <3> QED BY <1>9, <3>1, <3>2
  <2>3. StatementInv'
    BY <1>2, <1>3, <1>9, <2>2 DEF DurInv, ChangeInv, StatementInv
  <2>4. (\A h \in TxHandle : \A c \in srv'.pend[h] : c \in srv.pend[h]) /\ srv'.pend[call.tx] = {}
    BY <1>4, <1>6, <2>1
  <2>5. PendInv'
    BY <1>2, <1>3, <1>6, <1>7, <1>9, <2>4, KeptPend
  <2>6. OpenInv'
    <3>1. \A t \in TxObj : txs'[t].st \notin {"open", "committing"}
      BY <1>2, <1>3, <1>9 DEF LiveTx
    <3>2. call.chg # None => ledger[call.chg].by \notin TxObj
      BY <1>3, <1>9 DEF DurInv, ChangeInv, StatementInv
    <3> QED BY <1>2, <1>6, <3>1, <3>2, KeptOpen
  <2>7. AckedIsDurable'
    BY <1>2, <2>1 DEF DurInv, ChangeInv, AckedIsDurable
  <2>8. OnlyCommitCommits'
    <3>1. \A c \in committed' : c \in committed \/ ledger[c].by = "auto"
      <4>1. \A c \in srv.pend[call.tx] : ledger[c].by = "auto"
        BY <1>3, <1>6, <1>9, AutoPend
      <4>2. \A c \in Changes(call.chg) : ledger[c].by = "auto"
        BY <1>3, <1>9 DEF DurInv, ChangeInv, StatementInv, Changes
      <4> QED BY <2>1, <4>1, <4>2
    <3>2. committed' \subseteq Change
      BY <1>4, <1>6, <2>1 DEF Changes
    <3> QED BY <1>2, <3>1, <3>2, KeptOnly
  <2> QED BY <1>1, <2>3, <2>5, <2>6, <2>7, <2>8 DEF ChangeInv
<1> QED BY <1>5, <1>8, <1>9

\* A query that has run: its rows are made.
LEMMA QueryDur ==
  ASSUME DurInv, call.stage = "execute", call.fn = "query", srv.up, Runs, KeepsConn,
         Return("open"), UNCHANGED txs, NEW r \in RowsObj, ~rows[r].open,
         rows' = [rows EXCEPT ![r] =
                    [open |-> TRUE, handle |-> call.handle, tx |-> call.tx,
                     autoFree |-> autoFreeStmt,
                     commitOnClose |-> commitOnClose(call.auto, call.typ),
                     hasCursor |-> call.typ # "proc", chg |-> call.chg]]
  PROVE  ChangeInv'
<1>0. call.fn \in StatementFn
  BY DEF StatementFn
<1>1. /\ call # NoCall /\ call.fn \notin {"next", "close rows"} /\ call.stage # "end"
      /\ call.tx = IF call.auto THEN conn.autoTx ELSE conn.activeTx
      /\ call.auto => \A t \in TxObj : ~LiveTx(t)
  BY <1>0, InStatement
<1>2. /\ call' = NoCall
      /\ \A c \in Change : ledger'[c].by = ledger[c].by
      /\ \A c \in Change : c # call.chg => ledger'[c].ack = ledger[c].ack
      /\ \A c \in Change : c = call.chg => ledger'[c].ack = "open"
  BY ReturnEffect DEF DurInv, TxInv
<1>3. /\ srv.tx \subseteq TxHandle /\ srv.pend \in [TxHandle -> SUBSET Change]
      /\ call.chg \in Change \cup {None} /\ committed \subseteq Change
      /\ call.auto \in BOOLEAN /\ rows \in [RowsObj -> RowsRec]
      /\ \A q \in RowsObj : rows[q].chg \in Change \cup {None}
  BY TxTypes DEF DurInv, TxInv, RowsRec
<1>4. /\ rows'[r].open /\ rows'[r].tx = call.tx /\ rows'[r].chg = call.chg
      /\ rows'[r].commitOnClose <=> (call.auto /\ call.typ # "select")
      /\ \A q \in RowsObj : q # r => rows'[q] = rows[q]
  BY <1>3 DEF commitOnClose
<1>5. /\ call.chg = None => call.typ = "select"
      /\ call.chg # None =>
           /\ ledger[call.chg].ack = "open"
           /\ call.auto => ledger[call.chg].by = "auto" /\ call.typ # "select"
           /\ ~call.auto => ledger[call.chg].by \in TxObj
  BY DEF DurInv, ChangeInv, StatementInv
<1>6. /\ committed' = committed /\ srv'.up = srv.up /\ call.tx \in TxHandle
      /\ srv'.pend = [srv.pend EXCEPT ![call.tx] = srv.pend[call.tx] \cup Changes(call.chg)]
      /\ conn'.autoTx = conn.autoTx
  BY <1>3 DEF Runs, Holds, KeepsConn
<1>7. call.chg # None => call.chg \in srv'.pend[call.tx]
  BY <1>3, <1>6 DEF Changes
<1>8. UsersInv' /\ StatementInv' /\ MethodInv'
  BY <1>1, <1>2, ConnKept, IdleUsers
<1>9. \A q \in RowsObj : Held(q)' => q = r \/ (rows[q].open /\ Held(q) /\ ~call.auto)
  <2>1. \A q \in RowsObj : Held(q)' <=> rows'[q].open
    BY <1>2, NoCallFields DEF Held
  <2>2. call.auto => \A q \in RowsObj : ~rows[q].open
    BY DEF DurInv, ChangeInv, UsersInv, RowsClosed
  <2> QED BY <1>4, <2>1, <2>2 DEF Held
<1>10. RowsInv'
  <2> SUFFICES ASSUME NEW q \in RowsObj, Held(q)'
               PROVE  /\ rows'[q].commitOnClose =>
                           /\ rows'[q].chg # None /\ ledger'[rows'[q].chg].by = "auto"
                           /\ TxClosed'
                           /\ \A p \in RowsObj : Held(p)' => p = q
                           /\ srv'.up => /\ rows'[q].chg \in srv'.pend[rows'[q].tx]
                                         /\ rows'[q].tx = conn'.autoTx /\ conn'.autoTx # None
                           /\ Usable' <=> ledger'[rows'[q].chg].ack = "open"
                           /\ call' # NoCall => call'.fn \in {"next", "close rows"} /\ call'.rows = q
                      /\ ~rows'[q].commitOnClose /\ rows'[q].chg # None =>
                           ledger'[rows'[q].chg].by \in TxObj
    BY DEF RowsInv
  <2>1. CASE q # r
    <3>1. Held(q) /\ ~rows[q].commitOnClose /\ rows'[q] = rows[q]
      BY <1>1, <1>4, <1>9, <2>1, NoCommitRows
    <3>2. rows[q].chg # None => ledger[rows[q].chg].by \in TxObj
      BY <3>1 DEF DurInv, ChangeInv, RowsInv
    <3> QED BY <1>2, <1>3, <3>1, <3>2
  <2>2. CASE q = r /\ rows'[r].commitOnClose
    <3>1. call.auto /\ call.chg # None /\ call.chg \in Change
      BY <1>3, <1>4, <1>5, <2>2
    <3>2. ledger'[call.chg].by = "auto" /\ ledger'[call.chg].ack = "open"
      BY <1>2, <1>5, <3>1
    <3>3. TxClosed'
      BY <3>1 DEF DurInv, ChangeInv, UsersInv, TxClosed
    <3>4. \A p \in RowsObj : Held(p)' => p = r
      BY <1>9, <3>1
    <3>5. call.chg \in srv'.pend[call.tx] /\ call.tx = conn'.autoTx /\ conn'.autoTx # None
      BY <1>1, <1>6, <1>7, <3>1
    <3>6. Usable'
      <4>1. Usable
        BY DEF DurInv, TxInv, SessionInv, CallsAreConsistent
      <4> QED BY <4>1, ConnKept
    <3> QED BY <1>2, <1>4, <2>2, <3>1, <3>2, <3>3, <3>4, <3>5, <3>6
  <2>3. CASE q = r /\ ~rows'[r].commitOnClose
    BY <1>2, <1>3, <1>4, <1>5, <2>3
  <2> QED BY <2>1, <2>2, <2>3
<1>11. \A h \in TxHandle : \A c \in srv'.pend[h] :
         c \in srv.pend[h] \/ (c \in Changes(call.chg) /\ h = call.tx)
  BY <1>3, <1>6
<1>12. conn'.autoTx \in TxHandle => \A c \in srv'.pend[conn'.autoTx] :
         ledger[c].by = "auto" /\ ledger'[c].ack = "open" /\ InCharge(c)'
  <2> SUFFICES ASSUME conn.autoTx \in TxHandle, NEW c \in srv'.pend[conn.autoTx]
               PROVE  ledger[c].by = "auto" /\ ledger'[c].ack = "open" /\ InCharge(c)'
    BY <1>6
  <2>1. srv.pend[conn.autoTx] = {}
    BY <1>1, AutoEmpty
  <2>2. c = call.chg /\ c # None /\ conn.autoTx = call.tx
    BY <1>11, <2>1 DEF Changes
  <2>3. call.auto
    <3>1. conn.activeTx = None \/ conn.autoTx = None
      BY DEF DurInv, TxInv, SessionInv, OneTransaction
    <3> QED BY <1>1, <2>2, <3>1
  <2>4. ledger[c].by = "auto" /\ ledger'[c].ack = "open" /\ call.typ # "select"
    BY <1>2, <1>3, <1>5, <2>2, <2>3
  <2>5. Held(r)' /\ rows'[r].commitOnClose /\ rows'[r].chg = c
    BY <1>4, <2>2, <2>3, <2>4 DEF Held
  <2> QED BY <2>4, <2>5 DEF InCharge
<1>13. PendInv'
  <2>1. \A h \in TxHandle : \A c \in srv'.pend[h] :
          c \in srv.pend[h]
          \/ (c \in Changes(call.chg) /\ h = call.tx /\ call.fn \in {"exec", "query"}
               /\ (call.auto => call.tx = conn.autoTx))
    BY <1>1, <1>11
  <2>2. \A t \in TxObj : LiveTx(t)' => LiveTx(t) /\ txs'[t].handle = txs[t].handle
    BY DEF LiveTx
  <2> QED BY <1>2, <1>6, <1>12, <2>1, <2>2, KeptPend
<1>14. OpenInv'
  <2>1. \A t \in TxObj : LiveTx(t) => srv.pend[txs[t].handle] \subseteq srv'.pend[txs[t].handle]
    <3>1. \A t \in TxObj : LiveTx(t) => txs[t].handle \in TxHandle
      BY <1>3 DEF DurInv, TxInv, LiveInv
    <3> QED BY <1>3, <1>6, <3>1
  <2>2. \A t \in TxObj : txs'[t].st \in {"open", "committing"} =>
          /\ txs[t].st \in {"open", "committing"} /\ txs'[t].handle = txs[t].handle
          /\ srv.pend[txs[t].handle] \subseteq srv'.pend[txs[t].handle]
    BY <2>1 DEF LiveTx
  <2>3. \A c \in Change : ledger'[c].ack = "open" => ledger[c].ack = "open"
    BY <1>2, <1>5
  <2> QED BY <1>2, <1>6, <1>7, <2>2, <2>3, KeptOpen
<1>15. AckedIsDurable' /\ OnlyCommitCommits'
  BY <1>2, <1>3, <1>6 DEF DurInv, ChangeInv, AckedIsDurable, OnlyCommitCommits
<1> QED BY <1>8, <1>10, <1>13, <1>14, <1>15 DEF ChangeInv

\* The steps of a statement, together.
LEMMA StatementStepsDur ==
  ASSUME DurInv, StatementSteps
  PROVE  ChangeInv'
<1>1. ASSUME call.stage \in Running PROVE call.fn \in StatementFn
  BY <1>1 DEF DurInv, TxInv, CallInv
<1>2. Early \subseteq Running /\ "execute" \in Early /\ "describe" \in Early
      /\ {"commitRetaining", "info"} \subseteq Running \ Early
  BY DEF Running, Early
<1>3. CASE StartsAuto
  <2>1. PICK h \in TxHandle \ srv.tx :
    /\ call.stage \in {"getAutoTx", "lateAutoTx"} /\ call.auto /\ srv.up
    /\ srv'.up = srv.up /\ srv'.tx = srv.tx \cup {h} /\ srv'.pend = srv.pend
    /\ conn'.activeTx = conn.activeTx /\ conn'.autoTx = h
    /\ conn'.dirtyAutoTx = conn.dirtyAutoTx
    /\ conn'.closed = conn.closed /\ conn'.bad = conn.bad
    /\ call'.tx = h /\ (\E stage \in Early : GoesOn(stage))
    /\ committed' = committed
    BY <1>3 DEF StartsAuto
  <2>2. PICK stage \in Early : GoesOn(stage)
    BY <2>1
  <2>3. call.stage \in Early
    BY <2>1 DEF Early
  <2>4. Usable' => Usable /\ conn'.activeTx = conn.activeTx
    BY <2>1 DEF Usable
  <2> QED BY <1>1, <1>2, <2>1, <2>2, <2>3, <2>4, EarlyDur
<1>4. CASE GoesOnEarly
  <2>1. PICK stage \in Early : GoesOn(stage)
    BY <1>4 DEF GoesOnEarly
  <2>2. Usable' => Usable /\ conn'.activeTx = conn.activeTx
    BY <1>4 DEF GoesOnEarly, KeepsConn, Usable
  <2>3. committed' = committed /\ srv'.up = srv.up /\ srv'.pend = srv.pend
        /\ conn'.autoTx = conn.autoTx /\ call'.tx = call.tx /\ call.stage \in Early
    BY <1>4 DEF GoesOnEarly, KeepsDb, KeepsConn
  <2> QED BY <1>1, <1>2, <2>1, <2>2, <2>3, EarlyDur
<1>5. CASE FailsEarly
  <2>1. call.stage # "commitRetaining"
    BY <1>2, <1>5 DEF FailsEarly
  <2> QED BY <1>1, <1>2, <1>5, <2>1, ReturnsDur DEF FailsEarly, Fails
<1>6. CASE Prepares
  <2>1. call.chg = None
    BY <1>6 DEF Prepares, DurInv, TxInv, CallInv
  <2> QED BY <1>1, <1>2, <1>6, <2>1, ReturnsDur DEF Prepares
<1>7. CASE RunsAndCommits
  <2>1. call.fn \in StatementFn /\ call.auto /\ srv.up /\ call.stage = "execute"
    BY <1>7 DEF RunsAndCommits, StatementFn
  <2>2. CASE /\ Holds(call.tx, {}) /\ KeepsConn
             /\ committed' = committed \cup srv.pend[call.tx] \cup Changes(call.chg)
             /\ call'.tx = call.tx /\ GoesOn("info")
    BY <2>1, <2>2, GoesOnDur
  <2>3. CASE (Runs \/ Commits(call.tx) \/ KeepsDb) /\ DropsAuto /\ Fails
    BY <2>1, <2>3, ReturnsDur DEF Fails
  <2> QED BY <1>7, <2>2, <2>3 DEF RunsAndCommits
<1>8. CASE RunsExec
  BY <1>1, <1>2, <1>8, GoesOnDur DEF RunsExec
<1>9. CASE RunsQuery
  <2>1. call.fn \in StatementFn /\ srv.up /\ call.stage = "execute" /\ call.fn = "query" /\ Runs
    BY <1>9 DEF RunsQuery, StatementFn
  <2>2. CASE (IF call.auto THEN DropsAuto ELSE KeepsConn) /\ Fails
    BY <2>1, <2>2, ReturnsDur DEF Fails
  <2> QED BY <1>9, <2>1, <2>2, QueryDur DEF RunsQuery
<1>10. CASE CommitsProc
  <2>1. call.fn \in StatementFn /\ srv.up /\ call.stage = "commitRetaining"
    BY <1>1, <1>2, <1>10 DEF CommitsProc
  <2>2. CASE KeepsConn /\ Commits(call.tx) /\ call'.tx = call.tx /\ GoesOn("info")
    BY <2>1, <2>2, GoesOnDur
  <2>3. CASE DropsAuto /\ KeepsDb /\ Fails
    BY <2>1, <2>3, ReturnsDur DEF Fails
  <2> QED BY <1>10, <2>2, <2>3 DEF CommitsProc
<1>11. CASE Succeeds
  <2>1. ExecAck \in {"open", "ok"} /\ call.stage = "info"
    BY <1>11 DEF ExecAck, Succeeds
  <2> QED BY <1>1, <1>2, <1>11, <2>1, ReturnsDur DEF Succeeds
<1> QED BY <1>3, <1>4, <1>5, <1>6, <1>7, <1>8, <1>9, <1>10, <1>11, StatementOutcomes
        DEF DurInv, TxInv

\* The transactions of the server hold what they held.
LEMMA SamePend ==
  ASSUME PendInv, srv'.up => srv.up /\ srv'.pend = srv.pend, UNCHANGED txs,
         conn'.autoTx = conn.autoTx,
         \A h \in TxHandle : \A c \in srv.pend[h] : ledger'[c] = ledger[c],
         \A c : InCharge(c) => InCharge(c)'
  PROVE  PendInv'
<1> SUFFICES ASSUME srv'.up, NEW h \in TxHandle, NEW c \in srv.pend[h]
             PROVE  /\ ledger[c].by \in TxObj =>
                         /\ txs[ledger[c].by].handle = h /\ h # conn.autoTx
                         /\ \A u \in TxObj : LiveTx(u)' /\ txs[u].handle = h => u = ledger[c].by
                    /\ ledger[c].by = "auto" =>
                         /\ \A u \in TxObj : LiveTx(u)' => txs[u].handle # h
                         /\ h = conn.autoTx => ledger[c].ack = "open" /\ InCharge(c)'
  <2>1. \A h \in TxHandle : \A c \in srv.pend[h] : ledger'[c] = ledger[c]
    OBVIOUS
  <2> QED BY <2>1 DEF PendInv
<1>1. \A u \in TxObj : LiveTx(u)' <=> LiveTx(u)
  BY DEF LiveTx
<1>2. InCharge(c) => InCharge(c)'
  OBVIOUS
<1>3. /\ ledger[c].by \in TxObj =>
           /\ txs[ledger[c].by].handle = h /\ h # conn.autoTx
           /\ \A u \in TxObj : LiveTx(u) /\ txs[u].handle = h => u = ledger[c].by
      /\ ledger[c].by = "auto" =>
           /\ \A u \in TxObj : LiveTx(u) => txs[u].handle # h
           /\ h = conn.autoTx => ledger[c].ack = "open" /\ InCharge(c)
  BY DEF PendInv
<1> QED BY <1>1, <1>2, <1>3

\* A statement starts: one user of the pool asks for it.
LEMMA StartsForDur ==
  ASSUME DurInv, ~Raw, ~SelectMayWrite, NEW u \in Users, NEW chg \in Change \cup {None},
         NEW typ, StartsFor(u, chg, typ)
  PROVE  ChangeInv'
<1>1. /\ MayCall(u) /\ Usable /\ call = NoCall
      /\ UNCHANGED <<conn, stmts, rows, txs, srv, committed>>
      /\ call'.fn \in StatementFn /\ call'.stage \in Early /\ call'.chg = chg /\ call'.typ = typ
      /\ (call'.auto <=> conn.activeTx = None) /\ call'.tx = currentTx
  BY DEF StartsFor, MayCall
<1>2. /\ ledger \in [Change -> Entry] /\ committed \subseteq Change
      /\ srv.pend \in [TxHandle -> SUBSET Change]
      /\ \A r \in RowsObj : rows[r].chg \in Change \cup {None}
  BY TxTypes DEF DurInv, TxInv, RowsRec
<1>3. /\ call.stage = "none" /\ call.chg = None /\ call.fn = "none"
  BY <1>1, NoCallFields
<1>4. call'.stage \notin {"commitAuto", "start", "end", "free", "commitOnClose", "info",
                          "commitRetaining"}
      /\ call'.fn \notin {"commit", "rollback", "next", "close rows"}
  BY <1>1 DEF Early, StatementFn
<1>5. \/ chg = None /\ ledger' = ledger /\ (call'.fn = "prepare" \/ typ = "select")
      \/ /\ chg \in Change /\ ledger[chg].by = "none" /\ typ # "select"
         /\ ledger' = [ledger EXCEPT ![chg] = [by |-> u, ack |-> "open"]]
  BY DEF StartsFor
<1>6. \A c \in Change : c # chg => ledger'[c] = ledger[c]
  BY <1>2, <1>5
<1>7. chg # None => /\ chg \in Change /\ ledger[chg].by = "none" /\ typ # "select"
                    /\ ledger'[chg].by = u /\ ledger'[chg].ack = "open"
  BY <1>2, <1>5
<1>8. chg # None => chg \notin committed /\ (\A h \in TxHandle : chg \notin srv.pend[h])
                    /\ \A r \in RowsObj : rows[r].chg # chg
  BY <1>7 DEF DurInv, TxInv, RetryInv, Nowhere
<1>9. CASE u \in TxObj
  <2>1. txs[u].st = "open" /\ conn.activeTx = txs[u].handle /\ conn.activeTx # None
    BY <1>1, <1>9 DEF MayCall, DurInv, ChangeInv, UsersInv
  <2>2. ~call'.auto /\ call'.tx = txs[u].handle
    BY <1>1, <2>1 DEF currentTx
  <2>3. \A r \in RowsObj : Held(r) => ~rows[r].commitOnClose
    BY <1>9, <2>1 DEF DurInv, ChangeInv, RowsInv, TxClosed
  <2> HIDE <1>5
  <2>4. UsersInv'
    <3>1. \A c \in Change : ledger'[c].by \in TxObj => txs'[ledger'[c].by].st # "none"
      <4>1. ASSUME NEW c \in Change, ledger'[c].by \in TxObj, c # chg
            PROVE  txs'[ledger'[c].by].st # "none"
        BY <1>1, <1>6, <4>1 DEF DurInv, ChangeInv, UsersInv
      <4>2. chg # None /\ ledger'[chg].by \in TxObj => txs'[ledger'[chg].by].st # "none"
        BY <1>1, <1>7, <2>1
      <4> QED BY <4>1, <4>2
    <3>2. \A t \in TxObj : txs[t].st \notin {"committing", "rolling back"}
      BY <1>3 DEF DurInv, ChangeInv, UsersInv
    <3> QED BY <1>1, <1>4, <2>2, <3>1, <3>2 DEF DurInv, ChangeInv, UsersInv, LiveTx, Usable
  <2>5. StatementInv'
    <3>1. call'.fn \in {"exec", "query"} /\ chg = None => typ = "select"
      BY <1>5
    <3> QED BY <1>1, <1>4, <1>7, <1>9, <2>1, <2>2, <3>1 DEF StatementInv
  <2>6. MethodInv'
    BY <1>4 DEF MethodInv
  <2>7. RowsInv'
    <3>1. \A r \in RowsObj : Held(r)' => Held(r) /\ rows'[r] = rows[r]
      BY <1>1, <1>4 DEF Held
    <3>2. \A r \in RowsObj : Held(r) /\ rows[r].chg # None => ledger[rows[r].chg].by \in TxObj
      BY <2>3 DEF DurInv, ChangeInv, RowsInv
    <3>3. \A r \in RowsObj : rows[r].chg # None => ledger'[rows[r].chg] = ledger[rows[r].chg]
      BY <1>2, <1>6, <1>8
    <3> QED BY <2>3, <3>1, <3>2, <3>3 DEF RowsInv
  <2>8. PendInv'
    <3>1. \A h \in TxHandle : \A c \in srv.pend[h] : ledger'[c] = ledger[c]
      BY <1>2, <1>6, <1>8
    <3>2. \A c : InCharge(c) => InCharge(c)'
      BY <1>1, <1>3 DEF InCharge, Held
    <3> QED BY <1>1, <3>1, <3>2, SamePend DEF DurInv, ChangeInv
  <2>9. OpenInv'
    <3> SUFFICES ASSUME srv'.up, NEW c \in Change, NEW t \in TxObj,
                        txs'[t].st \in {"open", "committing"},
                        ledger'[c].by = t, ledger'[c].ack = "open"
                 PROVE  c \in srv'.pend[txs'[t].handle] \/ (call'.chg = c /\ call'.stage \in Early)
      BY DEF OpenInv
    <3>1. CASE c # chg
      <4>1. "none" \notin Early
        BY DEF Early
      <4>2. ledger[c].by = t /\ ledger[c].ack = "open" /\ txs[t].st \in {"open", "committing"}
        BY <1>1, <1>6, <3>1
      <4>3. c \in srv.pend[txs[t].handle]
        BY <1>1, <1>3, <4>1, <4>2 DEF DurInv, ChangeInv, OpenInv
      <4> QED BY <1>1, <4>3
    <3> QED BY <1>1, <3>1
  <2>10. AckedIsDurable' /\ OnlyCommitCommits'
    <3>1. \A c \in committed : ledger'[c] = ledger[c]
      BY <1>2, <1>6, <1>8
    <3> QED BY <1>1, <1>2, <1>6, <1>7, <3>1 DEF DurInv, ChangeInv, AckedIsDurable, OnlyCommitCommits
  <2> QED BY <2>4, <2>5, <2>6, <2>7, <2>8, <2>9, <2>10 DEF ChangeInv
<1>10. CASE u = "auto"
  <2>1. TxClosed /\ RowsClosed
    BY <1>1, <1>10 DEF MayCall
  <2>2. conn.activeTx = None
    BY <2>1 DEF TxClosed, DurInv, TxInv, DriverInv
  <2>3. call'.auto
    BY <1>1, <2>2
  <2>4. \A r \in RowsObj : ~Held(r) /\ ~Held(r)'
    BY <1>1, <1>3, <1>4, <2>1 DEF Held, RowsClosed
  <2> HIDE <1>5
  <2>5. UsersInv'
    <3>1. \A c \in Change : ledger'[c].by \in TxObj => txs'[ledger'[c].by].st # "none"
      <4>1. ASSUME NEW c \in Change, ledger'[c].by \in TxObj, c # chg
            PROVE  txs'[ledger'[c].by].st # "none"
        BY <1>1, <1>6, <4>1 DEF DurInv, ChangeInv, UsersInv
      <4>2. chg # None /\ ledger'[chg].by \in TxObj => txs'[ledger'[chg].by].st # "none"
        BY <1>1, <1>7, <1>10
      <4> QED BY <4>1, <4>2
    <3>2. \A t \in TxObj : ~LiveTx(t)
      BY <1>3, <2>1 DEF DurInv, ChangeInv, UsersInv, LiveTx, TxClosed
    <3>3. RowsClosed' /\ TxClosed' /\ \A t \in TxObj : ~LiveTx(t)'
      BY <1>1, <2>1, <3>2 DEF RowsClosed, TxClosed, LiveTx
    <3> QED BY <1>4, <3>1, <3>3 DEF UsersInv, LiveTx
  <2>6. StatementInv'
    <3>1. call'.fn \in {"exec", "query"} /\ chg = None => typ = "select"
      BY <1>5
    <3> QED BY <1>1, <1>4, <1>7, <1>10, <2>3, <3>1 DEF StatementInv
  <2>7. MethodInv' /\ RowsInv'
    BY <1>4, <2>4 DEF MethodInv, RowsInv
  <2>8. PendInv'
    <3>1. \A h \in TxHandle : \A c \in srv.pend[h] : ledger'[c] = ledger[c]
      BY <1>2, <1>6, <1>8
    <3>2. \A c : InCharge(c) => InCharge(c)'
      BY <1>1, <1>3 DEF InCharge, Held
    <3> QED BY <1>1, <3>1, <3>2, SamePend DEF DurInv, ChangeInv
  <2>9. OpenInv'
    <3>1. \A t \in TxObj : txs'[t].st \notin {"open", "committing"}
      BY <1>1, <1>3, <2>1 DEF DurInv, ChangeInv, UsersInv, TxClosed
    <3> QED BY <3>1 DEF OpenInv
  <2>10. AckedIsDurable' /\ OnlyCommitCommits'
    <3>1. \A c \in committed : ledger'[c] = ledger[c]
      BY <1>2, <1>6, <1>8
    <3> QED BY <1>1, <1>2, <1>6, <1>7, <3>1 DEF DurInv, ChangeInv, AckedIsDurable, OnlyCommitCommits
  <2> QED BY <2>5, <2>6, <2>7, <2>8, <2>9, <2>10 DEF ChangeInv
<1> QED BY <1>9, <1>10 DEF Users

----------------------------------------------------------------------------
(* Steps that leave changes and transactions alone *)

\* A method starts, goes on or returns without touching a transaction; rows
\* may go if they have nothing to commit.
LEMMA QuietDur ==
  ASSUME DurInv, KeepsConn, UNCHANGED <<txs, committed, ledger>>,
         srv'.up => srv.up /\ srv'.pend = srv.pend,
         UsersInv', StatementInv', MethodInv',
         \A r \in RowsObj : Held(r)' =>
           /\ Held(r) /\ rows'[r].chg = rows[r].chg /\ rows'[r].tx = rows[r].tx
           /\ rows'[r].commitOnClose <=> rows[r].commitOnClose,
         srv'.up => \A r \in RowsObj : Held(r) /\ rows[r].commitOnClose => Held(r)',
         \A r \in RowsObj : Held(r) /\ rows[r].commitOnClose /\ call' # NoCall =>
           call'.fn \in {"next", "close rows"} /\ call'.rows = r,
         call' = call \/ (call.stage # "commitRetaining" /\ (call.chg = None \/ call.stage \notin Early))
  PROVE  ChangeInv'
<1>1. conn'.autoTx = conn.autoTx /\ (Usable' <=> Usable)
  BY DEF KeepsConn, Usable
<1>2. RowsInv'
  <2> SUFFICES ASSUME NEW r \in RowsObj, Held(r)'
               PROVE  /\ rows'[r].commitOnClose =>
                           /\ rows'[r].chg # None /\ ledger'[rows'[r].chg].by = "auto"
                           /\ TxClosed'
                           /\ \A p \in RowsObj : Held(p)' => p = r
                           /\ srv'.up => /\ rows'[r].chg \in srv'.pend[rows'[r].tx]
                                         /\ rows'[r].tx = conn'.autoTx /\ conn'.autoTx # None
                           /\ Usable' <=> ledger'[rows'[r].chg].ack = "open"
                           /\ call' # NoCall => call'.fn \in {"next", "close rows"} /\ call'.rows = r
                      /\ ~rows'[r].commitOnClose /\ rows'[r].chg # None =>
                           ledger'[rows'[r].chg].by \in TxObj
    BY DEF RowsInv
  <2>1. /\ Held(r) /\ rows'[r].chg = rows[r].chg /\ rows'[r].tx = rows[r].tx
        /\ rows'[r].commitOnClose <=> rows[r].commitOnClose
    OBVIOUS
  <2>2. CASE ~rows[r].commitOnClose
    BY <2>1, <2>2 DEF DurInv, ChangeInv, RowsInv
  <2>3. CASE rows[r].commitOnClose
    <3>1. /\ rows[r].chg # None /\ ledger[rows[r].chg].by = "auto"
          /\ TxClosed
          /\ \A q \in RowsObj : Held(q) => q = r
          /\ srv.up => /\ rows[r].chg \in srv.pend[rows[r].tx]
                       /\ rows[r].tx = conn.autoTx /\ conn.autoTx # None
          /\ Usable <=> ledger[rows[r].chg].ack = "open"
      BY <2>1, <2>3 DEF DurInv, ChangeInv, RowsInv
    <3>2. TxClosed'
      BY <3>1 DEF TxClosed
    <3>3. \A p \in RowsObj : Held(p)' => p = r
      BY <3>1
    <3> QED BY <1>1, <2>1, <2>3, <3>1, <3>2, <3>3
  <2> QED BY <2>2, <2>3
<1>3. PendInv'
  <2> SUFFICES ASSUME srv'.up PROVE PendInv'
    BY DEF PendInv
  <2>1. ASSUME NEW c, InCharge(c) PROVE InCharge(c)'
    <3>1. CASE call.chg = c /\ call.stage = "commitRetaining"
      BY <3>1 DEF InCharge
    <3>2. CASE \E r \in RowsObj : Held(r) /\ rows[r].commitOnClose /\ rows[r].chg = c
      <4>1. PICK r \in RowsObj : Held(r) /\ rows[r].commitOnClose /\ rows[r].chg = c
        BY <3>2
      <4>2. Held(r)'
        BY <4>1
      <4>3. rows'[r].commitOnClose /\ rows'[r].chg = c
        BY <4>1, <4>2
      <4> QED BY <4>2, <4>3 DEF InCharge
    <3> QED BY <2>1, <3>1, <3>2 DEF InCharge
  <2>2. srv.up /\ srv'.pend = srv.pend /\ txs' = txs /\ ledger' = ledger
    OBVIOUS
  <2> QED BY <1>1, <2>1, <2>2, SamePend DEF DurInv, ChangeInv
<1>4. OpenInv'
  <2> SUFFICES ASSUME srv'.up, NEW c \in Change, NEW t \in TxObj,
                      txs[t].st \in {"open", "committing"},
                      ledger[c].by = t, ledger[c].ack = "open"
               PROVE  c \in srv.pend[txs[t].handle] \/ (call'.chg = c /\ call'.stage \in Early)
    BY DEF OpenInv
  <2>1. c \in srv.pend[txs[t].handle] \/ (call.chg = c /\ call.stage \in Early)
    BY DEF DurInv, ChangeInv, OpenInv
  <2> QED BY <2>1
<1>5. AckedIsDurable' /\ OnlyCommitCommits'
  BY DEF DurInv, ChangeInv, AckedIsDurable, OnlyCommitCommits
<1> QED BY <1>2, <1>3, <1>4, <1>5 DEF ChangeInv

\* Methods without a statement, outside of BeginTx, Commit and Rollback.
LEMMA OtherUsers ==
  ASSUME DurInv, KeepsConn, UNCHANGED <<txs, ledger>>, call'.auto = FALSE,
         call'.fn \notin {"exec", "query"}, call'.stage \notin {"commitAuto", "start", "end"},
         call.stage # "end"
  PROVE  UsersInv' /\ StatementInv'
<1>1. (Usable' <=> Usable) /\ conn'.activeTx = conn.activeTx
  BY DEF KeepsConn, Usable
<1>2. UsersInv
  BY DEF DurInv, ChangeInv
<1>3. UsersInv'
  BY <1>1, <1>2 DEF UsersInv, LiveTx
<1>4. StatementInv'
  BY DEF StatementInv
<1> QED BY <1>3, <1>4

\* Rows that close without a commit tell nobody that his change is durable.
LEMMA NoCloseAck ==
  ASSUME DurInv, NEW r \in RowsObj, Held(r), ~Usable \/ ~rows[r].commitOnClose
  PROVE  CloseAck(r) = ledger
<1>1. CASE rows[r].commitOnClose
  BY <1>1 DEF DurInv, ChangeInv, RowsInv, CloseAck
<1>2. CASE ~rows[r].commitOnClose
  BY <1>2 DEF DurInv, ChangeInv, RowsInv, CloseAck
<1> QED BY <1>1, <1>2

\* No rows are held outside of a call if all are closed.
LEMMA NoneHeld ==
  ASSUME call = NoCall, RowsClosed
  PROVE  /\ \A r \in RowsObj : ~Held(r)
         /\ \A c : ~InCharge(c)
BY NoCallFields DEF Held, RowsClosed, InCharge

\* The steps of rows and statement objects that commit nothing.
LEMMA QuietObjectsDur ==
  ASSUME DurInv, ~Raw,
         \/ \E r \in RowsObj : Fetches(r) \/ ClosesRows(r) \/ ForgetsRows(r)
         \/ FreesRows \/ StartsOther \/ Answered
  PROVE  ChangeInv'
<1>1. rows \in [RowsObj -> RowsRec] /\ call.auto \in BOOLEAN
  BY TxTypes DEF DurInv, TxInv
<1>2. call = NoCall => call.fn = "none" /\ call.stage = "none" /\ call.chg = None
  BY NoCallFields
<1>3. "none" \notin Early /\ "free" \notin Early /\ "fetch" \notin Early
      /\ "recycle" \notin Early /\ "info database" \notin Early
  BY DEF Early
<1>4. ASSUME NEW r \in RowsObj, Fetches(r) PROVE ChangeInv'
  <2>1. /\ rows[r].open /\ call = NoCall /\ call'.fn = "next" /\ call'.stage = "fetch"
        /\ call'.auto = FALSE /\ call'.rows = r /\ call'.chg = rows[r].chg
        /\ UNCHANGED <<conn, rows, txs, ledger, srv, committed>>
    BY <1>4 DEF Fetches, Starts
  <2>2. KeepsConn
    BY <2>1 DEF KeepsConn
  <2>3. UsersInv' /\ StatementInv'
    BY <1>2, <2>1, <2>2, OtherUsers
  <2>4. MethodInv'
    BY <2>1 DEF MethodInv
  <2>5. \A q \in RowsObj : Held(q)' <=> Held(q)
    BY <1>2, <2>1 DEF Held
  <2>6. \A q \in RowsObj : Held(q) /\ rows[q].commitOnClose => q = r
    <3>1. Held(r)
      BY <2>1 DEF Held
    <3> QED BY <3>1 DEF DurInv, ChangeInv, RowsInv
  <2> QED BY <1>2, <2>1, <2>2, <2>3, <2>4, <2>5, <2>6, QuietDur
<1>5. ASSUME NEW r \in RowsObj, ClosesRows(r) PROVE ChangeInv'
  <2>1. /\ rows[r].open /\ call = NoCall /\ call'.fn = "close rows" /\ call'.stage = "free"
        /\ call'.auto = FALSE /\ call'.rows = r /\ call'.chg = rows[r].chg
        /\ call'.tx = rows[r].tx
        /\ rows' = [rows EXCEPT ![r].open = FALSE]
        /\ UNCHANGED <<conn, txs, ledger, srv, committed>>
    BY <1>5 DEF ClosesRows, Starts
  <2>2. /\ \A q \in RowsObj : q # r => rows'[q] = rows[q]
        /\ rows'[r].open = FALSE /\ rows'[r].chg = rows[r].chg /\ rows'[r].tx = rows[r].tx
        /\ rows'[r].commitOnClose = rows[r].commitOnClose
    BY <1>1, <2>1 DEF RowsRec
  <2>3. KeepsConn
    BY <2>1 DEF KeepsConn
  <2>4. UsersInv' /\ StatementInv'
    BY <1>2, <2>1, <2>3, OtherUsers
  <2>5. MethodInv'
    BY <2>1, <2>2 DEF MethodInv
  <2>6. \A q \in RowsObj : Held(q)' <=> Held(q)
    BY <1>2, <2>1, <2>2 DEF Held
  <2>7. \A q \in RowsObj : Held(q) /\ rows[q].commitOnClose => q = r
    <3>1. Held(r)
      BY <2>1 DEF Held
    <3> QED BY <3>1 DEF DurInv, ChangeInv, RowsInv
  <2> QED BY <1>2, <2>1, <2>2, <2>3, <2>4, <2>5, <2>6, <2>7, QuietDur
<1>6. ASSUME NEW r \in RowsObj, call.stage \in {"none", "free"}, Held(r), KeepsConn,
             UNCHANGED <<txs, committed>>, srv'.up => srv.up /\ srv'.pend = srv.pend,
             call' = NoCall, ledger' = CloseAck(r), rows' = [rows EXCEPT ![r] = NoRows],
             ~Usable \/ ~rows[r].commitOnClose, srv'.up => ~rows[r].commitOnClose,
             \A q \in RowsObj : Held(q) => q = r \/ rows[q].open
      PROVE  ChangeInv'
  <2>1. ledger' = ledger
    BY <1>6, NoCloseAck
  <2>2. UsersInv' /\ StatementInv' /\ MethodInv'
    <3>1. Usable' => Usable /\ conn'.activeTx = conn.activeTx
      BY <1>6 DEF KeepsConn, Usable
    <3> QED BY <1>6, <2>1, <3>1, IdleUsers
  <2>3. (\A q \in RowsObj : q # r => rows'[q] = rows[q]) /\ ~rows'[r].open
    BY <1>1, <1>6 DEF NoRows
  <2>4. \A q \in RowsObj : Held(q)' <=> q # r /\ rows[q].open
    BY <1>6, <2>3, NoCallFields DEF Held
  <2>5. \A q \in RowsObj : Held(q)' => Held(q)
    BY <2>4 DEF Held
  <2>6. call.stage # "commitRetaining" /\ call.stage \notin Early
    BY <1>3, <1>6
  <2>7. srv'.up => \A q \in RowsObj : Held(q) /\ rows[q].commitOnClose => Held(q)'
    BY <1>6, <2>4
  <2> QED BY <1>6, <2>1, <2>2, <2>3, <2>4, <2>5, <2>6, <2>7, QuietDur
<1>7. ASSUME NEW r \in RowsObj, ForgetsRows(r) PROVE ChangeInv'
  <2>1. ~Usable /\ ~srv.up /\ Held(r) /\ KeepsConn
    BY <1>7 DEF ForgetsRows, DurInv, TxInv, SessionInv, CallsAreConsistent, Held, KeepsConn
  <2>2. \A q \in RowsObj : Held(q) => q = r \/ rows[q].open
    BY <1>2, <1>7 DEF ForgetsRows, Held
  <2> QED BY <1>2, <1>6, <1>7, <2>1, <2>2 DEF ForgetsRows
<1>8. CASE FreesRows
  <2>1. /\ call.stage = "free" /\ KeepsConn /\ KeepsDb /\ UNCHANGED txs
        /\ call.fn = "close rows" /\ call.rows \in RowsObj
        /\ call.chg = rows[call.rows].chg /\ call.tx = rows[call.rows].tx
    BY <1>8 DEF FreesRows, DurInv, ChangeInv, MethodInv
  <2>2. Held(call.rows)
    BY <2>1 DEF Held
  <2>3. CASE /\ ~rows[call.rows].commitOnClose
             /\ call' = NoCall /\ ledger' = CloseAck(call.rows)
             /\ rows' = [rows EXCEPT ![call.rows] = NoRows]
    <3>1. \A q \in RowsObj : Held(q) => q = call.rows \/ rows[q].open
      BY DEF Held
    <3> QED BY <1>6, <2>1, <2>2, <2>3, <3>1 DEF KeepsDb
  <2>4. CASE /\ rows[call.rows].commitOnClose
             /\ GoesOn("commitOnClose") /\ call'.tx = call.tx
    <3>1. /\ call'.fn = "close rows" /\ call'.stage = "commitOnClose" /\ call'.auto = call.auto
          /\ call'.rows = call.rows /\ call'.chg = call.chg /\ call'.tx = call.tx
          /\ UNCHANGED <<rows, txs, ledger>>
      BY <2>1, <2>4 DEF GoesOn
    <3>2. call.auto = FALSE
      BY <1>1, <2>1 DEF DurInv, TxInv, CallInv, StatementFn
    <3>3. UsersInv' /\ StatementInv'
      BY <2>1, <3>1, <3>2, OtherUsers
    <3>4. MethodInv'
      BY <2>1, <2>4, <3>1 DEF MethodInv
    <3>5. \A q \in RowsObj : Held(q)' <=> Held(q)
      BY <2>1, <3>1 DEF Held
    <3>6. \A q \in RowsObj : Held(q) /\ rows[q].commitOnClose => q = call.rows
      BY <2>1, <2>2 DEF DurInv, ChangeInv, RowsInv
    <3> QED BY <1>3, <2>1, <3>1, <3>3, <3>4, <3>5, <3>6, QuietDur DEF KeepsDb
  <2> QED BY <1>8, <2>3, <2>4 DEF FreesRows
<1>9. CASE StartsOther
  <2>1. /\ call = NoCall /\ call'.fn \in {"close stmt", "ping"} /\ call'.auto = FALSE
        /\ call'.stage \in {"recycle", "info database"}
        /\ RowsClosed \/ ~TxClosed
        /\ UNCHANGED <<conn, rows, txs, ledger, srv, committed>>
    BY <1>9 DEF StartsOther, Starts
  <2>2. KeepsConn
    BY <2>1 DEF KeepsConn
  <2>3. UsersInv' /\ StatementInv'
    BY <1>2, <2>1, <2>2, OtherUsers
  <2>4. MethodInv'
    BY <2>1 DEF MethodInv
  <2>5. \A q \in RowsObj : Held(q)' <=> Held(q)
    BY <1>2, <2>1 DEF Held
  <2>6. \A q \in RowsObj : Held(q) => ~rows[q].commitOnClose
    <3>1. CASE RowsClosed
      BY <2>1, <3>1, NoneHeld
    <3>2. CASE ~TxClosed
      BY <3>2 DEF DurInv, ChangeInv, RowsInv
    <3> QED BY <2>1, <3>1, <3>2
  <2> QED BY <1>2, <2>1, <2>2, <2>3, <2>4, <2>5, <2>6, QuietDur
<1>10. CASE Answered
  <2>1. /\ call' = NoCall /\ call.stage \in {"none", "fetch", "recycle", "info database"}
        /\ KeepsConn /\ KeepsDb /\ UNCHANGED <<rows, txs, ledger>>
    BY <1>10 DEF Answered
  <2>2. UsersInv' /\ StatementInv' /\ MethodInv'
    <3>1. Usable' => Usable /\ conn'.activeTx = conn.activeTx
      BY <2>1 DEF KeepsConn, Usable
    <3> QED BY <2>1, <3>1, IdleUsers
  <2>3. call.fn # "close rows"
    BY <2>1 DEF DurInv, ChangeInv, MethodInv
  <2>4. \A q \in RowsObj : Held(q)' <=> Held(q)
    BY <2>1, <2>3, NoCallFields DEF Held
  <2> QED BY <1>3, <2>1, <2>2, <2>4, QuietDur DEF KeepsDb
<1> QED BY <1>4, <1>5, <1>7, <1>8, <1>9, <1>10

\* Rows that commit when they are closed.
LEMMA CommitsRowsDur ==
  ASSUME DurInv, CommitsRows
  PROVE  ChangeInv'
<1>1. /\ call.stage = "commitOnClose" /\ srv.up /\ UNCHANGED txs /\ call' = NoCall
      /\ rows' = [rows EXCEPT ![call.rows] = NoRows]
      /\ \/ Commits(call.tx) /\ KeepsConn /\ ledger' = CloseAck(call.rows)
         \/ KeepsDb /\ DropsAuto /\ Return("error")
  BY DEF CommitsRows
<1>2. /\ call.fn = "close rows" /\ call.rows \in RowsObj /\ call.chg = rows[call.rows].chg
      /\ call.tx = rows[call.rows].tx /\ rows[call.rows].commitOnClose
  BY <1>1 DEF DurInv, ChangeInv, MethodInv
<1>3. Held(call.rows) /\ Usable
  BY <1>1, <1>2 DEF Held, DurInv, TxInv, SessionInv, CallsAreConsistent
<1>4. /\ call.chg # None /\ ledger[call.chg].by = "auto" /\ ledger[call.chg].ack = "open"
      /\ TxClosed
      /\ \A q \in RowsObj : Held(q) => q = call.rows
      /\ call.chg \in srv.pend[call.tx] /\ call.tx = conn.autoTx /\ conn.autoTx # None
  BY <1>1, <1>2, <1>3 DEF DurInv, ChangeInv, RowsInv
<1>5. /\ srv.pend \in [TxHandle -> SUBSET Change] /\ committed \subseteq Change
      /\ call.chg \in Change \cup {None} /\ conn.autoTx \in OptTx
      /\ ledger \in [Change -> Entry] /\ rows \in [RowsObj -> RowsRec]
  BY TxTypes DEF DurInv, TxInv
<1>6. call.tx \in TxHandle /\ call.chg \in Change
  BY <1>4, <1>5 DEF OptTx
<1>7. PICK ack \in {"ok", "error"} :
        /\ \A c \in Change : ledger'[c].by = ledger[c].by
        /\ \A c \in Change : c # call.chg => ledger'[c].ack = ledger[c].ack
        /\ ledger'[call.chg].ack = ack
        /\ ack = "ok" => Commits(call.tx)
  <2>1. CASE Commits(call.tx) /\ ledger' = CloseAck(call.rows)
    <3>1. ledger' = [ledger EXCEPT ![call.chg].ack = "ok"]
      BY <1>2, <1>4, <2>1 DEF CloseAck, Settle
    <3> QED BY <1>5, <1>6, <2>1, <3>1 DEF Entry
  <2>2. CASE Return("error")
    BY <1>6, <2>2, ReturnEffect DEF DurInv, TxInv
  <2> QED BY <1>1, <2>1, <2>2
<1>8. UsersInv' /\ StatementInv' /\ MethodInv'
  <2>1. Usable' => Usable /\ conn'.activeTx = conn.activeTx
    BY <1>1 DEF KeepsConn, DropsAuto, Usable
  <2> QED BY <1>1, <1>7, <2>1, IdleUsers
<1>9. RowsInv'
  <2>1. \A q \in RowsObj : Held(q)' => rows[q].open /\ q # call.rows
    BY <1>1, <1>5, NoCallFields DEF Held, NoRows
  <2> QED BY <1>4, <2>1 DEF Held, RowsInv
<1>10. \A t \in TxObj : ~LiveTx(t) /\ ~LiveTx(t)'
  BY <1>1, <1>4 DEF LiveTx, TxClosed, DurInv, ChangeInv, UsersInv
<1>11. /\ srv'.up = srv.up /\ \A h \in TxHandle : srv'.pend[h] \subseteq srv.pend[h]
       /\ conn'.autoTx \in TxHandle => srv'.pend[conn'.autoTx] = {}
  <2>1. CASE Commits(call.tx) /\ KeepsConn
    BY <1>4, <1>5, <2>1 DEF Commits, Holds, KeepsConn
  <2>2. CASE KeepsDb /\ DropsAuto
    BY <2>2 DEF KeepsDb, DropsAuto
  <2> QED BY <1>1, <2>1, <2>2
<1>12. PendInv'
  BY <1>1, <1>7, <1>10, <1>11, KeptPend
<1>13. OpenInv'
  <2>1. \A t \in TxObj : txs'[t].st \notin {"open", "committing"}
    BY <1>10 DEF LiveTx
  <2> QED BY <2>1 DEF OpenInv
<1>14. /\ committed \subseteq committed' /\ committed' \subseteq committed \cup srv.pend[call.tx]
       /\ ledger'[call.chg].ack = "ok" => call.chg \in committed'
  BY <1>1, <1>4, <1>7 DEF Commits, KeepsDb
<1>15. AckedIsDurable'
  BY <1>7, <1>14 DEF DurInv, ChangeInv, AckedIsDurable
<1>16. OnlyCommitCommits'
  <2>1. \A c \in committed' : c \in committed \/ ledger[c].by = "auto"
    BY <1>1, <1>4, <1>6, <1>14, AutoPend
  <2>2. committed' \subseteq Change
    BY <1>5, <1>6, <1>14
  <2> QED BY <1>1, <1>7, <2>1, <2>2, KeptOnly
<1> QED BY <1>8, <1>9, <1>12, <1>13, <1>15, <1>16 DEF ChangeInv

\* The objects' steps, together.
LEMMA ObjectStepsDur ==
  ASSUME DurInv, ~Raw, ObjectSteps \/ Ping \/ pinged
  PROVE  ChangeInv'
BY QuietObjectsDur, CommitsRowsDur, ObjectOutcomes, PingOutcomes DEF DurInv, TxInv

----------------------------------------------------------------------------
(* Explicit transactions *)

\* BeginTx starts.
LEMMA BeginsDur ==
  ASSUME DurInv, ~Raw, NEW t \in TxObj, BeginsTx(t)
  PROVE  ChangeInv'
<1>1. /\ call = NoCall /\ TxClosed /\ RowsClosed
      /\ call'.fn = "begin" /\ call'.stage \in {"commitAuto", "start"} /\ call'.auto = FALSE
      /\ UNCHANGED <<conn, rows, txs, ledger, srv, committed>>
  BY DEF BeginsTx, Starts
<1>2. call.stage = "none" /\ call.chg = None /\ call.fn = "none"
  BY <1>1, NoCallFields
<1>3. KeepsConn
  BY <1>1 DEF KeepsConn
<1>4. UsersInv'
  <2>1. TxClosed' /\ (Usable' <=> Usable)
    BY <1>1 DEF TxClosed, Usable
  <2>2. \A u \in TxObj : ~LiveTx(u) /\ ~LiveTx(u)'
    BY <1>1, <1>2 DEF LiveTx, TxClosed, DurInv, ChangeInv, UsersInv
  <2>3. \A c \in Change : ledger'[c].by \in TxObj => txs'[ledger'[c].by].st # "none"
    BY <1>1 DEF DurInv, ChangeInv, UsersInv
  <2> QED BY <1>1, <2>1, <2>2, <2>3 DEF UsersInv, LiveTx
<1>5. StatementInv' /\ MethodInv'
  BY <1>1 DEF StatementInv, MethodInv
<1>6. \A r \in RowsObj : ~Held(r) /\ ~Held(r)'
  BY <1>1, NoneHeld DEF Held, RowsClosed
<1> QED BY <1>1, <1>2, <1>3, <1>4, <1>5, <1>6, QuietDur

\* BeginTx is in progress: nobody else has anything to commit.
LEMMA BeginningDur ==
  ASSUME DurInv, call.stage \in {"commitAuto", "start"}
  PROVE  /\ call # NoCall /\ call.fn = "begin" /\ call.chg = None /\ call.obj \in TxObj
         /\ txs[call.obj].st = "none" /\ call.auto = FALSE
         /\ \A t \in TxObj : ~LiveTx(t)
         /\ \A r \in RowsObj : Held(r) => rows[r].open /\ ~rows[r].commitOnClose
         /\ srv.up /\ conn.autoTx \in TxHandle => srv.pend[conn.autoTx] = {}
<1>1. /\ call.fn = "begin" /\ call.chg = None /\ call.obj \in TxObj
      /\ txs[call.obj].st = "none" /\ ~call.auto
  BY DEF DurInv, TxInv, CallInv, StatementFn
<1>2. call # NoCall
  BY NoCallFields
<1>3. call.auto = FALSE
  BY <1>1, TxTypes DEF DurInv, TxInv
<1>4. \A t \in TxObj : ~LiveTx(t)
  BY DEF DurInv, ChangeInv, UsersInv, LiveTx, TxClosed
<1>5. \A r \in RowsObj : Held(r) => rows[r].open /\ ~rows[r].commitOnClose
  BY <1>1, <1>2, NoCommitRows DEF Held
<1>6. srv.up /\ conn.autoTx \in TxHandle => srv.pend[conn.autoTx] = {}
  BY <1>1, <1>2, AutoEmpty
<1> QED BY <1>1, <1>2, <1>3, <1>4, <1>5, <1>6

\* BeginTx commits the auto-commit transaction or fails to: nothing was in it.
LEMMA CommitsAutoDur ==
  ASSUME DurInv, CommitsAuto
  PROVE  ChangeInv'
<1>1. /\ call # NoCall /\ call.fn = "begin" /\ call.chg = None /\ call.obj \in TxObj
      /\ txs[call.obj].st = "none" /\ call.auto = FALSE
      /\ \A t \in TxObj : ~LiveTx(t)
      /\ \A r \in RowsObj : Held(r) => rows[r].open /\ ~rows[r].commitOnClose
      /\ conn.autoTx \in TxHandle => srv.pend[conn.autoTx] = {}
      /\ call.stage = "commitAuto" /\ srv.up /\ DropsAuto
  BY BeginningDur DEF CommitsAuto
<1>2. call.tx = conn.autoTx
  BY <1>1 DEF DurInv, TxInv, CallInv
<1>3. srv.pend \in [TxHandle -> SUBSET Change] /\ srv.tx \subseteq TxHandle
  BY TxTypes DEF DurInv, TxInv
<1>4. UNCHANGED <<rows, txs, ledger, committed>> /\ srv'.up = srv.up
      /\ \A h \in TxHandle : srv'.pend[h] \subseteq srv.pend[h]
  <2>1. CASE /\ Ends(call.tx) /\ committed' = committed \cup srv.pend[call.tx]
             /\ GoesOn("start")
    <3>1. committed' = committed
      BY <1>1, <1>2, <1>3, <2>1 DEF Ends
    <3>2. \A h \in TxHandle : srv'.pend[h] \subseteq srv.pend[h]
      BY <1>3, <2>1 DEF Ends
    <3> QED BY <2>1, <3>1, <3>2 DEF GoesOn, Ends
  <2>2. CASE KeepsDb /\ Fails
    BY <1>1, <2>2 DEF KeepsDb, Fails, Return
  <2> QED BY <2>1, <2>2 DEF CommitsAuto
<1>5. call'.fn \in {"begin", "none"} /\ call'.stage \in {"start", "none"} /\ call'.auto = FALSE
  BY <1>1, NoCallFields DEF CommitsAuto, GoesOn, Fails, Return
<1>6. UsersInv'
  <2>1. \A t \in TxObj : ~LiveTx(t)'
    BY <1>1, <1>4 DEF LiveTx
  <2>2. TxClosed'
    BY <2>1 DEF TxClosed, LiveTx
  <2>3. \A c \in Change : ledger'[c].by \in TxObj => txs'[ledger'[c].by].st # "none"
    BY <1>4 DEF DurInv, ChangeInv, UsersInv
  <2> QED BY <1>5, <2>1, <2>2, <2>3 DEF UsersInv, LiveTx
<1>7. StatementInv' /\ MethodInv'
  BY <1>5 DEF StatementInv, MethodInv
<1>8. RowsInv'
  <2>1. \A r \in RowsObj : Held(r)' => Held(r) /\ rows'[r] = rows[r]
    BY <1>4, <1>5 DEF Held
  <2> QED BY <1>1, <1>4, <2>1, PlainRows
<1>9. PendInv'
  <2>1. \A t \in TxObj : ~LiveTx(t)'
    BY <1>1, <1>4 DEF LiveTx
  <2>2. conn'.autoTx \notin TxHandle
    BY <1>1 DEF DropsAuto
  <2> QED BY <1>4, <2>1, <2>2, KeptPend
<1>10. OpenInv'
  <2>1. \A t \in TxObj : txs'[t].st \notin {"open", "committing"}
    BY <1>1, <1>4 DEF LiveTx
  <2> QED BY <2>1 DEF OpenInv
<1>11. AckedIsDurable' /\ OnlyCommitCommits'
  BY <1>4 DEF DurInv, ChangeInv, AckedIsDurable, OnlyCommitCommits
<1> QED BY <1>6, <1>7, <1>8, <1>9, <1>10, <1>11 DEF ChangeInv

\* The transaction starts, or does not.
LEMMA StartsTxDur ==
  ASSUME DurInv, StartsTx
  PROVE  ChangeInv'
<1>1. /\ call # NoCall /\ call.fn = "begin" /\ call.chg = None /\ call.obj \in TxObj
      /\ txs[call.obj].st = "none" /\ call.auto = FALSE
      /\ \A t \in TxObj : ~LiveTx(t)
      /\ \A r \in RowsObj : Held(r) => rows[r].open /\ ~rows[r].commitOnClose
      /\ call.stage = "start" /\ srv.up
  BY BeginningDur DEF StartsTx
<1>2. conn.autoTx = None /\ txs \in [TxObj -> TxRec] /\ srv.tx \subseteq TxHandle
      /\ srv.pend \in [TxHandle -> SUBSET Change]
  BY <1>1, TxTypes DEF DurInv, TxInv, SessionInv, CallsAreConsistent
<1>3. call' = NoCall /\ UNCHANGED <<rows, ledger, committed>> /\ srv'.pend = srv.pend
      /\ srv'.up = srv.up /\ conn'.autoTx = None
  BY <1>1, <1>2 DEF StartsTx, Fails, Return, KeepsDb, KeepsConn
<1>4. StatementInv' /\ MethodInv'
  BY <1>3, NoCallFields DEF StatementInv, MethodInv
<1>5. RowsInv'
  <2>1. \A r \in RowsObj : Held(r)' => Held(r) /\ rows'[r] = rows[r]
    BY <1>3, NoCallFields DEF Held
  <2> QED BY <1>1, <1>3, <2>1, PlainRows
<1>6. AckedIsDurable'
  BY <1>3 DEF DurInv, ChangeInv, AckedIsDurable
<1>7. CASE \E h \in TxHandle \ srv.tx :
             /\ conn'.activeTx = h
             /\ txs' = [txs EXCEPT ![call.obj] = [st |-> "open", handle |-> h]]
  <2>1. PICK h \in TxHandle \ srv.tx :
             /\ conn'.activeTx = h
             /\ txs' = [txs EXCEPT ![call.obj] = [st |-> "open", handle |-> h]]
    BY <1>7
  <2>2. /\ txs'[call.obj].st = "open" /\ txs'[call.obj].handle = h
        /\ \A t \in TxObj : t # call.obj => txs'[t] = txs[t]
    BY <1>1, <1>2, <2>1
  <2>3. \A t \in TxObj : LiveTx(t)' => t = call.obj
    BY <1>1, <2>2 DEF LiveTx
  <2>4. UsersInv'
    <3>1. \A c \in Change : ledger'[c].by \in TxObj => txs'[ledger'[c].by].st # "none"
      BY <1>1, <1>3, <2>2 DEF DurInv, ChangeInv, UsersInv
    <3>2. \A t \in TxObj : txs'[t].st = "open" =>
            conn'.activeTx = txs'[t].handle /\ conn'.activeTx # None
      BY <2>1, <2>2, <2>3 DEF LiveTx
    <3>3. \A t \in TxObj : txs'[t].st \notin {"committing", "rolling back"}
      BY <2>2, <2>3 DEF LiveTx
    <3> QED BY <1>3, <2>3, <3>1, <3>2, <3>3, NoCallFields DEF UsersInv
  <2>5. srv.pend[h] = {}
    BY <1>1, <2>1 DEF DurInv, TxInv, LiveInv
  <2>6. PendInv'
    BY <1>1, <1>3, <2>2, <2>3, <2>5, KeptPend
  <2>7. OpenInv'
    <3>1. \A t \in TxObj : txs'[t].st \in {"open", "committing"} => txs[t].st = "none"
      BY <1>1, <2>3 DEF LiveTx
    <3> QED BY <1>1, <1>3, <3>1, KeptOpen
  <2>8. OnlyCommitCommits'
    <3>1. committed' \subseteq Change
      BY <1>3, TxTypes DEF DurInv, TxInv
    <3> QED BY <1>1, <1>3, <2>2, <3>1, KeptOnly
  <2> QED BY <1>4, <1>5, <1>6, <2>4, <2>6, <2>7, <2>8 DEF ChangeInv
<1>8. CASE KeepsConn /\ UNCHANGED txs
  <2>1. UsersInv'
    BY <1>1, <1>3, <1>8, ConnKept, IdleUsers
  <2>2. \A t \in TxObj : ~LiveTx(t)'
    BY <1>1, <1>8 DEF LiveTx
  <2>3. PendInv'
    BY <1>3, <1>8, <2>2, KeptPend
  <2>4. OpenInv'
    BY <2>2 DEF OpenInv, LiveTx
  <2>5. OnlyCommitCommits'
    BY <1>3, <1>8 DEF DurInv, ChangeInv, OnlyCommitCommits
  <2> QED BY <1>4, <1>5, <1>6, <2>1, <2>3, <2>4, <2>5 DEF ChangeInv
<1> QED BY <1>7, <1>8 DEF StartsTx, Fails

\* Commit or Rollback starts, or fails at once.
LEMMA EndsTxDur ==
  ASSUME DurInv, ~Raw, NEW t \in TxObj, NEW fn, NEW st, NEW failed,
         \/ fn = "commit" /\ st = "committing" /\ failed = "commit failed"
         \/ fn = "rollback" /\ st = "rolling back" /\ failed = "rolled back",
         EndsTx(t, fn, st, failed)
  PROVE  ChangeInv'
<1>1. /\ call = NoCall /\ txs[t].st = "open" /\ RowsClosed
      /\ conn'.autoTx = conn.autoTx
      /\ txs' = [txs EXCEPT ![t].st = IF Usable THEN st ELSE failed]
      /\ UNCHANGED <<rows, srv, committed, ledger>>
  BY DEF EndsTx
<1>2. /\ txs \in [TxObj -> TxRec] /\ srv.pend \in [TxHandle -> SUBSET Change]
      /\ committed \subseteq Change
  BY TxTypes DEF DurInv, TxInv
<1>3. /\ txs'[t].st = (IF Usable THEN st ELSE failed) /\ txs'[t].handle = txs[t].handle
      /\ \A u \in TxObj : u # t => txs'[u] = txs[u]
  BY <1>1, <1>2 DEF TxRec
<1>4. \/ /\ Usable /\ call'.fn = fn /\ call'.stage = "end" /\ call'.auto = FALSE /\ call'.obj = t
      \/ ~Usable /\ call' = NoCall
  BY DEF EndsTx, Starts
<1>5. call.chg = None /\ call.stage = "none" /\ call.fn = "none"
  BY <1>1, NoCallFields
<1>6. \A u \in TxObj : u # t => ~LiveTx(u)
  BY <1>1 DEF DurInv, ChangeInv, UsersInv, LiveTx
<1>7. \A u \in TxObj : LiveTx(u)' => u = t /\ LiveTx(u) /\ txs'[u].handle = txs[u].handle
  BY <1>1, <1>3, <1>6 DEF LiveTx
<1>8. UsersInv'
  <2>1. \A u \in TxObj : txs'[u].st \in {"committing", "rolling back"} =>
          call'.stage = "end" /\ call'.obj = u
    BY <1>3, <1>4, <1>7 DEF LiveTx
  <2>2. \A u \in TxObj : txs'[u].st # "open"
    BY <1>3, <1>6 DEF LiveTx
  <2>3. ~call'.auto /\ call'.stage \in {"end", "none"}
    BY <1>4, NoCallFields
  <2>4. ASSUME NEW c \in Change, ledger'[c].by \in TxObj
        PROVE  txs'[ledger'[c].by].st # "none"
    <3>1. ledger'[c].by = ledger[c].by /\ txs[ledger[c].by].st # "none"
      BY <1>1, <2>4 DEF DurInv, ChangeInv, UsersInv
    <3>2. CASE ledger[c].by = t
      BY <1>3, <3>1, <3>2
    <3>3. CASE ledger[c].by # t
      BY <1>3, <2>4, <3>1, <3>3
    <3> QED BY <3>2, <3>3
  <2> QED BY <1>7, <2>1, <2>2, <2>3, <2>4 DEF UsersInv
<1>9. StatementInv' /\ MethodInv'
  BY <1>4, NoCallFields DEF StatementInv, MethodInv
<1>10. RowsInv'
  <2>1. \A r \in RowsObj : ~Held(r)'
    BY <1>1, <1>4, NoCallFields DEF Held, RowsClosed
  <2> QED BY <2>1 DEF RowsInv
<1>11. PendInv'
  <2>1. srv.up /\ conn.autoTx \in TxHandle => srv.pend[conn.autoTx] = {}
    BY <1>1, NoneHeld, AutoPend
  <2> QED BY <1>1, <1>3, <1>7, <2>1, KeptPend
<1>12. OpenInv'
  <2>1. \A u \in TxObj : txs'[u].st \in {"open", "committing"} =>
          txs[u].st \in {"open", "committing"} /\ txs'[u].handle = txs[u].handle
    BY <1>1, <1>3
  <2> QED BY <1>1, <1>5, <2>1, KeptOpen
<1>13. AckedIsDurable'
  BY <1>1 DEF DurInv, ChangeInv, AckedIsDurable
<1>14. OnlyCommitCommits'
  BY <1>1, <1>2, <1>3, KeptOnly
<1> QED BY <1>8, <1>9, <1>10, <1>11, <1>12, <1>13, <1>14 DEF ChangeInv

\* Ending a transaction object changes its state only.
LEMMA EndedTx ==
  ASSUME txs \in [TxObj -> TxRec], NEW t \in TxObj, NEW st,
         txs' = [txs EXCEPT ![t].st = st]
  PROVE  /\ txs'[t].st = st /\ txs'[t].handle = txs[t].handle
         /\ \A u \in TxObj : u # t => txs'[u] = txs[u]
<1>1. txs[t] \in TxRec
  OBVIOUS
<1>2. txs'[t] = [txs[t] EXCEPT !.st = st]
  OBVIOUS
<1>3. txs'[t].st = st /\ txs'[t].handle = txs[t].handle
  BY <1>1, <1>2 DEF TxRec
<1> QED BY <1>3

\* The answer to Commit or Rollback.
LEMMA EndedDur ==
  ASSUME DurInv, Ended
  PROVE  ChangeInv'
<1>1. call.stage = "end" /\ srv.up /\ call' = NoCall /\ KeepsConn /\ UNCHANGED rows
  BY DEF Ended
<1>2. /\ call.obj \in TxObj /\ txs[call.obj].handle = call.tx
      /\ txs[call.obj].st = (IF call.fn = "commit" THEN "committing" ELSE "rolling back")
      /\ call.fn \in {"commit", "rollback"}
  BY <1>1 DEF DurInv, TxInv, CallInv, ChangeInv, MethodInv
<1>3. call # NoCall /\ "end" \notin Early
  BY <1>1, NoCallFields DEF Early
<1>4. /\ txs \in [TxObj -> TxRec] /\ srv.pend \in [TxHandle -> SUBSET Change]
      /\ committed \subseteq Change /\ srv.tx \subseteq TxHandle
  BY TxTypes DEF DurInv, TxInv
<1>5. PICK st \in {"committed", "commit failed", "rolled back"} :
        txs' = [txs EXCEPT ![call.obj].st = st] /\ (st = "rolled back" <=> call.fn = "rollback")
  BY DEF Ended
<1>6. /\ txs'[call.obj].st = st /\ txs'[call.obj].handle = txs[call.obj].handle
      /\ \A u \in TxObj : u # call.obj => txs'[u] = txs[u]
  BY <1>2, <1>4, <1>5, EndedTx
<1>7. \A u \in TxObj : ~LiveTx(u)'
  <2>1. \A u \in TxObj : u # call.obj => ~LiveTx(u)
    BY <1>2 DEF DurInv, ChangeInv, UsersInv, LiveTx
  <2> QED BY <1>6, <2>1 DEF LiveTx
<1>8. /\ committed \subseteq committed' /\ committed' \subseteq committed \cup srv.pend[call.tx]
      /\ srv'.up = srv.up /\ \A h \in TxHandle : srv'.pend[h] \subseteq srv.pend[h]
      /\ committed' # committed => call.fn = "commit"
  <2>1. ASSUME Ends(call.tx)
        PROVE  srv'.up = srv.up /\ \A h \in TxHandle : srv'.pend[h] \subseteq srv.pend[h]
    BY <1>4, <2>1 DEF Ends
  <2>2. CASE Ends(call.tx) /\ call.fn = "commit" /\ committed' = committed \cup srv.pend[call.tx]
    BY <2>1, <2>2
  <2>3. CASE (Ends(call.tx) \/ KeepsDb) /\ committed' = committed
    BY <2>1, <2>3 DEF KeepsDb
  <2> QED BY <2>2, <2>3 DEF Ended, KeepsDb
<1>9. call.tx \in TxHandle
  BY <1>1, <1>2, <1>4 DEF DurInv, TxInv, LiveInv, LiveTx
<1>10. \A c \in Change : ledger'[c].by = ledger[c].by
  <2>1. ledger' = ledger \/ ledger' = CommitAcks(call.obj)
    BY DEF Ended
  <2>2. \A c \in Change : CommitAcks(call.obj)[c].by = ledger[c].by
    BY CommitAcksEffect
  <2> QED BY <2>1, <2>2
<1>11. UsersInv'
  <2>1. \A c \in Change : ledger'[c].by \in TxObj => txs'[ledger'[c].by].st # "none"
    BY <1>6, <1>10 DEF DurInv, ChangeInv, UsersInv
  <2> QED BY <1>1, <1>7, <2>1, NoCallFields DEF UsersInv, LiveTx
<1>12. StatementInv' /\ MethodInv'
  BY <1>1, NoCallFields DEF StatementInv, MethodInv
<1>13. RowsInv'
  <2>1. \A r \in RowsObj : Held(r)' => Held(r) /\ rows'[r] = rows[r]
    BY <1>1, NoCallFields DEF Held
  <2>2. \A r \in RowsObj : Held(r) => ~rows[r].commitOnClose
    BY <1>2, <1>3, NoCommitRows
  <2> QED BY <1>10, <2>1, <2>2, PlainRows
<1>14. PendInv'
  <2>1. conn'.autoTx \in TxHandle => srv'.pend[conn'.autoTx] = {}
    <3>1. conn'.autoTx = conn.autoTx
      BY <1>1 DEF KeepsConn
    <3>2. conn.autoTx \in TxHandle => srv.pend[conn.autoTx] = {}
      BY <1>1, <1>2, <1>3, AutoEmpty
    <3> QED BY <1>8, <3>1, <3>2
  <2>2. \A u \in TxObj : txs'[u].handle = txs[u].handle
    BY <1>6
  <2> QED BY <1>7, <1>8, <1>10, <2>1, <2>2, KeptPend
<1>15. OpenInv'
  BY <1>7 DEF OpenInv, LiveTx
<1>16. AckedIsDurable'
  <2>1. CASE UNCHANGED ledger
    BY <1>8, <2>1 DEF DurInv, ChangeInv, AckedIsDurable
  <2>2. CASE call.fn = "commit" /\ committed' = committed \cup srv.pend[call.tx]
             /\ ledger' = CommitAcks(call.obj)
    <3> SUFFICES ASSUME NEW c \in Change, ledger'[c].ack = "ok"
                 PROVE  c \in committed'
      BY DEF AckedIsDurable
    <3>1. ledger[c].ack = "ok" \/ (ledger[c].by = call.obj /\ ledger[c].ack = "open")
      BY <2>2, CommitAcksEffect
    <3>2. CASE ledger[c].ack = "ok"
      BY <1>8, <3>2 DEF DurInv, ChangeInv, AckedIsDurable
    <3>3. CASE ledger[c].by = call.obj /\ ledger[c].ack = "open"
      <4>2. txs[call.obj].st = "committing"
        BY <1>2, <2>2
      <4>3. c \in srv.pend[call.tx]
        BY <1>1, <1>2, <1>3, <3>3, <4>2 DEF DurInv, ChangeInv, OpenInv
      <4> QED BY <2>2, <4>3
    <3> QED BY <3>1, <3>2, <3>3
  <2> QED BY <2>1, <2>2 DEF Ended
<1>17. OnlyCommitCommits'
  <2>1. \A c \in committed' : c \in committed
          \/ (ledger[c].by = call.obj /\ call.fn = "commit")
    BY <1>1, <1>8, <1>9, EndPend
  <2>2. call.fn = "commit" => txs'[call.obj].st \in {"committed", "commit failed"}
    BY <1>5, <1>6
  <2>3. committed' \subseteq Change
    BY <1>4, <1>8, <1>9
  <2>4. \A u \in TxObj : txs[u].st \in {"committing", "committed", "commit failed"} =>
                         txs'[u].st \in {"committing", "committed", "commit failed"}
    BY <1>2, <1>6, <2>2
  <2> QED BY <1>2, <1>10, <2>1, <2>2, <2>3, <2>4, KeptOnly
<1> QED BY <1>11, <1>12, <1>13, <1>14, <1>15, <1>16, <1>17 DEF ChangeInv

\* The steps of explicit transactions, together.
LEMMA TxStepsDur ==
  ASSUME DurInv, ~Raw, TxSteps
  PROVE  ChangeInv'
BY BeginsDur, CommitsAutoDur, StartsTxDur, EndsTxDur, EndedDur, TxOutcomes DEF DurInv, TxInv

----------------------------------------------------------------------------
(* The end of the connection *)

\* What a lost answer may have committed was asked for, and its fate is open
\* or its transaction is being committed.
LEMMA LostFor ==
  ASSUME DurInv, NEW done \in LostAnswer \cup {{}}, NEW c \in done
  PROVE  /\ c \in Change
         /\ \/ ledger[c].by = "auto" /\ ledger[c].ack = "open"
            \/ call.fn = "commit" /\ call.obj \in TxObj /\ ledger[c].by = call.obj
<1>1. /\ srv.up /\ call.tx \in srv.tx /\ call.tx \in TxHandle
      /\ c \in srv.pend[call.tx] \/ c \in Changes(call.chg)
  BY LostAnswerBound, TxTypes DEF DurInv, TxInv
<1>2. \/ call.stage = "execute" /\ call.fn = "exec" /\ call.auto
      \/ /\ call.stage \in {"commitRetaining", "commitAuto", "commitOnClose"}
         /\ c \in srv.pend[call.tx]
      \/ call.stage = "end" /\ call.fn = "commit" /\ c \in srv.pend[call.tx]
  BY DEF LostAnswer, At
<1>3. ASSUME call.tx = conn.autoTx, c \in srv.pend[call.tx]
      PROVE  c \in Change /\ ledger[c].by = "auto" /\ ledger[c].ack = "open"
  <2>1. conn.autoTx \in TxHandle /\ c \in srv.pend[conn.autoTx]
    BY <1>1, <1>3
  <2> QED BY <1>1, <2>1, AutoPend
<1>4. CASE call.stage = "execute" /\ call.fn = "exec" /\ call.auto
  <2>1. call.tx = conn.autoTx
    BY <1>4, InStatement DEF StatementFn
  <2>2. CASE c \in Changes(call.chg)
    <3>1. c = call.chg /\ c # None /\ c \in Change
      BY <2>2, TxTypes DEF Changes, DurInv, TxInv
    <3>2. ledger[c].by = "auto" /\ ledger[c].ack = "open"
      BY <1>4, <3>1 DEF DurInv, ChangeInv, StatementInv
    <3> QED BY <3>1, <3>2
  <2> QED BY <1>1, <1>3, <2>1, <2>2
<1>5. CASE call.stage = "commitRetaining" /\ c \in srv.pend[call.tx]
  <2>1. call.fn \in StatementFn /\ call.auto
    BY <1>5 DEF DurInv, TxInv, CallInv, Running
  <2> QED BY <1>3, <1>5, <2>1, InStatement
<1>6. CASE call.stage = "commitAuto" /\ c \in srv.pend[call.tx]
  BY <1>3, <1>6 DEF DurInv, TxInv, CallInv
<1>7. CASE call.stage = "commitOnClose" /\ c \in srv.pend[call.tx]
  <2>1. /\ call.fn = "close rows" /\ call.rows \in RowsObj /\ rows[call.rows].commitOnClose
        /\ call.tx = rows[call.rows].tx
    BY <1>7 DEF DurInv, ChangeInv, MethodInv
  <2>2. Held(call.rows)
    BY <2>1 DEF Held
  <2>3. call.tx = conn.autoTx
    BY <1>1, <2>1, <2>2 DEF DurInv, ChangeInv, RowsInv
  <2> QED BY <1>3, <1>7, <2>3
<1>8. CASE call.stage = "end" /\ call.fn = "commit" /\ c \in srv.pend[call.tx]
  <2>1. call.obj \in TxObj
    BY <1>8 DEF DurInv, TxInv, CallInv
  <2> QED BY <1>1, <1>8, <2>1, EndPend
<1> QED BY <1>2, <1>4, <1>5, <1>6, <1>7, <1>8

\* Close finds nothing to commit, and neither does a checkout.
LEMMA ClosesDur ==
  ASSUME DurInv, ~Raw, Closes
  PROVE  ChangeInv'
<1>1. /\ call = NoCall /\ call' = NoCall /\ TxClosed /\ RowsClosed /\ ~srv'.up /\ ~Usable'
      /\ UNCHANGED <<rows, txs, ledger>>
      /\ \/ committed' = committed
         \/ /\ srv.up /\ conn.autoTx \in srv.tx
            /\ committed' = committed \cup srv.pend[conn.autoTx]
  BY DEF Closes
<1>2. committed' = committed
  <2>1. srv.up /\ conn.autoTx \in srv.tx => srv.pend[conn.autoTx] = {}
    BY <1>1, NoneHeld, AutoPend, TxTypes DEF DurInv, TxInv
  <2> QED BY <1>1, <2>1
<1>3. call.stage # "end"
  BY <1>1, NoCallFields
<1>4. UsersInv' /\ StatementInv' /\ MethodInv'
  BY <1>1, <1>3, IdleUsers
<1>5. \A r \in RowsObj : ~Held(r)'
  BY <1>1, NoCallFields DEF Held, RowsClosed
<1>6. RowsInv' /\ PendInv' /\ OpenInv'
  BY <1>1, <1>5 DEF RowsInv, PendInv, OpenInv
<1>7. AckedIsDurable' /\ OnlyCommitCommits'
  BY <1>1, <1>2 DEF DurInv, ChangeInv, AckedIsDurable, OnlyCommitCommits
<1> QED BY <1>4, <1>6, <1>7 DEF ChangeInv

\* The link goes.
LEMMA DropsDur ==
  ASSUME DurInv, Drops
  PROVE  ChangeInv'
<1>1. ~srv'.up /\ UNCHANGED <<conn, rows, txs, call, committed, ledger>>
  BY DEF Drops
<1>2. UsersInv' /\ StatementInv' /\ MethodInv'
  BY <1>1 DEF DurInv, ChangeInv, UsersInv, StatementInv, MethodInv, LiveTx, Usable, RowsClosed,
              TxClosed
<1>3. \A r \in RowsObj : Held(r)' <=> Held(r)
  BY <1>1 DEF Held
<1>4. \A r \in RowsObj : Held(r) /\ rows[r].commitOnClose /\ call' # NoCall =>
        call'.fn \in {"next", "close rows"} /\ call'.rows = r
  BY <1>1 DEF DurInv, ChangeInv, RowsInv
<1>5. KeepsConn
  BY <1>1 DEF KeepsConn
<1> QED BY <1>1, <1>2, <1>3, <1>4, <1>5, QuietDur

\* A method learns that the link is gone: whatever it was told is final.
LEMMA BreaksDur ==
  ASSUME DurInv, Breaks
  PROVE  ChangeInv'
<1>1. call # NoCall /\ ~srv'.up /\ ~Usable'
  BY DEF Breaks
<1>2. PICK ack \in {"ok", "open", "error", "retry"} :
        /\ Return(ack)
        /\ ack = "ok" => call.stage = "info" /\ call.auto
        /\ ack = "open" => call.stage = "info"
  BY DEF Breaks, ExecAck, ErrorKind, At
<1>3. /\ call' = NoCall
      /\ \A c \in Change : ledger'[c].by = ledger[c].by
      /\ \A c \in Change : c # call.chg => ledger'[c].ack = ledger[c].ack
      /\ \A c \in Change : c = call.chg => ledger'[c].ack = ack
  BY <1>2, ReturnEffect DEF DurInv, TxInv
<1>4. txs \in [TxObj -> TxRec] /\ rows \in [RowsObj -> RowsRec] /\ committed \subseteq Change
  BY TxTypes DEF DurInv, TxInv
<1>5. call.fn \in {"commit", "rollback"} => call.obj \in TxObj
  BY DEF DurInv, ChangeInv, MethodInv, TxInv, CallInv
<1>6. \/ call.fn \notin {"commit", "rollback"} /\ txs' = txs
      \/ /\ call.fn = "commit" /\ txs'[call.obj].st = "commit failed"
         /\ \A u \in TxObj : u # call.obj => txs'[u] = txs[u]
      \/ /\ call.fn = "rollback" /\ txs'[call.obj].st = "rolled back"
         /\ \A u \in TxObj : u # call.obj => txs'[u] = txs[u]
  BY <1>4, <1>5, EndedTx DEF Breaks
<1>7. \A t \in TxObj : txs[t].st \in {"committing", "rolling back"} =>
        call.fn \in {"commit", "rollback"} /\ call.obj = t
  BY DEF DurInv, ChangeInv, UsersInv, MethodInv
<1>8. ASSUME NEW t \in TxObj, LiveTx(t)'
      PROVE  LiveTx(t) /\ txs'[t].st = "open"
  BY <1>6, <1>7, <1>8 DEF LiveTx
<1>9. UsersInv'
  <2>1. ASSUME NEW c \in Change, ledger'[c].by \in TxObj
        PROVE  txs'[ledger'[c].by].st # "none"
    <3>1. ledger'[c].by = ledger[c].by /\ txs[ledger[c].by].st # "none"
      BY <1>3, <2>1 DEF DurInv, ChangeInv, UsersInv
    <3> QED BY <1>6, <2>1, <3>1
  <2>2. \A t, u \in TxObj : LiveTx(t)' /\ LiveTx(u)' => t = u
    BY <1>8 DEF DurInv, ChangeInv, UsersInv
  <2>3. \A t \in TxObj : txs'[t].st \notin {"committing", "rolling back"}
    BY <1>8 DEF LiveTx
  <2> QED BY <1>1, <1>3, <2>1, <2>2, <2>3, NoCallFields DEF UsersInv
<1>10. StatementInv' /\ MethodInv'
  BY <1>3, NoCallFields DEF StatementInv, MethodInv
<1>11. RowsInv'
  <2>1. ASSUME NEW r \in RowsObj, Held(r)'
        PROVE  Held(r) /\ rows'[r] = rows[r] /\ ~(call.fn = "close rows" /\ call.rows = r)
    <3>1. rows'[r].open
      BY <1>3, <2>1, NoCallFields DEF Held
    <3>2. rows' = IF call.fn = "close rows" THEN [rows EXCEPT ![call.rows] = NoRows] ELSE rows
      BY DEF Breaks
    <3>3. ~NoRows.open
      BY DEF NoRows
    <3>4. rows'[r] = rows[r] /\ ~(call.fn = "close rows" /\ call.rows = r)
      BY <1>4, <3>1, <3>2, <3>3
    <3> QED BY <3>1, <3>4 DEF Held
  <2> SUFFICES ASSUME NEW r \in RowsObj, Held(r)'
               PROVE  /\ rows'[r].commitOnClose =>
                           /\ rows'[r].chg # None /\ ledger'[rows'[r].chg].by = "auto"
                           /\ TxClosed'
                           /\ \A p \in RowsObj : Held(p)' => p = r
                           /\ ledger'[rows'[r].chg].ack # "open"
                      /\ ~rows'[r].commitOnClose /\ rows'[r].chg # None =>
                           ledger'[rows'[r].chg].by \in TxObj
    BY <1>1, <1>3 DEF RowsInv
  <2>2. Held(r) /\ rows'[r] = rows[r] /\ ~(call.fn = "close rows" /\ call.rows = r)
        /\ rows[r].chg \in Change \cup {None}
    BY <1>4, <2>1 DEF RowsRec
  <2>3. CASE ~rows[r].commitOnClose
    BY <1>3, <2>2, <2>3 DEF DurInv, ChangeInv, RowsInv
  <2>4. CASE rows[r].commitOnClose
    <3>1. /\ rows[r].chg # None /\ ledger[rows[r].chg].by = "auto" /\ TxClosed
          /\ \A q \in RowsObj : Held(q) => q = r
          /\ call.fn \in {"next", "close rows"} /\ call.rows = r
      BY <1>1, <2>2, <2>4 DEF DurInv, ChangeInv, RowsInv
    <3>2. call.fn = "next" /\ call.chg = rows[r].chg
      BY <2>2, <3>1 DEF DurInv, ChangeInv, MethodInv
    <3>3. call.stage # "info"
      BY <3>2 DEF DurInv, TxInv, CallInv, StatementFn, Running
    <3>4. ledger'[rows[r].chg].ack # "open"
      BY <1>2, <1>3, <2>2, <3>1, <3>2, <3>3
    <3>5. TxClosed'
      BY <1>6, <3>1, <3>2 DEF TxClosed
    <3>6. \A p \in RowsObj : Held(p)' => p = r
      BY <2>1, <3>1
    <3> QED BY <1>3, <2>2, <2>4, <3>1, <3>4, <3>5, <3>6
  <2> QED BY <2>3, <2>4
<1>12. PendInv' /\ OpenInv'
  BY <1>1 DEF PendInv, OpenInv
<1>13. PICK done \in LostAnswer \cup {{}} : committed' = committed \cup done
  BY DEF Breaks
<1>14. AckedIsDurable'
  <2> SUFFICES ASSUME NEW c \in Change, ledger'[c].ack = "ok"
               PROVE  c \in committed'
    BY DEF AckedIsDurable
  <2>1. CASE c # call.chg
    BY <1>3, <1>13, <2>1 DEF DurInv, ChangeInv, AckedIsDurable
  <2>2. CASE c = call.chg
    <3>1. call.stage = "info" /\ call.auto /\ call.chg # None
      BY <1>2, <1>3, <2>2
    <3>2. call.fn \in {"exec", "query"}
      BY <3>1 DEF DurInv, TxInv, CallInv, Running, StatementFn
    <3> QED BY <1>13, <2>2, <3>1, <3>2 DEF DurInv, ChangeInv, StatementInv
  <2> QED BY <2>1, <2>2
<1>15. OnlyCommitCommits'
  <2>1. \A c \in done : /\ c \in Change
                        /\ \/ ledger[c].by = "auto"
                           \/ call.fn = "commit" /\ call.obj \in TxObj /\ ledger[c].by = call.obj
    BY LostFor
  <2>2. committed' \subseteq Change
    BY <1>4, <1>13, <2>1
  <2>3. ASSUME NEW t \in TxObj, txs[t].st \in {"committing", "committed", "commit failed"}
        PROVE  txs'[t].st \in {"committing", "committed", "commit failed"}
    <3>1. call.fn = "rollback" => txs[call.obj].st = "rolling back"
      BY DEF DurInv, ChangeInv, MethodInv, TxInv, CallInv
    <3> QED BY <1>6, <2>3, <3>1
  <2>4. \A c \in committed' : \/ c \in committed \/ ledger[c].by = "auto"
                              \/ ledger[c].by \in TxObj
                                 /\ txs'[ledger[c].by].st \in {"committing", "committed", "commit failed"}
    BY <1>6, <1>13, <2>1
  <2> QED BY <1>3, <2>2, <2>3, <2>4, KeptOnly
<1> QED BY <1>9, <1>10, <1>11, <1>12, <1>14, <1>15 DEF ChangeInv


----------------------------------------------------------------------------
(* The theorems about durability *)

\* Every step of the pool's callers preserves the invariant.
LEMMA StepDur ==
  ASSUME DurInv, ~Raw, ~SelectMayWrite, [Next]_vars
  PROVE  DurInv'
<1>1. TxInv'
  BY StepTx DEF DurInv
<1>2. CASE UNCHANGED vars
  <2>1. /\ conn' = conn /\ rows' = rows /\ txs' = txs /\ call' = call /\ srv' = srv
        /\ committed' = committed /\ ledger' = ledger
    BY <1>2 DEF vars
  <2>2. \A r \in RowsObj : Held(r)' <=> Held(r)
    BY <2>1 DEF Held
  <2>3. \A c : InCharge(c)' <=> InCharge(c)
    BY <2>1 DEF InCharge, Held
  <2>4. UsersInv' /\ StatementInv' /\ MethodInv'
    BY <2>1 DEF DurInv, ChangeInv, UsersInv, StatementInv, MethodInv, LiveTx, Usable,
                RowsClosed, TxClosed
  <2>5. \A r \in RowsObj : Held(r) /\ rows[r].commitOnClose /\ call' # NoCall =>
          call'.fn \in {"next", "close rows"} /\ call'.rows = r
    BY <2>1 DEF DurInv, ChangeInv, RowsInv
  <2>6. KeepsConn
    BY <2>1 DEF KeepsConn
  <2>7. ChangeInv'
    BY <2>1, <2>2, <2>4, <2>5, <2>6, QuietDur
  <2> QED BY <1>1, <2>7 DEF DurInv
<1>3. CASE StatementCalls
  <2>1. PICK u \in Users, chg \in Change \cup {None}, typ \in StmtType : StartsFor(u, chg, typ)
    BY <1>3, StatementStarts DEF DurInv, TxInv, SessionInv
  <2> QED BY <1>1, <2>1, StartsForDur DEF DurInv
<1>4. CASE StatementSteps \/ TxSteps \/ ObjectSteps \/ Ping \/ pinged
  BY <1>1, <1>4, StatementStepsDur, TxStepsDur, ObjectStepsDur DEF DurInv
<1>5. CASE Close \/ ResetSession \/ LinkDrops \/ TransportError
  BY <1>1, <1>5, EndOutcomes, ClosesDur, DropsDur, BreaksDur DEF DurInv, TxInv
<1> QED BY <1>2, <1>3, <1>4, <1>5 DEF Next, ConnSteps

\* The invariant of changes holds in every reachable state of a connection
\* that database/sql's pool gives to one user at a time.
THEOREM DurInvariant ==
  ASSUME ~Raw, ~SelectMayWrite
  PROVE  Spec => []DurInv
<1>1. Init => DurInv
  <2> SUFFICES ASSUME Init PROVE DurInv
    OBVIOUS
  <2>1. TxInv
    BY InitTx
  <2>2. /\ call = NoCall /\ committed = {} /\ (\A h \in TxHandle : srv.pend[h] = {})
        /\ (\A t \in TxObj : txs[t].st = "none") /\ (\A r \in RowsObj : ~rows[r].open)
        /\ (\A c \in Change : ledger[c].by = "none" /\ ledger[c].ack = "none")
    BY DEF Init, SrvDown, NoRows
  <2>3. UsersInv /\ StatementInv /\ MethodInv
    BY <2>2, NoCallFields DEF UsersInv, StatementInv, MethodInv, LiveTx
  <2>4. RowsInv
    BY <2>2, NoCallFields DEF RowsInv, Held
  <2>5. PendInv /\ OpenInv /\ AckedIsDurable /\ OnlyCommitCommits
    BY <2>2 DEF PendInv, OpenInv, AckedIsDurable, OnlyCommitCommits
  <2> QED BY <2>1, <2>3, <2>4, <2>5 DEF DurInv, ChangeInv
<1>2. DurInv /\ [Next]_vars => DurInv'
  BY StepDur
<1> QED BY <1>1, <1>2, PTL DEF Spec

\* What the driver acknowledged is durable: the result of an auto-commit Exec,
\* the rows of an auto-commit statement closed without error, and the
\* statements of a transaction whose Commit returned nil.
THEOREM AcknowledgedIsDurable ==
  ASSUME ~Raw, ~SelectMayWrite
  PROVE  Spec => []AckedIsDurable
<1>1. DurInv => AckedIsDurable
  BY DEF DurInv, ChangeInv
<1> QED BY <1>1, DurInvariant, PTL

\* Every statement runs in the transaction its caller works in, when
\* database/sql's pool gives the connection to one user at a time; on a pinned
\* connection with a second BeginTx it does not (TLC finds that with Raw = TRUE).
THEOREM StatementsRunInTheirTransaction ==
  ASSUME ~Raw, ~SelectMayWrite
  PROVE  Spec => []RunsInItsTransaction
<1>1. DurInv => RunsInItsTransaction
  <2> SUFFICES ASSUME DurInv, srv.up, NEW h \in TxHandle, NEW c \in srv.pend[h]
               PROVE  /\ ledger[c].by \in TxObj => txs[ledger[c].by].handle = h
                      /\ ledger[c].by = "auto" =>
                           \A t \in TxObj : txs[t].st = "open" => txs[t].handle # h
    BY DEF RunsInItsTransaction
  <2>1. PendInv
    BY DEF DurInv, ChangeInv
  <2> QED BY <2>1 DEF PendInv, LiveTx
<1> QED BY <1>1, DurInvariant, PTL

\* Nothing but its own Commit makes the work of an explicit transaction durable.
THEOREM CommitAloneCommits ==
  ASSUME ~Raw, ~SelectMayWrite
  PROVE  Spec => []OnlyCommitCommits
<1>1. DurInv => OnlyCommitCommits
  BY DEF DurInv, ChangeInv
<1> QED BY <1>1, DurInvariant, PTL

\* No user of the connection finds another one's work in the auto-commit
\* transaction.
THEOREM AutoTxStaysClean ==
  ASSUME ~Raw, ~SelectMayWrite
  PROVE  Spec => []AutoTxIsClean
<1>1. DurInv => AutoTxIsClean
  <2> SUFFICES ASSUME DurInv, call = NoCall, srv.up, conn.autoTx # None,
                      \A r \in RowsObj : ~(rows[r].open /\ rows[r].commitOnClose)
               PROVE  srv.pend[conn.autoTx] = {}
    BY DEF AutoTxIsClean
  <2>1. conn.autoTx \in TxHandle /\ srv.pend \in [TxHandle -> SUBSET Change]
    BY TxTypes DEF DurInv, TxInv, OptTx
  <2>2. \A c : ~InCharge(c)
    BY NoCallFields DEF InCharge, Held
  <2> QED BY <2>1, <2>2, AutoPend
<1> QED BY <1>1, DurInvariant, PTL

\* Whatever becomes durable in auto-commit mode is something whose caller has
\* not heard yet how it went.
LEMMA CommitsTheUntold ==
  ASSUME DurInv, [Next]_vars, NEW c \in committed', c \notin committed, ledger[c].by = "auto"
  PROVE  ledger[c].ack = "open"
<1>0. call.fn \in StatementFn /\ call.auto => call.tx = conn.autoTx
  BY DEF DurInv, TxInv, CallInv
<1>1. ASSUME srv.up, conn.autoTx \in srv.tx, c \in srv.pend[conn.autoTx]
      PROVE  ledger[c].ack = "open"
  BY <1>1, AutoPend, TxTypes DEF DurInv, TxInv
<1>2. ASSUME srv.up, call.stage = "execute", call.fn = "exec", call.auto, c \in Changes(call.chg)
      PROVE  ledger[c].ack = "open"
  BY <1>2 DEF DurInv, ChangeInv, StatementInv, Changes
<1>3. CASE UNCHANGED vars \/ StatementCalls
  <2>1. CASE StatementCalls
    BY <2>1, StatementStarts DEF DurInv, TxInv, SessionInv, StartsFor
  <2> QED BY <1>3, <2>1 DEF vars
<1>4. CASE StatementSteps
  <2>1. CASE RunsAndCommits
    <3>1. /\ srv.up /\ call.stage = "execute" /\ call.fn = "exec" /\ call.auto
          /\ call.tx = conn.autoTx
      BY <1>0, <2>1 DEF RunsAndCommits, StatementFn
    <3>2. \/ call.tx \in srv.tx /\ c \in srv.pend[call.tx]
          \/ c \in Changes(call.chg)
      BY <2>1 DEF RunsAndCommits, Holds, Runs, Commits, KeepsDb
    <3> QED BY <1>1, <1>2, <3>1, <3>2
  <2>2. CASE CommitsProc
    <3>1. srv.up /\ call.auto /\ call.fn \in StatementFn
      BY <2>2 DEF CommitsProc, DurInv, TxInv, CallInv, Running
    <3>2. call.tx \in srv.tx /\ c \in srv.pend[call.tx]
      BY <2>2 DEF CommitsProc, Commits, Holds, KeepsDb
    <3> QED BY <1>0, <1>1, <3>1, <3>2
  <2>3. CASE \/ StartsAuto \/ GoesOnEarly \/ FailsEarly \/ Prepares \/ RunsExec \/ RunsQuery
             \/ Succeeds
    BY <2>3 DEF StartsAuto, GoesOnEarly, FailsEarly, Prepares, RunsExec, RunsQuery, Succeeds,
                KeepsDb, Runs
  <2> QED BY <1>4, <2>1, <2>2, <2>3, StatementOutcomes DEF DurInv, TxInv
<1>5. CASE TxSteps
  <2>1. CASE CommitsAuto
    <3>1. srv.up /\ call.tx = conn.autoTx
      BY <2>1 DEF CommitsAuto, DurInv, TxInv, CallInv
    <3>2. call.tx \in srv.tx /\ c \in srv.pend[call.tx]
      BY <2>1 DEF CommitsAuto, Ends, KeepsDb
    <3> QED BY <1>1, <3>1, <3>2
  <2>2. CASE Ended
    <3>1. srv.up /\ call.stage = "end" /\ call.tx \in srv.tx /\ c \in srv.pend[call.tx]
      BY <2>2 DEF Ended, Ends, KeepsDb
    <3>2. call.tx \in TxHandle
      BY <3>1, TxTypes DEF DurInv, TxInv
    <3>3. ledger[c].by = call.obj /\ call.obj \in TxObj
      BY <3>1, <3>2, EndPend DEF DurInv, TxInv, CallInv
    <3> QED BY <3>3
  <2>3. CASE \/ StartsTx
             \/ \E t \in TxObj : \/ BeginsTx(t)
                                 \/ EndsTx(t, "commit", "committing", "commit failed")
                                 \/ EndsTx(t, "rollback", "rolling back", "rolled back")
    BY <2>3 DEF StartsTx, BeginsTx, EndsTx, Starts, KeepsDb
  <2> QED BY <1>5, <2>1, <2>2, <2>3, TxOutcomes DEF DurInv, TxInv
<1>6. CASE ObjectSteps \/ Ping \/ pinged
  <2>1. CASE CommitsRows
    <3>1. call.stage = "commitOnClose" /\ srv.up /\ call.tx \in srv.tx /\ c \in srv.pend[call.tx]
      BY <2>1 DEF CommitsRows, Commits, Holds, KeepsDb
    <3>2. /\ call.fn = "close rows" /\ call.rows \in RowsObj /\ rows[call.rows].commitOnClose
          /\ call.tx = rows[call.rows].tx
      BY <3>1 DEF DurInv, ChangeInv, MethodInv
    <3>3. call.tx = conn.autoTx
      BY <3>1, <3>2 DEF DurInv, ChangeInv, RowsInv, Held
    <3> QED BY <1>1, <3>1, <3>3
  <2>2. CASE \/ \E r \in RowsObj : Fetches(r) \/ ClosesRows(r) \/ ForgetsRows(r)
             \/ FreesRows \/ StartsOther \/ Answered
    BY <2>2 DEF Fetches, ClosesRows, ForgetsRows, FreesRows, StartsOther, Answered, Starts, KeepsDb
  <2> QED BY <1>6, <2>1, <2>2, ObjectOutcomes, PingOutcomes DEF DurInv, TxInv
<1>7. CASE Close \/ ResetSession \/ LinkDrops \/ TransportError
  <2>1. CASE Closes
    BY <1>1, <2>1 DEF Closes
  <2>2. CASE Drops
    BY <2>2 DEF Drops
  <2>3. CASE Breaks
    <3>1. PICK done \in LostAnswer \cup {{}} : committed' = committed \cup done
      BY <2>3 DEF Breaks
    <3>2. c \in done
      BY <3>1
    <3>3. (ledger[c].by = "auto" /\ ledger[c].ack = "open") \/ ledger[c].by \in TxObj
      BY <3>2, LostFor
    <3> QED BY <3>3
  <2> QED BY <1>7, <2>1, <2>2, <2>3, EndOutcomes DEF DurInv, TxInv
<1> QED BY <1>3, <1>4, <1>5, <1>6, <1>7 DEF Next, ConnSteps

\* An auto-commit statement that reported an error is not committed later: its
\* transaction was abandoned, and nothing commits an abandoned transaction.
THEOREM ErrorsAreFinal ==
  ASSUME ~Raw, ~SelectMayWrite
  PROVE  Spec => ErrorIsFinal
<1>1. ASSUME DurInv, [Next]_vars, NEW c \in Change,
             ledger[c].by = "auto", ledger[c].ack = "error", c \notin committed
      PROVE  c \notin committed'
  BY <1>1, CommitsTheUntold
<1>2. DurInv /\ [Next]_vars =>
        [\A c \in Change :
           ledger[c].by = "auto" /\ ledger[c].ack = "error" /\ c \notin committed
             => c \notin committed']_vars
  BY <1>1
<1> QED BY <1>2, DurInvariant, PTL DEF Spec, ErrorIsFinal
============================================================================
