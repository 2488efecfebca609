----------------------------- MODULE FbDescribe -----------------------------
(***************************************************************************)
(* The descriptors of a statement: the describe buffer that comes with the *)
(* answer to op_prepare_statement, the continuations that                  *)
(* CompleteSQLDescribe asks for when it was truncated, and the cache of    *)
(* descriptors that QueryContext consults.                                 *)
(*                                                                         *)
(* The server describes a statement as it was when it was prepared; other  *)
(* connections may change the tables before the next prepare, so that the  *)
(* same text is described differently each time.  A column is described    *)
(* by two attributes, its type and its sub-type (for text the character    *)
(* set); the other attributes are handled like them.                       *)
(***************************************************************************)
EXTENDS Naturals, Sequences

CONSTANTS
  None,
  Query,        \* texts of statements that share one slot of descCache
  StmtType,     \* statement types
  MaxOutputs,   \* bound: output columns of a statement
  MaxInputs,    \* bound: parameters of a statement
  BufLen,       \* numbers of items that the server's buffer may hold
  Wide,         \* tags of the items that are too long for the buffer's last place
  NoneCharset,  \* WireConnection.noneCharsetID
  maxSQLDescribeColumns

Charset == {"NONE", "UTF8"}
Section == {"select", "bind"}

ASSUME DescribeAssumption ==
  /\ None \notin Query
  /\ MaxOutputs \in Nat /\ MaxInputs \in Nat
  /\ BufLen \subseteq Nat
  /\ NoneCharset \in Charset
  /\ maxSQLDescribeColumns \in Nat
  /\ MaxOutputs <= maxSQLDescribeColumns /\ MaxInputs <= maxSQLDescribeColumns

VARIABLES
  bufLen,   \* how many items fit in the server's buffer
  cache,    \* the slot of descCache the statements share
  call      \* the method in progress and what it knows of its statement

vars == <<bufLen, cache, call>>

----------------------------------------------------------------------------
(* Columns and describe buffers *)

\* A column as the server knows it; for a BLOB the sub-type is no character set.
Column == {[typ |-> "text", sub |-> cs] : cs \in Charset}
            \cup {[typ |-> "blob", sub |-> "NONE"]}

UpTo(n) == UNION {[1..k -> Column] : k \in 0..n}

\* What the server knows of a prepared statement.
Meta == [typ: StmtType, select: UpTo(MaxOutputs), bind: UpTo(MaxInputs)]

\* ColumnDescriptor; its zero value is what a new element holds.
Zero == [typ |-> "zero", sub |-> "NONE", fromNone |-> FALSE]

Item(tag, v) == [tag |-> tag, v |-> v]

\* One section of a describe: the number of columns, then four items for each
\* column from the one named by sqlda_start on.
describeSection(s, cols, start) ==
  <<Item(s, 0), Item("count", Len(cols))>> \o
  [k \in 1..4 * (IF start <= Len(cols) THEN Len(cols) + 1 - start ELSE 0) |->
     LET i == start + (k - 1) \div 4
     IN CASE k % 4 = 1 -> Item("seq", i)
          [] k % 4 = 2 -> Item("type", cols[i].typ)
          [] k % 4 = 3 -> Item("subType", cols[i].sub)
          [] OTHER     -> Item("end", 0)]

\* The items asked for: all of them, or without the outputs for Exec.
\* next gives the sqlda_start of each section.
describeItems(fn, m, next) ==
  <<Item("stmtType", m.typ)>>
    \o (IF fn = "exec" THEN <<>> ELSE describeSection("select", m.select, next.select))
    \o describeSection("bind", m.bind, next.bind)

\* How many of the items the server writes before it gives up: a long one may
\* not fit where a short one would.  If Wide is empty every cut buffer is
\* equally long.
cutAt(all) == IF bufLen > 0 /\ all[bufLen].tag \in Wide THEN bufLen - 1 ELSE bufLen

\* The buffer the server fills, ended by isc_info_end; what does not fit is
\* replaced by isc_info_truncated.
answer(fn, m, next) ==
  LET all == describeItems(fn, m, next)
  IN IF Len(all) <= bufLen THEN Append(all, Item("infoEnd", 0))
     ELSE Append(SubSeq(all, 1, cutAt(all)), Item("truncated", 0))

isTruncated(info) == info[Len(info)].tag = "truncated"

----------------------------------------------------------------------------
(* parseSQLDescribeChunk *)

\* describeState
State0 == [stmtType |-> None, descs |-> [s \in Section |-> <<>>],
           num |-> [s \in Section |-> 0], done |-> [s \in Section |-> 0]]

describeCount(v) == IF v > maxSQLDescribeColumns THEN 0 ELSE v

\* The list, extended with zero descriptors up to n.
grow(list, n) == list \o [i \in 1..(IF n > Len(list) THEN n - Len(list) ELSE 0) |-> Zero]

\* isc_info_sql_describe_end: only now does the descriptor count as done.
descriptorEnd(p) ==
  [p EXCEPT !.cur = 0, !.st.done[p.list] = IF p.cur # 0 THEN @ + 1 ELSE @]

\* isc_info_sql_sqlda_seq selects the descriptor that the next items are about.
descriptorSeq(p, v) ==
  LET n == describeCount(v)
      total == p.st.num[p.list]
  IN IF n = 0 \/ (total > 0 /\ n > total) THEN [p EXCEPT !.cur = 0]
     ELSE [p EXCEPT !.cur = n, !.st.descs[p.list] = grow(@, n)]

\* One item.  p.list is the section, p.cur the current descriptor, 0 if none.
\* The server sends a section's marker before its items.
parseItem(p, it) ==
  CASE it.tag = "stmtType" -> [p EXCEPT !.st.stmtType = it.v]
    [] it.tag \in Section  -> [p EXCEPT !.list = it.tag, !.cur = 0]
    [] it.tag = "count"    -> [p EXCEPT !.st.num[p.list] = describeCount(it.v)]
    [] it.tag = "seq"      -> descriptorSeq(p, it.v)
    [] it.tag = "type"     -> IF p.cur = 0 THEN p
                              ELSE [p EXCEPT !.st.descs[p.list][p.cur].typ = it.v]
    [] it.tag = "subType"  -> IF p.cur = 0 THEN p
                              ELSE [p EXCEPT !.st.descs[p.list][p.cur].sub = it.v]
    [] it.tag = "end"      -> descriptorEnd(p)
    [] OTHER               -> p      \* isc_info_end, isc_info_truncated

\* (Choosing from a singleton makes TLC evaluate each intermediate state once.)
parseSQLDescribeChunk(items, st) ==
  LET p[i \in 0..Len(items)] ==
        IF i = 0 THEN [st |-> st, list |-> "select", cur |-> 0]
        ELSE CHOOSE next \in {parseItem(prev, items[i]) : prev \in {p[i - 1]}} : TRUE
  IN p[Len(items)].st

----------------------------------------------------------------------------
(* CompleteSQLDescribe and the cache *)

\* Mutant of applyNoneCharset: what the database declares is forgotten.
forgetNone(d) == IF d.sub = "NONE" /\ d.typ = "text" THEN [d EXCEPT !.sub = NoneCharset] ELSE d

\* Text declared NONE is read with the character set configured for it.
applyNoneCharset(d) ==
  IF NoneCharset # "NONE" /\ d.sub = "NONE" /\ d.typ = "text"
  THEN [d EXCEPT !.sub = NoneCharset, !.fromNone = TRUE] ELSE d

applyAll(descs) == [i \in DOMAIN descs |-> applyNoneCharset(descs[i])]

\* The next continuation starts after the descriptors that are done.
itemsWithSqldaStart(st) == [s \in Section |-> st.done[s] + 1]

allDone(st) == st.done["select"] + st.done["bind"]

NoEntry == [query |-> None, info |-> <<>>, stmtType |-> None, outputs |-> <<>>, inputs |-> <<>>]

Idle == [fn |-> "none", stage |-> "none"]

\* Mutant of descCacheLookup: the text alone decides.
lookupByText(q, info) == cache.query = q

\* A cached entry is used only if the bytes of the describe are the same.
descCacheLookup(q, info) == cache.query = q /\ cache.info = info

\* The method knows its descriptors: execution can begin.
Described(c, cached, typ, outputs, inputs) ==
  [fn |-> c.fn, stage |-> "described", meta |-> c.meta, info |-> c.info, cached |-> cached,
   stmtType |-> typ, outputs |-> outputs, inputs |-> inputs]

\* The buffers are all parsed: the descriptors go to the caller and, for
\* QueryContext, to the cache together with what the first buffer holds by now.
finish(c, st) ==
  LET outputs == applyAll(st.descs["select"])
      inputs == applyAll(st.descs["bind"])
  IN /\ call' = Described(c, FALSE, st.stmtType, outputs, inputs)
     /\ cache' = IF c.fn # "query" THEN cache
                 ELSE [query |-> c.query, info |-> c.info, stmtType |-> st.stmtType,
                       outputs |-> outputs, inputs |-> inputs]

\* The answer to op_prepare_statement has come.  Only QueryContext looks in the cache.
prepare(fn, q, m) ==
  /\ call = Idle
  /\ \E info \in {answer(fn, m, [s \in Section |-> 1])} :
       \E c \in {[fn |-> fn, stage |-> "continue", query |-> q, meta |-> m, info |-> info,
                  shared |-> TRUE, st |-> parseSQLDescribeChunk(info, State0)]} :
         IF fn = "query" /\ descCacheLookup(q, info)
         THEN call' = Described(c, TRUE, cache.stmtType, cache.outputs, cache.inputs)
              /\ UNCHANGED cache
         ELSE IF isTruncated(info) THEN call' = c /\ UNCHANGED cache
              ELSE finish(c, c.st)
  /\ UNCHANGED bufLen

PrepareContext(q, m) == prepare("prepare", q, m)
ExecContext(q, m) == prepare("exec", q, m)
QueryContext(q, m) == prepare("query", q, m)

\* Mutant of noProgress: continuations are asked for as long as the buffer is cut.
noProgressNever(st, next) == FALSE

noProgress(st, next) == allDone(next) = allDone(st)

\* The first describe lies in Reader.auxBuf, and an answer that is copied there
\* overwrites the beginning of what the caller still holds.
overwritten(info, a) == [k \in DOMAIN info |-> IF k <= Len(a) THEN a[k] ELSE info[k]]

\* readGenericResponse copies an answer that fits in auxBuf over the one before
\* it, and any other to a new auxBuf, which leaves the first describe alone
\* from then on.  auxBuf is at least as large as the first describe; how much
\* larger depends on the answers of earlier calls.
readGenericResponse(c, a) ==
  {[c EXCEPT !.info = IF c.shared /\ fits THEN overwritten(c.info, a) ELSE c.info,
             !.shared = c.shared /\ fits] :
     fits \in {b \in BOOLEAN : Len(a) <= Len(c.info) => b}}

\* One turn of CompleteSQLDescribe's loop: op_info_sql and its answer.
CompleteSQLDescribe ==
  /\ call.stage = "continue"
  /\ \E a \in {answer(call.fn, call.meta, itemsWithSqldaStart(call.st))} :
       \E st \in {parseSQLDescribeChunk(a, call.st)}, c \in readGenericResponse(call, a) :
         IF ~isTruncated(a) THEN finish(c, st)
         ELSE /\ call' = IF noProgress(call.st, st) THEN [fn |-> call.fn, stage |-> "error"]
                         ELSE [c EXCEPT !.st = st]
              /\ UNCHANGED cache
  /\ UNCHANGED bufLen

\* The round trip fails: nothing is cached.
ContinuationFails ==
  /\ call.stage = "continue"
  /\ call' = [fn |-> call.fn, stage |-> "error"]
  /\ UNCHANGED <<bufLen, cache>>

\* The method goes on with the descriptors, or returns the error.
Return ==
  /\ call.stage \in {"described", "error"}
  /\ call' = Idle
  /\ UNCHANGED <<bufLen, cache>>

Init ==
  /\ bufLen \in BufLen
  /\ cache = NoEntry
  /\ call = Idle

Next ==
  \/ \E q \in Query, m \in Meta : PrepareContext(q, m) \/ ExecContext(q, m) \/ QueryContext(q, m)
  \/ CompleteSQLDescribe \/ ContinuationFails \/ Return

\* The server answers op_info_sql.
Spec == Init /\ [][Next]_vars /\ WF_vars(CompleteSQLDescribe)

----------------------------------------------------------------------------
(* Properties *)

\* What the BLR made from a descriptor asks the server for.
wireColumn(d) == [typ |-> d.typ, sub |-> IF d.fromNone THEN "NONE" ELSE d.sub]

wireColumns(ds) == [i \in DOMAIN ds |-> wireColumn(ds[i])]

Agrees(c) ==
  /\ c.stmtType = c.meta.typ
  /\ wireColumns(c.outputs) = IF c.fn = "exec" THEN <<>> ELSE c.meta.select
  /\ wireColumns(c.inputs) = c.meta.bind

\* CompleteSQLDescribe "keeps requesting continuations until every output
\* column and input parameter descriptor has been received": wherever the
\* buffers were cut, the BLR built from the descriptors agrees with the
\* server, also for text that none_charset reinterprets.
DescribeIsComplete == call.stage = "described" /\ ~call.cached => Agrees(call)

\* Descriptors from the cache are those of the statement just prepared, whatever
\* DDL ran since they were stored and however often its describe was cut: "reusing
\* stale ones would build a BLR that disagrees with the server".  (A describe that
\* was cut must never be found again, since what changed may lie behind the cut.
\* If all cut answers are equally long, the continuations see to that: they
\* overwrite the bytes it is stored with.)
CacheIsFresh == call.stage = "described" /\ call.cached => Agrees(call)

\* Every describe ends: with all descriptors, or with an error if a
\* continuation brings nothing new.
DescribeEnds == (call.stage = "continue") ~> (call.stage # "continue")
=============================================================================
