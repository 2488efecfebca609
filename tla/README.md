# A verification project for go-firebird-driver

TLA+ models of the parts of the driver that keep state and can go wrong in ways
a test hardly reaches: sessions and their transactions, the pipelined
request/answer stream, cancellation, connection set-up, statement descriptors,
blobs, rows and the reader of the socket; and of its pure algorithms, as
operators checked against reference definitions: numbers, dates, texts, message
layout, parameter buffers, SRP and row counts. TLC checks them on small
instances; TLAPS proves the safety of sessions, transactions, durability, handle
pool, handshake, cancellation, request stream, rows, descriptors, blobs and the
reader for every size.

All paths below are relative to the repository (`src/`).

## 1. Inventory

| component | state | operations | interacts with |
| --- | --- | --- | --- |
| `conn` (`connection.go`) | `closed`, `bad`, `activeTx`, `autoTx`, `dirtyAutoTx`, `descCache` | Prepare, Exec, Query, BeginTx, Ping, ResetSession, Close | database/sql's pool above, `WireConnection` below; `mu` is held for a whole method |
| `stmt` (`statement.go`) | handle, type, `closed` | Exec, Query, Close | shares `conn.mu`, `autoTx` and the handle pool |
| `rows` (`rows.go`) | handle, tx handle, `autoFreeStmt`, `commitOnClose`, `hasCursor`, fetch buffer | Next/fetch, Close | outlives the call that made it; commits on Close |
| `transaction` (`transaction.go`) | handle, `done` | Commit, Rollback | clears `conn.activeTx` |
| `WireConnection` (`internal/wire`) | `deferredCount`, `freeHandles`, `lazySend`, reader, writer | one method per request or batch of requests | socket shared with the cancel goroutine through `writeMu` |
| `withCancel` (`connection.go`) | one goroutine per operation | watch the context, send op_cancel, set a read deadline | socket, `writeMu`, the operation that waits for it |
| `ConnectContext` (`handshake.go`), `newConnection` | attempt, SRP client, keys, ciphers | dial, authenticate, encrypt, attach, retry | the server |
| descriptors (`info.go`, `CompleteSQLDescribe`, `descCache`) | `describeState`, one cache slot per hash | parse a buffer, ask for a continuation, look up, store | prepare and op_info_sql; DDL of other connections |
| blobs (`blob.go`) | a blob handle per call | create, put, close, open, get | rows and parameters; pipelined with lazy send |
| `Reader` (`reader.go`, `response.go`, `status.go`) | window `buf`/`start`/`end`, sticky `err`, `auxBuf` | read a field, an answer, a status vector | the socket below, every method of `WireConnection` above |
| `StackWriter`, `Writer`, codecs (`types_*.go`, `blr.go`) | the message under construction, `overflow` | encode parameters, decode rows | parameters and rows; BLR tells the server the layout |
| DSN, DPB, TPB, identification block (`dsn.go`, `dpb.go`, `auth.go`, `transaction.go`) | none | parse, build | configuration of all the above |
| SRP (`auth.go`, `bignum`), ChaCha20's start (`crypt.go`) | client keys | compute the proof and the session key | the handshake |
| row counts (`info.go`, `result.go`) | none | parse isc_info_sql_records | Exec |
| charsets, time zones, messages | tables, a cache of locations | look-ups | codecs, status vectors |

What is hard here: a change asked for by one call becomes durable in another
(`rows.Close`, the next Exec, `BeginTx`); every round trip can fail with a server
error or with a transport error, at which point database/sql may retry; answers
carry no request number; a second goroutine writes to the socket; timers race
with answers. `PROJECT.json` lists each hazard at its line with the properties
that watch it.

## 2. Modules

| module | models | actions |
| --- | --- | --- |
| `FbSession` | `conn`, `stmt`, `rows`, `transaction`, the statement-handle pool, the server's transactions, statements and cursors | a start action per exported method, then one action per round trip |
| `MCFbSession` | `FbSession` for TLC (symmetry) | |
| `FbSession_proofs` | theorems about `FbSession`: types and calls; statement handles; transactions; changes | |
| `FbWire` | pipelined requests, answers, `deferredCount` | one per method start, per answer served and per answer read |
| `MCFbWire` | `FbWire` for TLC: which methods run, which requests fail | |
| `FbCancel` | operation, watcher goroutines, `writeMu`, keystream, socket, server | encrypt and write separately, so that the goroutines interleave in between |
| `FbHandshake` | `newConnection` and `ConnectContext` | one per answer of the server |
| `FbDescribe` | describe buffers, continuations, `applyNoneCharset`, `descCache` | one per prepare and per op_info_sql answer |
| `FbBlob`, `MCFbBlob` | `WriteBlobData` and `ReadBlobData`; the blobs of other programs for TLC | one per answer read |
| `FbRows`, `MCFbRows` | `rows` with the buffers of `FetchRowsReuse`; the results of queries for TLC | one per call up to its first answer, one per answer read |
| `FbCursor` | what `driver.Rows` promises; implemented by `FbRows` | a row, the end, a failure |
| `FbReader`, `MCFbReader` | `Reader`, the fields of answers; the answers of a server for TLC | one per field read, per refill, per piece the socket returns |
| `FbStatus` | the parser of status vectors and what callers see of errors | operators used by `FbReader` |
| `FbAnswers` | what the reading side promises; implemented by `FbReader` | an answer delivered, a break |
| `FbWire_proofs`, `FbCancel_proofs`, `FbHandshake_proofs`, `FbRows_proofs`, `FbDescribe_proofs`, `FbBlob_proofs`, `FbReader_proofs` | theorems about the module each is named after | |
| `FbDecimal`, `FbTemporal`, `FbText`, `FbMessage` | numbers, dates and zones, charsets, layout of messages and rows | operators |
| `FbConfig`, `FbSrp`, `FbCounts` | settings on their way to the server, SRP-6a, row counts | operators |
| `MCFbCodecs` | the operators of the last two lines for TLC | one step that picks an input |

The modules meet where the code does. `FbSession` abstracts what `FbDescribe` and
`FbBlob` detail to one round trip that succeeds or fails (`Describe`, `Params`,
`fetch`); `FbWire` is the stream below all of them, `FbCancel` the second writer on
its socket, and `FbHandshake` ends where `FbSession`, `FbWire` and `FbCancel` begin.

### FbSession

Every exported method locks `conn.mu` at its start and unlocks it at its end, so
two methods never overlap; `call` holds the method in progress, its local
variables and `call.stage`, the round trip being made. Between two round trips
only the network moves (`LinkDrops`). A method that fails its `closed || bad`
check or is given an ended context returns without changing anything and is a
stuttering step. One action covers a round trip and everything the code does
until the next one, error returns included: `Fail(c, s)` is the return with a
server error, `TransportError` the return after `handleErrorLocked` found a
transport error, in whichever round trip.

The data are abstracted to what the properties tell apart. A statement is a
SELECT, a DML statement or a procedure, and asks for at most one *change*. The
server keeps, per transaction, the changes executed and not committed (`pend`);
`committed` is what is durable. `ledger` is a history variable: who asked for a
change and what the caller was told (`ok`, `error`, `retry`).

`Raw = FALSE` is the call discipline of database/sql's pool: the rows of an
auto-commit query and a transaction keep the connection, and a transaction's
rows are closed before it ends; a statement's Close waits until the connection
is not in use, or at least not for rows of the same statement inside a
transaction. `Raw = TRUE` is a pinned `sql.Conn`, on which they
interleave freely. `SelectMayWrite` lets statements described as SELECT change
data (selectable procedures). The session is modelled with lazy send, which all
supported servers negotiate: op_free_statement is written and its answer left
for later, so closing or dropping a handle fails only with the transport.

The commit in `stmt.Close` (`statement.go:46`) is modelled although nothing ever
sets `dirtyAutoTx`: `mustCommitDirty` is never true, that commit is dead code.
`RunsInItsTransaction` relates a statement to the transaction its caller works in:
what was asked for in an explicit transaction is under the handle of that one, what
was asked for in auto-commit mode in no open explicit transaction. It holds in the
pool. On a pinned connection a nested `BeginTx` overwrites `activeTx`,
so that the outer transaction's later statements run in the inner one or in
auto-commit mode: with `Raw = TRUE` TLC finds the property violated.
Two more things the model contains and no property claims: Exec of a SELECT pools
its handle with the cursor open; a prepare that fails leaves an allocated or
pooled handle in nobody's hands.

### FbWire

`lazySend` is chosen in `Init`. `Requests` lists what each method writes before its flush; `ReadsOn` says which
methods read the remaining answers after an error. `consumeDeferred` and
`ReadResponse` read one answer each. An answer remembers which request it belongs
to, for the history variable `mixed` only: the driver does not see it. `framed`
becomes FALSE when a message with an unexpected opcode is left half read; the
model does not continue from there. Reading the rest of a blob, closing it and
every method with one request are `simple` calls. A deferred op_free_statement that
fails shifts the answers of methods that stop at the first error; the methods in
`ReadsOn` survive it. The profiles of `MCFbWire` say which requests may fail.

### FbCancel

Operations follow one another; each has its own context and watcher. Taking a
place in the keystream and writing to the socket are separate steps. The server
may never answer (a lock wait), and it may stop reading at any time, so that a
write blocks. `done` is closed by `stop`; when several cases of a `select` are ready
either may be taken. That the grace timer won the select (`graceEnds`) and that
it sets the deadline (`setReadDeadline`) are separate steps: the operation can
return in between, and the deadline then stays on a connection that is not marked
bad. A flush that blocks holds `writeMu`, on which the watcher then
waits, so an operation is not bounded by its context if the peer stops reading:
`CancelIsBounded` makes this one exception (`stalled`), and without it TLC finds the
operation that never returns.

### FbHandshake

An attempt goes through dial, op_connect, one of three ways of authentication
(challenge in the accept message; a second round of op_cont_auth; already
authenticated), op_crypt if a cipher was selected, and op_attach. The server
chooses its messages; the keys it offers travel in one or several of them and
have been sent at the latest with the last answer of the authentication. Refusing
op_crypt happens in the clear, which the client, already decrypting, cannot
parse. Two things the properties leave out on purpose: the keys in the last
answer of a second round are dropped (`handshake.go:295`), so that Arc4 is used
with a server that offered ChaCha there; and a context without a deadline that is
cancelled does not interrupt a handshake with a silent server, since only a
deadline reaches the socket (`handshake.go:108`).

### FbDescribe

The server fills a buffer with items (statement type, section markers, counts, and
four items per column) and replaces what does not fit by `isc_info_truncated`;
`bufLen` is chosen in `Init`. `parseSQLDescribeChunk` goes through the items one by
one as the code does: a descriptor counts as done at its `describe_end`, and
`itemsWithSqldaStart` asks again for one that was cut. DDL of other connections is
the free choice of the metadata at each prepare; a statement once prepared keeps
its own. Two attributes per column (type, sub-type) stand for all, and they are the
two that `applyNoneCharset` relates. The statements share one slot of the cache,
which is how they can disturb each other; slots do not interact. A continuation
is read into the same `auxBuf` as the buffer that is stored with the descriptors
(`readGenericResponse`), so a describe that was cut is never found again: no stale
descriptors, and no hit either. This depends on how long cut answers are. The server
stops before the first item that does not fit (`cutAt`); items with a tag in `Wide`
are too long for the buffer's last place, so that two cut answers may differ in
length. A
continuation longer than the first answer does not fit into `auxBuf`, is put into a
new buffer, and leaves the stored one intact: the next describe with the same first
buffer is a hit, stale if the columns behind the cut have changed. `CacheIsFresh`
is therefore checked and proved with `Wide = {}`, and TLC finds it violated with
`Wide = {"type", "subType"}`; `DescribeIsComplete` is proved for every `Wide`.

### FbBlob

Bytes are numbered, so that a lost or misplaced one shows. The server keeps
segments, sends any packing of them that fits in the buffer (whole segments, parts
of one, empty ones) and reports the end with the last piece or in an answer of
its own; it may refuse each request. Pipelined, `WriteBlobData` cannot stop after
a refusal: `fail` keeps the error and reads on. A blob whose write failed is
referenced by nothing and is gone with its transaction (`forget`).

### FbRows and FbCursor

The array behind `fetchValues` is one variable, so that a row decoded over an
earlier one shows; `room` and `initialRoom` follow its growth from the inline values
to a whole batch. A `Value` is NULL, a scalar, the identifier of a blob or its
contents. Between two answers of a fetch the context may end and the
transport fail. `RowsAreTheResult` is the refinement `FbRows => FbCursor!Spec`: rows in
order, each with its own values, io.EOF only after the last one, every early end
an error; `FbCursor!Safety` is its part without fairness. A batch the server ends without a row and without end-of-cursor would
be taken for the end (`rows.go:140`); the model's server does not send one.

### FbReader, FbStatus and FbAnswers

Bytes are positions in words, numbers and strings, so a misplaced one is not
mistaken for another. `need` is what the field at hand asks of `ensure`, which
compacts or doubles the window and then reads pieces of any size from the
socket. `auxBuf` is kept between answers as in the code. `DeliversAnswers` is the
refinement `FbReader => FbAnswers!Spec`, in which `Meaning` says what each answer
stands for, independently of the parser: it looks at the positions of the codes and
of the arguments that follow each, and keeps no state; `FbAnswers!Safety` is its part
without fairness. `Regular` is what the server owes: `readStatusVectorSlow` gives a
SQLSTATE after a code of zero to the last entry of the list (`status.go:216`), so a
vector with an error, then a code of zero, then a SQLSTATE would be misread. Servers send a
zero only as the first code. A length out of range sets the sticky
error, which the code does not treat as a transport error: the connection stays in
the pool and every later call on it fails.

### The codecs

`FbDecimal` scales, rounds and formats as `types_numeric.go`, `types_int128.go` and
`types_decfloat.go` do, with integers of 6 to 12 bits in place of 16 to 128; the
reference is rounding half away from zero of the number a text denotes. An INT128
beyond its range is cut to 16 bytes without an error (`types_int128.go:62-78`), which
no property claims away, and an unsigned integer beyond
BIGINT is refused even where an INT128 column would hold it. `FbTemporal` checks
`civilToUnixDays` by stepping a calendar day by day, and times with zones in both
directions. `FbText` has a charset for every branch of `package charset` (passing
bytes through, ASCII, Latin-1, a table of one and of several bytes) and follows a
text from the parameter through the BLR's charset to the column and back; a CHAR
in OCTETS is padded with spaces by the driver. `FbMessage` lays messages out byte
by byte through `StackWriter` and `Writer`. It keeps apart the tables the code keeps
apart: the BLR the driver announces (`appendBLRType`, `appendParamBLRType`, with their
default of a varying string), what a server that follows that BLR sends and expects,
what `DecodeColumn` reads for a type, and what `ColumnTypeScanType` says of it; that
they agree is what `MessagesAreWhole` checks. Its exceptions are a DOUBLE the
stack buffer dropped (run `overflow`) and values that are longer than their BLR
announces (`OutgrowsBLR`): the text of a DECFLOAT, of a type without a case of its
own, and of SQL_NULL. A text BLOB that resolves to NONE has Go type `[]byte` although
`ColumnTypeScanType` says `string`.

### FbConfig, FbSrp, FbCounts

The query of a DSN is a Go map; `OrderIsIrrelevant` compares all orders (two aliases
of one setting in one DSN do depend on the order). `AttachIsAsConfigured` reads the
DPB back as the server does; a role is written under tag 63, which `dpb.go:15` calls
the dialect (the comment of `handshake.go:477` says isc_dpb_sql_role_name), and is
left out of the property, as is `charset=` set to nothing, which is UTF8 for the server and nothing for NONE columns. A misspelt `wire_crypt` is ignored.
In `FbSrp` the server's side is written from SRP-6a; exponents stay below the
modulus as the code's do (`a + u*x` is far below a 1024-bit N), because the code
reduces them modulo N and not modulo the group's order. What the server hashes for a
key that begins with zero bytes, padded or stripped, is not in this code: the model
tries every combination. `KeysAgree` claims agreement with all of them when
neither public key begins with a zero byte, and otherwise only with a server that pads
for the scramble `u` and strips for the proof, as the client does. The comment at
`connection.go:56` reports logins that fail with correct credentials;
`FbHandshake` retries them. An isc_info_sql_records answer that is
cut gives the exact count or 0, without an error.

## 3. Runs

Passing runs:

| run | question | states |
| --- | --- | --- |
| `session_pool` | in the pool, does every statement run in its caller's transaction? is what callers were told what happened to their changes? are handles live, pooled ones exclusive, errors final? | 296 k |
| `session_pinned` | what still holds when everything interleaves on a pinned connection and SELECTs may write? | 552 k |
| `wire` | with and without lazy send: does every answer reach its request, and does every method return, also after a failed deferred op_free_statement? | 28 k |
| `cancel` | keystream order, the target of op_cancel, and whether a cancelled operation returns unless the peer stops reading | 90 k |
| `handshake` | encryption as configured, the preferred cipher, retry of failed logins, bounded by a deadline | 18 k |
| `describe` | are descriptors whole wherever the buffers are cut, is the cache fresh after DDL if cut answers are equally long, does every describe end? | 256 k |
| `blob` | are blobs whole and closed, however they are packed and whatever is refused? | 275 k |
| `rows` | does a rows object implement a cursor? | 32 k |
| `reader` | does the reader implement a queue of answers, however the bytes arrive? | 166 k |
| `codecs` | are numbers, dates, texts, messages, settings, keys and counts what both sides agree on? | 87 k |

Two runs find a disagreement between a comment and the code, each with a finding
that quotes the comment: `wire_errors` (a failed op_allocate_statement leaves an
answer unread) and `overflow` (a DOUBLE that does not fit is dropped without
setting `overflow`).

Further disagreements the models contain, which no property claims away:

* a second `BeginTx` on a pinned connection takes over the statements of the first
  transaction (`connection.go:310`; line 27 says what `activeTx` stands for);
  `RunsInItsTransaction` is violated with `Raw = TRUE` and two transaction objects;
* a cancelled operation hangs if the peer stops reading (`database.go:102`;
  `COMPATIBILITY.md:114` says that it "never hangs forever"); `CancelIsBounded`
  without `stalled` is violated;
* a describe that was cut can be found in the cache by its first buffer alone
  (`connection.go:485`, `response.go:40`); `CacheIsFresh` is violated if `Wide` is not
  empty;
* the role of a DSN is sent under the tag of the dialect (`handshake.go:477`);
* what a SELECT changes in auto-commit mode is not committed by closing its rows
  (`connection.go:560`), which is why `session_pool` sets `SelectMayWrite = FALSE`;
* an ad-hoc query inside a transaction leaves its handle with nobody
  (`connection.go:558`);
* the grace timer can leave a read deadline in the past on a live connection
  (`connection.go:778`).

Bounds. Two transaction handles let an abandoned transaction coexist with its
successor, and exhausting them is an error answer. `session_pool` has two
changes, two rows objects, two statement handles and a pool of one, so that the
pool is empty, in use and full; `session_pinned` has two transaction objects for
nesting and one statement handle. `FbWire` allows three unread answers, enough
for an error before, at and after each position, and batches of two rows. `FbCancel` has three
operations of up to two round trips: a late op_cancel needs two operations, a
third shows what its watcher does to a later one. `FbHandshake` is bounded by
`maxConnRetries = 3` itself. `describe` has two columns and a parameter of three
kinds and buffers that hold nothing of a column, cut one in its middle, need
several continuations, or hold everything; two queries
compete for a slot of the cache; its statements stay below
`maxSQLDescribeColumns` (above it the code drops columns silently). `blob` writes up to
five bytes in segments of two, so that the last one is full, short or missing, and
reads through a buffer of five bytes, two of them a length, so that segments of
other programs are cut. `rows` has results of up to seven rows and batches of one,
three and five, with room for one row and then two at first: buffers are reused,
grown once and twice, and left short. `reader` has words of two bytes and a window of
seven, so that fields straddle its end, it is compacted, and it grows; pieces are
of one, three and all bytes. `codecs` has one state per input; small widths (bytes
of 32 values, bitmaps of 2 bits per byte, a stack of 40 bytes, a modulus of 47)
bring every limit within reach: two-byte lengths, several bitmap bytes, full
stacks, keys with leading zeros. In `FbSession` handles, objects and changes are
symmetric. Deadlock is not checked: a session, a connection, a handshake and a
result end.

Fairness. `FbSession` has none: its properties are safety properties.
`FbWire`: the server answers and a read with an answer available returns.
`FbCancel`: the runtime schedules both goroutines and the timer fires; the server
owes nothing. `FbHandshake`: the dialer returns and timers fire; the server may
stay silent. `FbDescribe`, `FbBlob`: the server answers (or the call fails).
`FbRows`: the caller keeps calling Next and the server answers or fails. `FbReader`:
the driver runs and bytes that were sent arrive.

Each property of a passing run has a mutant, an operator defined next to the
code it mutates (`commitOnCloseNever`, `joinAtOnce`, ...), that makes TLC find
the property violated.

## 4. Proofs

The theorems hold for every value of the constants that the named assumptions of
the modules allow: any number of handles, objects, changes, operations, columns,
rows and attempts. Each safety theorem rests on an inductive invariant that TLC
checked first on the run of its module. A step's proof is one lemma per action;
where many actions share a shape, a lemma carries the shape.

| module | inductive invariant | states the run properties |
| --- | --- | --- |
| `FbSession_proofs`, session | `SessionInv` | `TypeOK`, `CallsAreConsistent`, `BadIsDisconnected`, `DeadStaysDead` |
| transactions | `TxInv` | `HandlesAreLive`, `RetryIsSafe` |
| durability | `DurInv` | `AckedIsDurable`, `OnlyCommitCommits`, `AutoTxIsClean`, `ErrorIsFinal`, `RunsInItsTransaction` |
| handle pool | `PoolInv` | `PoolIsExclusive` |
| `FbHandshake_proofs` | `HandshakeInv` | `CryptAsConfigured`, `PreferredCipher`, `LoginIsRetried` |
| `FbCancel_proofs` | `CancelInv` | `KeystreamInOrder`, `CancelHitsItsOperation` |
| `FbWire_proofs` | `WireInv` | `InSync`, `AnswersMatch` |
| `FbRows_proofs` | `RowsInv` | the safety part of `RowsAreTheResult` |
| `FbDescribe_proofs` | `DescribeInv` | `DescribeIsComplete`, and `CacheIsFresh` if `Wide = {}` |
| `FbBlob_proofs` | `BlobInv` | `WrittenIsWhole`, `ReadIsWhole`, `NoBlobLeftOpen` |
| `FbReader_proofs` | `ReaderInv` | `Framed`, and the safety part of `DeliversAnswers` |

**Session.** That there is an explicit transaction or one for auto-commit and never both
(`OneTransaction`, a clause of the invariant) is not inductive by itself: `getAutoTx` sets `autoTx` in a later
step than the one that found `activeTx` empty, and `startTx` sets `activeTx` after
`commitAutoTx` ended the other. `SessionInv` adds `CallsAreConsistent`: a call in
auto-commit mode runs with no explicit transaction, BeginTx reaches
op_transaction only without an auto-commit transaction, calls past their prepare
and open objects hold a handle (otherwise `None` could enter the pool), and a
connection that is closed or bad has no server side. `DeadStaysDead` follows
because no step without a link commits and no step resets `closed` or `bad`.

**Transactions.** `TxInv` adds that every transaction handle somebody still counts on
(`autoTx`, an open transaction object) is open on the server and has one owner, that
a method works on the transaction its caller means, and that a change that was
not asked for or not run is nowhere. Every action is first reduced to its
*outcome* (lemmas `StatementOutcomes`, `TxOutcomes`, `ObjectOutcomes`, `PingOutcomes`,
`EndOutcomes`): what it does to the connection, the call, the server's transactions
and the ledger. The invariants of this part and of the next are then proved once per
kind of outcome. Both call disciplines are covered.

**Durability.** `DurInv` says where each change is on its way from its statement
through a transaction to the database, and who is in charge of committing it: the
call that is about to commit retaining, or the rows that commit on Close. These
five theorems assume `~Raw` and `~SelectMayWrite`, as the run `session_pool` does:
database/sql gives a pooled connection to one user at a time, and the
driver does not commit what a selectable procedure changed (see section 3). On a
pinned connection TLC finds `AckedIsDurable`, `OnlyCommitCommits` and
`ErrorIsFinal` violated; with SELECTs that write, `AckedIsDurable` and `AutoTxIsClean`.
TLC finds no violation of `OnlyCommitCommits` and `ErrorIsFinal` with SELECTs that
write in the pool; their proofs share `DurInv` and do not cover it. `AckedIsDurable` needs `OnlyCommitCommits`
and `UsersInv` (one user at a time), because an error of one statement
abandons the auto-commit transaction that another might rely on.

**Handle pool.** `PoolInv`: each statement handle has one owner among pool, stmt
objects, rows that free their handle, and the method in progress. It assumes
`~Raw`, without which TLC finds `PoolIsExclusive` violated. Its proof showed that the model let `stmt.Close` run while a result of the
same statement was being read; database/sql holds such a Close back
until the connection is released, and so does `StmtClose` now.

**Handshake.** `HandshakeInv` says, for each point of an attempt, what cipher each side
uses and which keys the client has seen. That a session key exists only after a
challenge is what rules out encrypting before the last keys are known.

**Cancellation.** `CancelInv`: who is between Lock and Unlock of `writeMu` has
encrypted for the position the server expects next; a watcher other than the one
of the operation in progress has finished; what follows a request on the socket
is about the same operation.

**Request/answer stream.** An answer does not say which request it is for. `WireInv`
gives every unread message the number of requests still to be answered when
it is read (`Places`). Counted from the end of the queue, this number does not change
when messages in front are read, only new requests shift it. The theorems assume
`Handles(p)` of every profile: op_allocate_statement does not fail (that it may
is the finding of `wire_errors`, in which `AnswersMatch` is violated), and where
op_free_statement may fail, the methods in use expect one op_response per request
and read all of them. In that case answers are no longer with their requests, and
the invariant only counts them (`Counted`). The profiles of the run `wire` are of
this kind.

**Rows.** `RowsInv`: what was handed out, then what is left in the buffer, then the
batch on its way are consecutive rows of the result; the batch is first as
received and, up to `done`, with blobs replaced. Lemmas about the buffers (`rowAt` of an
array that was appended to, overwritten or grown) carry it. `RowsRefineCursor`
shows step by step that `FbRows` implements `FbCursor!Safety`, for any result and any
buffer sizes.

**Contents.** What blobs, descriptors and answers hold is defined by recursion over
sequences (`Content`, `unpackSegments`, the parser's fold, `Concat`). The library's
induction rules take an operator as a parameter, which the provers do not
instantiate; instead every induction here is a least counterexample: a set of
natural numbers that is not empty has a least element (`LeastNat`, from
`NatLessThanWellFounded` and `WFMin`), and a recursive function exists because one
that is defined up to n extends to n + 1.

**Descriptors.** The proof follows `parseSQLDescribeChunk` through the items of a
section: after k of them, k \div 4 descriptors are done and one may be begun
(`Walk`). `DescribeInv` says that what was read is a beginning of both sections
(`ContinueInv`), so that a continuation asked for from the first descriptor that is
not done completes it, whatever the lengths of the items. If `Wide = {}` it also says
what an entry of the cache can be (`CacheSound`): what one whole buffer says, or
something stored under bytes that no first buffer has, because a continuation
overwrote them. Without the second case `CacheIsFresh` is not inductive. That a
continuation does overwrite them needs that every cut answer has the length of the
first (`CutFirst`), which is where `Wide = {}` is used.

**Blobs.** `BlobInv`: the stored segments followed by what is still to be sent are the
value (`IsWritten`), what was read followed by what is left is the blob (`IsRead`), and
a blob is open only for the method in progress. That `unpackSegments` finds the
pieces the server packed, whatever their lengths, is an induction over the buffer
from its end (`UnpackedExists` and what follows it).

**Reader.** `ReaderInv` names the place in the stream: the unread bytes of the window and
those still in the socket are what is left of the answer at the field that is read
next, followed by the answers after it (`Position`). `ensure` and the socket move
bytes without changing that sequence (`EnsureKeeps`, `SocketKeeps`); a method takes
its field from the front (`Take`). The fast path needs that a vector which begins with
the three words of success is that vector (`SuccessIsWhole`), and the length of a buffer
that `fixup` undoes the sign extension of an old server and nothing else
(`FixupMeans`). `ScriptsAssumption` says what a server may send: any answers of the
three kinds, with vectors of any tags, and lengths that are not themselves of the
form of a sign-extended one.

`AnswersAreDelivered` shows that `FbReader` implements `FbAnswers!Safety`: the callers
are told what the server meant, and nothing else. For this `ReaderInv` also says what the
message so far holds: the fields already read (`Holds`), the copy of the data in
`auxBuf`, which may be longer than the data, and that the parser has understood the
first k items of the vector (`Understood`): its two lists are the `entries` of those
items, and `cur` and `isWarning` say to which entry the next one belongs (`Pending`).
`ItemUnderstood` is the induction step, one case per kind of item: a code opens an entry
(`CodeUnderstood`), an argument or a SQLSTATE goes to the entry that is open
(`EntryOpen`), or to none (`NothingOpen`); the last uses `RegularAssumption`. Each
step is then a `GoodStep`: it keeps the invariant and tells its caller nothing, or the
meaning of the next answer.

Only model-checked:

* liveness under fairness, which is out of the prover's reach: `CallsReturn`,
  `CancelIsBounded`, `ConnectHonoursContext`, `DescribeEnds`, `BlobCallsReturn`, and
  the fairness of the abstract specifications in `RowsAreTheResult` and
  `DeliversAnswers`;
* the pure algorithms (`codecs`): conversions with a reference definition each, for
  which the instance already meets every limit of the code; their state machine only
  picks an input.

## 5. Plan

Done: all components of section 1 that keep state, the pure algorithms, and the proofs
above. Next:

1. Proofs: `OnlyCommitCommits` and `ErrorIsFinal` without `~SelectMayWrite`.
2. An abstract auto-commit service (each change is asked for, then decided once)
   that `FbSession` refines, and an abstract blob store that `FbBlob` refines.

## 6. Not modelled

The ciphers and hashes themselves (library code; a mixing function stands for the
hash), the contents of the charset, time-zone and message tables (parameters of
the models), binary floating point (one opaque value), `url.Parse`, and the
programs around the driver: the generator of the message table, the soak test and
the benchmarks. `PROJECT.json` lists every component with its status.
