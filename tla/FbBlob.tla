------------------------------- MODULE FbBlob -------------------------------
(***************************************************************************)
(* Blobs on one connection: WriteBlobData and ReadBlobData of              *)
(* internal/wire/blob.go, pipelined when lazy send was negotiated and one  *)
(* request at a time otherwise, against a server that stores segments,     *)
(* packs them into its answers as it likes and may refuse any request.     *)
(*                                                                         *)
(* One action is one answer read.  Which answer belongs to which request   *)
(* is the subject of FbWire; here every answer finds its request.          *)
(***************************************************************************)
EXTENDS Naturals, Sequences, FiniteSets

CONSTANTS
  None,
  Blob,          \* blobs (the identifier and the handle are the same here)
  MaxLength,     \* bound: bytes of a value that is written
  Foreign,       \* segment lengths of blobs that other programs wrote
  maxSegment,    \* longest segment WriteBlobData sends
  maxGetLen,     \* length of the buffer for segments
  MayRefuse      \* requests that the server may answer with an error

Requests == {"create", "put", "cancel", "open", "get", "close"}

ASSUME BlobAssumption ==
  /\ None \notin Blob
  /\ MaxLength \in Nat
  /\ Foreign \subseteq Seq(Nat)
  /\ maxSegment \in Nat \ {0}
  /\ maxGetLen \in Nat /\ maxGetLen > 2
  /\ MayRefuse \subseteq Requests

VARIABLES
  lazySend,   \* WireConnection.lazySend
  store,      \* the server's blobs
  call,       \* the method in progress or the result of the last one
  kept        \* history: blobs that the server refused to close or cancel

vars == <<lazySend, store, call, kept>>

----------------------------------------------------------------------------
(* Bytes.  The bytes of a value are numbered, so that a lost, doubled or   *)
(* misplaced byte shows.                                                   *)

Value(n) == [i \in 1..n |-> i]

\* All segments of a blob, one after the other.
Content(segs) ==
  LET c[i \in 0..Len(segs)] == IF i = 0 THEN <<>> ELSE c[i - 1] \o segs[i]
  IN c[Len(segs)]

\* Segments of the given lengths.
Cut(lens) ==
  LET upTo[i \in 0..Len(lens)] == IF i = 0 THEN 0 ELSE upTo[i - 1] + lens[i]
  IN [i \in DOMAIN lens |-> [k \in 1..lens[i] |-> upTo[i - 1] + k]]

\* A segment in the server's buffer: two bytes of length, low byte first.
Packed(seg) == <<Len(seg) % 256, Len(seg) \div 256>> \o seg

Pack(segs) == Content([i \in DOMAIN segs |-> Packed(segs[i])])

\* Appends the segments to dst; one that runs over the end is dropped.
unpackSegments(dst, packed) ==
  LET u[off \in 0..Len(packed)] ==
        IF off + 2 > Len(packed) THEN <<>>
        ELSE LET n == packed[off + 1] + 256 * packed[off + 2]
             IN IF off + 2 + n > Len(packed) THEN <<>>
                ELSE SubSeq(packed, off + 3, off + 2 + n) \o u[off + 2 + n]
  IN dst \o u[0]

----------------------------------------------------------------------------
(* The server *)

Free == [st |-> "free", segs |-> <<>>, rest |-> <<>>]

\* The pieces that can be sent next: whole segments and at most one part of the
\* segment after them, together within the buffer.
Pieces(rest) ==
  {p \in UNION {{SubSeq(rest, 1, n)} \cup
                (IF n = Len(rest) THEN {}
                 ELSE {Append(SubSeq(rest, 1, n), SubSeq(rest[n + 1], 1, f)) :
                         f \in 1..Len(rest[n + 1]) - 1}) : n \in 0..Len(rest)} :
     /\ Len(Pack(p)) <= maxGetLen
     /\ rest # <<>> => p # <<>>}

\* What remains after the pieces p were sent.
After(rest, p) ==
  LET n == Len(p)
  IN IF n = 0 \/ Len(p[n]) = Len(rest[n]) THEN SubSeq(rest, n + 1, Len(rest))
     ELSE <<SubSeq(rest[n], Len(p[n]) + 1, Len(rest[n]))>> \o SubSeq(rest, n + 1, Len(rest))

Refused(req) == req \in MayRefuse

----------------------------------------------------------------------------
(* The method in progress *)

Idle == [op |-> "none", stage |-> "none", id |-> None, data |-> <<>>, todo |-> <<>>,
         err |-> FALSE]

At(op, stage) == call.op = op /\ call.stage = stage

\* The method returns; the result stays in call until the next one.
Return(c) == [c EXCEPT !.stage = "done"]

----------------------------------------------------------------------------
(* WriteBlobData *)

WriteBlobData(n) ==
  /\ call.stage \in {"none", "done"}
  /\ call' = [Idle EXCEPT !.op = "write", !.stage = "create", !.data = Value(n), !.todo = Value(n)]
  /\ UNCHANGED <<lazySend, store, kept>>

\* After the segments comes op_close_blob.
nextPut(c) == [c EXCEPT !.stage = IF c.todo = <<>> THEN "close" ELSE "put"]

\* Mutant of fail: the blob is not cancelled.
failOnly(c, cleanup) == IF lazySend THEN nextPut([c EXCEPT !.err = TRUE])
                        ELSE [c EXCEPT !.err = TRUE, !.stage = "done"]

\* A request fails.  Pipelined, the requests after it have been sent already and
\* their answers are read; otherwise the method cleans up and returns.
fail(c, cleanup) == IF lazySend THEN nextPut([c EXCEPT !.err = TRUE])
                    ELSE [c EXCEPT !.err = TRUE, !.stage = cleanup]

created ==
  /\ At("write", "create")
  /\ \/ \E b \in Blob :
          /\ store[b].st = "free"
          /\ store' = [store EXCEPT ![b] = [Free EXCEPT !.st = "open"]]
          /\ call' = nextPut([call EXCEPT !.id = b])
     \/ /\ Refused("create")
        /\ call' = fail(call, "done")
        /\ UNCHANGED store
  /\ UNCHANGED <<lazySend, kept>>

\* The next segment of the data.
segment(data) == SubSeq(data, 1, IF Len(data) > maxSegment THEN maxSegment ELSE Len(data))

\* The data that is left once the segment is written.
remaining(data) == SubSeq(data, Len(segment(data)) + 1, Len(data))

\* Mutant of put: a refused segment is taken for written.
putUnchecked ==
  /\ At("write", "put")
  /\ call' = nextPut([call EXCEPT !.todo = remaining(call.todo)])
  /\ \/ /\ call.id # None
        /\ store' = [store EXCEPT ![call.id].segs = Append(@, segment(call.todo))]
     \/ /\ Refused("put") \/ call.id = None
        /\ UNCHANGED store
  /\ UNCHANGED <<lazySend, kept>>

\* op_put_segment.  Without a blob (op_create_blob2 failed) it cannot succeed.
put ==
  /\ At("write", "put")
  /\ LET c == [call EXCEPT !.todo = remaining(call.todo)]
     IN \/ /\ call.id # None
           /\ store' = [store EXCEPT ![call.id].segs = Append(@, segment(call.todo))]
           /\ call' = nextPut(c)
        \/ /\ Refused("put") \/ call.id = None
           /\ call' = fail(c, "cancel")
           /\ UNCHANGED store
  /\ UNCHANGED <<lazySend, kept>>

\* The blob is in nobody's hands: the server forgets it with the transaction.
forget(b) == [store EXCEPT ![b] = Free]

\* CancelBlob after a refused segment; its own error is ignored.
cancelled ==
  /\ At("write", "cancel")
  /\ call' = Return(call)
  /\ \/ store' = forget(call.id) /\ UNCHANGED kept
     \/ Refused("cancel") /\ kept' = kept \cup {call.id} /\ UNCHANGED store
  /\ UNCHANGED lazySend

\* op_close_blob ends a write.
closedWrite ==
  /\ At("write", "close")
  /\ \/ /\ call.id # None
        /\ store' = IF call.err THEN forget(call.id) ELSE [store EXCEPT ![call.id].st = "closed"]
        /\ call' = Return(call)
        /\ UNCHANGED kept
     \/ /\ Refused("close") \/ call.id = None
        /\ call' = Return([call EXCEPT !.err = TRUE])
        /\ kept' = kept \cup ({call.id} \ {None})
        /\ UNCHANGED store
  /\ UNCHANGED lazySend

----------------------------------------------------------------------------
(* ReadBlobData *)

ReadBlobData(b) ==
  /\ call.stage \in {"none", "done"}
  /\ store[b].st = "closed"
  /\ call' = [Idle EXCEPT !.op = "read", !.stage = "open", !.id = b]
  /\ UNCHANGED <<lazySend, store, kept>>

\* Pipelined, the answer to the first op_get_segment follows even a refusal.
opened ==
  /\ At("read", "open")
  /\ \/ /\ store' = [store EXCEPT ![call.id].st = "reading", ![call.id].rest = store[call.id].segs]
        /\ call' = [call EXCEPT !.stage = "get"]
     \/ /\ Refused("open")
        /\ call' = [call EXCEPT !.err = TRUE, !.stage = IF lazySend THEN "skip" ELSE "done"]
        /\ UNCHANGED store
  /\ UNCHANGED <<lazySend, kept>>

skip ==
  /\ At("read", "skip")
  /\ call' = Return(call)
  /\ UNCHANGED <<lazySend, store, kept>>

\* The loop of ReadBlobData ends with status 2; then the blob is closed.
afterSegments(eof) == IF eof THEN "close" ELSE "get"

\* Mutant of got: the first buffer is taken for the whole blob.
gotOnce ==
  /\ At("read", "get")
  /\ \E p \in Pieces(store[call.id].rest) :
       /\ store' = [store EXCEPT ![call.id].rest = After(@, p)]
       /\ call' = [call EXCEPT !.data = unpackSegments(@, Pack(p)), !.stage = "close"]
  /\ UNCHANGED <<lazySend, kept>>

\* Mutant of got: the end of the blob is not noticed.
gotForever ==
  /\ At("read", "get")
  /\ \E p \in Pieces(store[call.id].rest) :
       /\ store' = [store EXCEPT ![call.id].rest = After(@, p)]
       /\ call' = [call EXCEPT !.data = unpackSegments(@, Pack(p))]
  /\ UNCHANGED <<lazySend, kept>>

\* One answer to op_get_segment: status 2 says that the blob is at its end.  An
\* error closes the blob.
got ==
  /\ At("read", "get")
  /\ \/ \E p \in Pieces(store[call.id].rest), eof \in BOOLEAN :
          /\ eof => After(store[call.id].rest, p) = <<>>
          /\ p = <<>> => eof
          /\ store' = [store EXCEPT ![call.id].rest = After(@, p)]
          /\ call' = [call EXCEPT !.data = unpackSegments(@, Pack(p)),
                                  !.stage = afterSegments(eof)]
     \/ /\ Refused("get")
        /\ call' = [call EXCEPT !.err = TRUE, !.stage = "close"]
        /\ UNCHANGED store
  /\ UNCHANGED <<lazySend, kept>>

\* op_close_blob ends a read.
closedRead ==
  /\ At("read", "close")
  /\ \/ /\ store' = [store EXCEPT ![call.id].st = "closed", ![call.id].rest = <<>>]
        /\ call' = Return(call)
        /\ UNCHANGED kept
     \/ /\ Refused("close")
        /\ call' = Return([call EXCEPT !.err = TRUE])
        /\ kept' = kept \cup {call.id}
        /\ UNCHANGED store
  /\ UNCHANGED lazySend

Init ==
  /\ lazySend \in BOOLEAN
  /\ \E foreign \in [Blob -> Foreign \cup {None}] :
       store = [b \in Blob |-> IF foreign[b] = None THEN Free
                               ELSE [Free EXCEPT !.st = "closed", !.segs = Cut(foreign[b])]]
  /\ call = Idle
  /\ kept = {}

Steps ==
  created \/ put \/ cancelled \/ closedWrite \/ opened \/ skip \/ got \/ closedRead

Next ==
  \/ \E n \in 0..MaxLength : WriteBlobData(n)
  \/ \E b \in Blob : ReadBlobData(b)
  \/ Steps

\* The server answers.
Spec == Init /\ [][Next]_vars /\ WF_vars(Steps)

----------------------------------------------------------------------------
(* Properties *)

Succeeded(op) == call.op = op /\ call.stage = "done" /\ ~call.err

\* WriteBlobData returns a blob only if it holds exactly the bytes it was given:
\* also when segments after a refused one were sent in the same flush.
WrittenIsWhole ==
  Succeeded("write") =>
    store[call.id].st = "closed" /\ Content(store[call.id].segs) = call.data

\* ReadBlobData returns all bytes of the blob in order, however the server cuts
\* and packs the segments and wherever it reports the end.
ReadIsWhole == Succeeded("read") => call.data = Content(store[call.id].segs)

\* No method leaves a blob open on the server that could have been closed.
NoBlobLeftOpen ==
  call.stage = "done" => \A b \in Blob \ kept : store[b].st \in {"free", "closed"}

\* Every method returns.
BlobCallsReturn == (call.stage \notin {"none", "done"}) ~> (call.stage = "done")
=============================================================================
