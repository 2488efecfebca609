----------------------------- MODULE FbMessage ------------------------------
(***************************************************************************)
(* The messages of op_execute and op_fetch: the null bitmap and the values *)
(* laid out by type, parameters through the fixed buffer of a StackWriter  *)
(* with a pooled Writer to fall back on, and rows.                         *)
(*                                                                         *)
(* The driver has four tables of the types: what it announces to the       *)
(* server (BLR), what it writes for a parameter, what it estimates for it, *)
(* and what it reads of a row.  Where two of them disagree, all that       *)
(* follows on the connection is misread.  A byte is the k-th byte of value *)
(* i, of a length, of a bitmap, or padding.                                *)
(***************************************************************************)
EXTENDS Integers, Sequences, SequencesExt

CONSTANTS
  StackSize,    \* bytes of a StackWriter: 1024
  BitsPerByte,  \* 8; fewer let a small message need several bitmap bytes
  DecLength     \* lengths announced for DECFLOAT parameters: dec16 64, dec34 128

ASSUME MessageAssumption ==
  /\ StackSize \in Nat /\ BitsPerByte \in Nat \ {0}
  /\ DecLength \in [{"dec16", "dec34"} -> Nat]

----------------------------------------------------------------------------
(* Layout *)

\* The types of one fixed size, by the words encodeValue writes for them.
Fixed ==
  [short |-> <<4>>, long |-> <<4>>, float |-> <<4>>, boolean |-> <<4>>,
   date |-> <<4>>, time |-> <<4>>, timestamp |-> <<4, 4>>,
   int64 |-> <<8>>, blob |-> <<8>>, double |-> <<8>>,
   timeTZ |-> <<4, 4, 4>>, timestampTZ |-> <<4, 4, 4, 4>>, int128 |-> <<16>>]

\* null is SQL_NULL, the type of the parameter in "? IS NULL"; other is a type
\* that the driver does not know.
Type == DOMAIN Fixed \cup {"text", "varying", "dec16", "dec34", "null", "other"}

pad(l) == (4 - l) % 4
SumOf(words) == FoldLeft(LAMBDA acc, w : acc + w, 0, words)

\* The type codes of the BLR; those of texts come with a length.
BlrCode ==
  [short |-> "blr_short", long |-> "blr_long", int64 |-> "blr_int64", int128 |-> "blr_int128",
   float |-> "blr_float", double |-> "blr_double", boolean |-> "blr_bool",
   date |-> "blr_sql_date", time |-> "blr_sql_time", timestamp |-> "blr_timestamp",
   timeTZ |-> "blr_ex_time_tz", timestampTZ |-> "blr_ex_timestamp_tz",
   dec16 |-> "blr_dec64", dec34 |-> "blr_dec128", blob |-> "blr_blob2"]

\* appendBLRType: what the driver announces for a column; an unknown type is
\* announced as varying.
appendBLRType(desc) ==
  CASE desc.typ \in DOMAIN BlrCode -> [blr |-> BlrCode[desc.typ], length |-> 0]
    [] desc.typ = "text"           -> [blr |-> "blr_text2", length |-> desc.length]
    [] desc.typ = "null"           -> [blr |-> "blr_text", length |-> 0]
    [] OTHER                       -> [blr |-> "blr_varying2", length |-> desc.length]

\* appendParamBLRType: a DECFLOAT parameter is announced as a text.
appendParamBLRType(desc) ==
  IF desc.typ \in DOMAIN DecLength
  THEN [blr |-> "blr_varying2", length |-> DecLength[desc.typ]]
  ELSE appendBLRType(desc)

\* The bytes a peer that goes by the BLR expects: so many, or a count and as
\* many as it says, up to the length announced.
SrvWords ==
  [blr_short |-> 4, blr_long |-> 4, blr_int64 |-> 8, blr_int128 |-> 16, blr_float |-> 4,
   blr_double |-> 8, blr_bool |-> 4, blr_sql_date |-> 4, blr_sql_time |-> 4,
   blr_timestamp |-> 8, blr_ex_time_tz |-> 12, blr_ex_timestamp_tz |-> 16,
   blr_dec64 |-> 8, blr_dec128 |-> 16, blr_blob2 |-> 8]

srvLayout(b) ==
  CASE b.blr \in DOMAIN SrvWords -> [counted |-> FALSE, size |-> SrvWords[b.blr]]
    [] b.blr = "blr_varying2"    -> [counted |-> TRUE, size |-> b.length]
    [] OTHER                     -> [counted |-> FALSE, size |-> b.length + pad(b.length)]

\* DecodeColumn goes by the descriptor: the words it reads for each type, and a
\* counted text for VARCHAR and for every type it does not know, SQL_NULL too.
ReadWords ==
  [short |-> <<4>>, long |-> <<4>>, int64 |-> <<8>>, float |-> <<4>>, double |-> <<8>>,
   boolean |-> <<4>>, date |-> <<4>>, time |-> <<4>>, timestamp |-> <<4, 4>>,
   timeTZ |-> <<4, 4, 4>>, timestampTZ |-> <<4, 4, 4, 4>>, blob |-> <<8>>,
   dec16 |-> <<8>>, dec34 |-> <<16>>, int128 |-> <<16>>]

\* Mutant of decodeLayout: the offset that follows an extended time zone is forgotten.
decodeLayoutPlainTZ(desc) ==
  CASE desc.typ \in {"timeTZ", "timestampTZ"} ->
         [counted |-> FALSE, size |-> SumOf(ReadWords[desc.typ]) - 4]
    [] desc.typ \in DOMAIN ReadWords -> [counted |-> FALSE, size |-> SumOf(ReadWords[desc.typ])]
    [] desc.typ = "text" -> [counted |-> FALSE, size |-> desc.length + pad(desc.length)]
    [] OTHER             -> [counted |-> TRUE, size |-> -1]

\* A size of -1: as many bytes as the count says.
decodeLayout(desc) ==
  CASE desc.typ \in DOMAIN ReadWords -> [counted |-> FALSE, size |-> SumOf(ReadWords[desc.typ])]
    [] desc.typ = "text" -> [counted |-> FALSE, size |-> desc.length + pad(desc.length)]
    [] OTHER             -> [counted |-> TRUE, size |-> -1]

Value(i, n) == [k \in 1..n |-> <<"value", i, k>>]
Padding(n) == [k \in 1..n |-> <<"pad", 0, 0>>]
Count(n) == [k \in 1..4 |-> <<"count", n, k>>]

\* The null bitmap: bit i % 8 of byte i \div 8, padded to whole words.
bitmapBytes(n) == ((n + BitsPerByte - 1) \div BitsPerByte)
bitmapSize(n) == LET b == bitmapBytes(n) IN b + pad(b)
Bitmap(n, nulls) ==
  [k \in 1..bitmapSize(n) |->
     <<"nulls", {i % BitsPerByte : i \in {j \in nulls : j \div BitsPerByte = k - 1}}, 0>>]

\* IsNull
IsNull(bytes, i) == (i % BitsPerByte) \in bytes[i \div BitsPerByte + 1][2]

----------------------------------------------------------------------------
(* Encoding parameters *)

\* A parameter: NULL, or a value with the length of its Go string or bytes,
\* that of its encoded form, and whether it converts at all.  text says whether
\* it is a string; other Go values are formatted.
Null == [null |-> TRUE, text |-> FALSE, len |-> 0, enc |-> 0, ok |-> TRUE]

\* estimateValueSize looks at the Go string, not at its encoded form.
estimateValueSize(desc, v) ==
  CASE desc.typ \in DOMAIN Fixed       -> SumOf(Fixed[desc.typ])
    [] desc.typ = "text"               -> desc.length + pad(desc.length)
    [] desc.typ \in {"dec16", "dec34"} -> 4 + v.len + pad(v.len)
    [] desc.typ \in {"null", "other"}   -> 32
    [] OTHER -> IF v.text THEN 4 + v.len + pad(v.len) ELSE 4 + 32 + pad(32)

EstimateParamSize(descs, values) ==
  bitmapSize(Len(descs)) +
    SumOf([i \in DOMAIN descs |->
             IF values[i].null THEN 0 ELSE estimateValueSize(descs[i], values[i])])

\* A StackWriter refuses what does not fit and remembers that it did.
\* (A later, smaller write may still fit.)
put(w, bytes) ==
  IF Len(w.buf) + Len(bytes) > StackSize THEN [w EXCEPT !.overflow = TRUE]
  ELSE [w EXCEPT !.buf = @ \o bytes]

\* Only a VARCHAR is encoded in the column's charset; DECFLOAT and what has no
\* case of its own is sent as the Go string.
sentLen(desc, v) == IF desc.typ = "varying" THEN v.enc ELSE v.len

\* The chunks encodeValue writes for value i, each checked for room by itself.
chunks(desc, v, i) ==
  CASE desc.typ \in DOMAIN Fixed ->
         LET ws == Fixed[desc.typ]
         IN [c \in DOMAIN ws |->
               SubSeq(Value(i, SumOf(ws)), SumOf(SubSeq(ws, 1, c - 1)) + 1,
                                           SumOf(SubSeq(ws, 1, c)))]
    [] desc.typ = "text" -> <<Value(i, desc.length) \o Padding(pad(desc.length))>>
    [] OTHER -> LET n == sentLen(desc, v) IN <<Count(n) \o Value(i, n) \o Padding(pad(n))>>

\* copyTextParam and writeVaryingParam refuse what is longer than the column.
converts(desc, v) == v.ok /\ (desc.typ \in {"text", "varying"} => v.enc <= desc.length)

\* encodeValueStack: a DOUBLE that does not fit is left out, and nothing remembers it.
encodeValueStack(w, desc, v, i) ==
  IF desc.typ = "double" /\ Len(w.buf) + 8 > StackSize THEN w
  ELSE FoldLeft(put, w, chunks(desc, v, i))

\* The bitmap is reserved first; its bits are set on the way.
Nulls(values) == {i - 1 : i \in {j \in DOMAIN values : values[j].null}}
NoRoom == [buf |-> <<>>, overflow |-> TRUE]

\* The first value that does not convert ends the encoding with an error.
EncodeFails(descs, values) ==
  \E i \in DOMAIN descs : ~values[i].null /\ ~converts(descs[i], values[i])

EncodeNamedParamsStack(descs, values) ==
  LET Step(w, i) == IF values[i].null THEN w ELSE encodeValueStack(w, descs[i], values[i], i)
      start == put([buf |-> <<>>, overflow |-> FALSE], Bitmap(Len(descs), Nulls(values)))
  IN IF start.overflow THEN NoRoom
     ELSE FoldLeft(Step, start, [i \in DOMAIN descs |-> i])

\* EncodeNamedParams: the pooled Writer grows as needed.
EncodeNamedParams(descs, values) ==
  Bitmap(Len(descs), Nulls(values)) \o
    FlattenSeq([i \in DOMAIN descs |->
      IF values[i].null THEN <<>> ELSE FlattenSeq(chunks(descs[i], values[i], i))])

\* EncodeParamsOptimalErr, and as it would be if it relied on the estimate.
EncodeParamsByEstimate(descs, values) ==
  IF EncodeFails(descs, values) THEN [ok |-> FALSE, data |-> <<>>]
  ELSE IF EstimateParamSize(descs, values) <= StackSize
  THEN [ok |-> TRUE, data |-> EncodeNamedParamsStack(descs, values).buf]
  ELSE [ok |-> TRUE, data |-> EncodeNamedParams(descs, values)]

EncodeParamsOptimal(descs, values) ==
  LET stack == EncodeNamedParamsStack(descs, values)
  IN IF EncodeFails(descs, values) THEN [ok |-> FALSE, data |-> <<>>]
     ELSE IF EstimateParamSize(descs, values) <= StackSize /\ ~stack.overflow
     THEN [ok |-> TRUE, data |-> stack.buf]
     ELSE [ok |-> TRUE, data |-> EncodeNamedParams(descs, values)]

----------------------------------------------------------------------------
(* Reading a message: the server by the BLR, DecodeRow by the descriptors *)

\* One column: what is left of the message, and the bytes of the values so far.
readColumn(acc, layout, isNull) ==
  LET counts == acc.rest # <<>> /\ acc.rest[1][1] = "count"
      told == IF counts THEN acc.rest[1][2] ELSE 0
      len == IF layout.size < told /\ layout.size # -1 THEN layout.size ELSE told
      n == IF layout.counted THEN 4 + len + pad(len) ELSE layout.size
  IN IF acc.failed \/ isNull THEN [acc EXCEPT !.values = Append(@, <<>>)]
     ELSE IF n > Len(acc.rest) \/ (layout.counted /\ ~counts) THEN [acc EXCEPT !.failed = TRUE]
     ELSE [acc EXCEPT !.rest = SubSeq(@, n + 1, Len(@)),
                      !.values = Append(@, SelectSeq(SubSeq(acc.rest, 1, n), LAMBDA b : b[1] = "value"))]

readMessage(layouts, data) ==
  LET size == bitmapSize(Len(layouts))
      bits == SubSeq(data, 1, size)
      Step(acc, i) == readColumn(acc, layouts[i], IsNull(bits, i - 1))
  IN IF Len(data) < size THEN [rest |-> <<>>, values |-> <<>>, failed |-> TRUE]
     ELSE FoldLeft(Step, [rest |-> SubSeq(data, size + 1, Len(data)), values |-> <<>>, failed |-> FALSE],
                   [i \in DOMAIN layouts |-> i])

\* DecodeRow
DecodeRow(descs, data) == readMessage([i \in DOMAIN descs |-> decodeLayout(descs[i])], data)

\* The server reads the parameters, and lays out a row, by the BLR it was sent.
srvReadsParams(descs, data) ==
  readMessage([i \in DOMAIN descs |-> srvLayout(appendParamBLRType(descs[i]))], data)

srvRow(descs, values) ==
  Bitmap(Len(descs), Nulls(values)) \o
    FlattenSeq([i \in DOMAIN descs |->
      LET l == srvLayout(appendBLRType(descs[i]))
          used == IF descs[i].typ = "text" THEN descs[i].length ELSE l.size
      IN IF values[i].null THEN <<>>
         ELSE IF l.counted
         THEN Count(values[i].enc) \o Value(i, values[i].enc) \o Padding(pad(values[i].enc))
         ELSE Value(i, used) \o Padding(l.size - used)])

\* Every value came with all of its bytes, and nothing is left over.
Arrived(r, values, lens) ==
  /\ ~r.failed /\ r.rest = <<>>
  /\ r.values = [i \in DOMAIN values |-> IF values[i].null THEN <<>> ELSE Value(i, lens[i])]

----------------------------------------------------------------------------
(* What the layout promises *)

\* Nothing checks these against the length the BLR announces: DECFLOAT as text,
\* the text for a type without a case, and SQL_NULL, announced as no bytes.
Unchecked == {"dec16", "dec34", "null", "other"}

OutgrowsBLR(desc, v) ==
  /\ desc.typ \in Unchecked /\ ~v.null
  /\ desc.typ = "null" \/ v.len > appendParamBLRType(desc).length

\* The server, which reads a message by its BLR, finds each parameter's own
\* bytes and nothing after the last, whichever buffer was used: for every
\* message whose values keep to the lengths announced, and that has no DOUBLE
\* or whose size was not underestimated (see OverflowIsReported).
MessageIsWhole(descs, values) ==
  LET m == EncodeParamsOptimal(descs, values)
      lens == [i \in DOMAIN descs |->
                 IF descs[i].typ \in DOMAIN Fixed THEN SumOf(Fixed[descs[i].typ])
                 ELSE IF descs[i].typ = "text" THEN descs[i].length
                 ELSE sentLen(descs[i], values[i])]
  IN m.ok => \/ Arrived(srvReadsParams(descs, m.data), values, lens)
             \/ \E i \in DOMAIN descs : OutgrowsBLR(descs[i], values[i])
             \/ /\ \E i \in DOMAIN descs : descs[i].typ = "double"
                /\ EstimateParamSize(descs, values) < Len(EncodeNamedParams(descs, values))

\* What a server can put into a row: at most the length announced, and nothing
\* but NULL for SQL_NULL, which has no values.
Sendable(desc, v) ==
  v.null \/ (desc.typ # "null" /\ (desc.typ \in {"varying", "other"} => v.enc <= desc.length))

\* DecodeRow, which goes by the descriptors, finds in a row what the server put
\* there by the BLR.
RowIsWhole(descs, values) ==
  LET lens == [i \in DOMAIN descs |->
                 IF descs[i].typ \in DOMAIN ReadWords THEN SumOf(ReadWords[descs[i].typ])
                 ELSE IF descs[i].typ = "text" THEN descs[i].length
                 ELSE values[i].enc]
  IN (\A i \in DOMAIN descs : Sendable(descs[i], values[i]))
       => Arrived(DecodeRow(descs, srvRow(descs, values)), values, lens)

\* "Overflowed returns true if any write operation exceeded the buffer
\* capacity" (writer.go:46): without an overflow the stack buffer holds all of
\* the message.
OverflowIsReported(descs, values) ==
  LET stack == EncodeNamedParamsStack(descs, values)
  IN ~EncodeFails(descs, values) /\ ~stack.overflow
       => stack.buf = EncodeNamedParams(descs, values)

----------------------------------------------------------------------------
(* The Go type of a column *)

TimeTypes == {"date", "time", "timestamp", "timeTZ", "timestampTZ"}

\* DecodeColumn, then materializeBlobRowsLocked for BLOBs; blobNone says that
\* the text BLOB's charset resolves to NONE.
GoType(desc, blobNone) ==
  CASE desc.typ \in {"short", "long", "int64"} -> IF desc.scale < 0 THEN "string" ELSE desc.typ
    [] desc.typ \in {"int128", "dec16", "dec34"} -> "string"
    [] desc.typ \in {"float", "double", "boolean"} -> desc.typ
    [] desc.typ \in {"text", "varying"} -> IF desc.sub \in {0, 1} THEN "[]byte" ELSE "string"
    [] desc.typ = "blob" -> IF desc.sub = 1 /\ ~blobNone THEN "string" ELSE "[]byte"
    [] desc.typ \in TimeTypes -> "time"
    [] OTHER -> "string"

\* ColumnTypeScanType
ColumnTypeScanType(desc) ==
  CASE desc.typ \in {"text", "varying"} -> IF desc.sub \in {0, 1} THEN "[]byte" ELSE "string"
    [] desc.typ \in {"short", "long", "int64"} -> IF desc.scale < 0 THEN "string" ELSE desc.typ
    [] desc.typ \in {"int128", "dec16", "dec34"} -> "string"
    [] desc.typ \in {"float", "double", "boolean"} -> desc.typ
    [] desc.typ \in TimeTypes -> "time"
    [] desc.typ = "blob" -> IF desc.sub = 1 THEN "string" ELSE "[]byte"
    [] OTHER -> "any"

\* ColumnTypeScanType announces the Go type the values have, or any, for every
\* column but a text BLOB in charset NONE, whose values are bytes.
ScanTypeIsTold(desc, blobNone) ==
  \/ ColumnTypeScanType(desc) \in {GoType(desc, blobNone), "any"}
  \/ desc.typ = "blob" /\ desc.sub = 1 /\ blobNone
=============================================================================
