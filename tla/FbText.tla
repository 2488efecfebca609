------------------------------- MODULE FbText -------------------------------
(***************************************************************************)
(* Text between Go strings and CHAR, VARCHAR and text BLOB columns: which  *)
(* character set a column is encoded and decoded with, what is asked of    *)
(* the server, padding and length limits.                                  *)
(*                                                                         *)
(* A string is a sequence of bytes.  A byte is <<charset, rune, k>>, the   *)
(* k-th byte of the rune in that charset, or <<Shared, rune, 1>>, an ASCII *)
(* byte, which all charsets share.  Go strings are UTF-8.                  *)
(***************************************************************************)
EXTENDS Integers, Sequences, SequencesExt

CONSTANTS
  Rune,        \* the characters of the instance
  Utf8Len,     \* [Rune -> bytes in UTF-8]; 1 is ASCII
  Latin1,      \* the runes up to U+00FF
  Space,       \* the rune of 0x20
  Repertoire   \* [charset of encodingForID -> [its runes -> bytes]] (x/text)

IDNone == 0
IDOctets == 1
IDASCII == 2
IDUnicodeFSS == 3
IDUTF8 == 4
IDISO88591 == 21

\* The charsets Firebird knows, and those among them encodingForID has a table
\* for.  The others (DOS737, DOS775, DOS864, NEXT, DOS857, DOS861, DOS869, CYRL,
\* CP943C) pass bytes through.
charsets == 0..6 \cup 9..19 \cup 21..23 \cup 34..40 \cup 44..60 \cup 63..69
encodingForID == ({5, 6, 16, 17, 22, 23, 44, 45, 48, 69} \cup 10..14 \cup 34..40
                    \cup 51..60 \cup 63..67)

ASSUME TextAssumption ==
  /\ Utf8Len \in [Rune -> 1..4]
  /\ Space \in Rune /\ Utf8Len[Space] = 1
  /\ Latin1 \subseteq Rune
  /\ DOMAIN Repertoire \subseteq encodingForID /\ encodingForID \subseteq charsets

Shared == -1

\* The error return; as a byte, what U+FFFD stands for.
Failed == <<<<-2, "error", 0>>>>

----------------------------------------------------------------------------
(* package charset *)

\* NONE, OCTETS and UNICODE_FSS hold UTF-8 bytes.
Bytes(cs, r, n) ==
  [k \in 1..n |-> IF Utf8Len[r] = 1 THEN <<Shared, r, 1>>
                  ELSE <<IF cs \in {IDNone, IDOctets, IDUnicodeFSS} THEN IDUTF8 ELSE cs, r, k>>]

\* The Go string of the given runes.
GoString(runes) == FlattenSeq([i \in DOMAIN runes |-> Bytes(IDUTF8, runes[i], Utf8Len[runes[i]])])

\* How many bytes a rune takes in a charset, 0 if it has none.
RuneLen(cs, r) ==
  IF Utf8Len[r] = 1 THEN 1
  ELSE CASE cs \in {IDNone, IDOctets, IDUnicodeFSS, IDUTF8} -> Utf8Len[r]
         [] cs = IDASCII    -> 0
         [] cs = IDISO88591 -> IF r \in Latin1 THEN 1 ELSE 0
         [] OTHER           -> IF r \in DOMAIN Repertoire[cs] THEN Repertoire[cs][r] ELSE 0

PassesThrough(cs) ==
  cs \in {IDNone, IDOctets, IDUnicodeFSS, IDUTF8}
    \/ (cs \notin {IDASCII, IDISO88591} /\ cs \notin DOMAIN Repertoire)

\* charset.Encode of a string that is valid UTF-8.
Encode(cs, runes) ==
  IF PassesThrough(cs) THEN GoString(runes)
  ELSE IF \E i \in DOMAIN runes : RuneLen(cs, runes[i]) = 0 THEN Failed
  ELSE FlattenSeq([i \in DOMAIN runes |-> Bytes(cs, runes[i], RuneLen(cs, runes[i]))])

\* charset.Decode: each rune's bytes become its UTF-8 bytes.  A byte that is not
\* of the charset becomes U+FFFD.
Decode(cs, data) ==
  LET First(b) == b[3] = 1
      Char(b) == IF b[1] \in {cs, Shared} THEN Bytes(IDUTF8, b[2], Utf8Len[b[2]]) ELSE Failed
  IN IF PassesThrough(cs) THEN data
     ELSE FlattenSeq([i \in 1..Len(data) |-> IF First(data[i]) THEN Char(data[i]) ELSE <<>>])

----------------------------------------------------------------------------
(* Columns *)

\* What the server describes: a charset and, in the high byte, a collation.
\* applyNoneCharset rewrites a column of charset NONE.
Described(cs, collation, chars, maxBytes, none) ==
  LET sub == collation * 256 + cs
  IN [sub |-> IF sub = IDNone THEN none ELSE sub,
      fromNone |-> sub = IDNone /\ none # IDNone,
      length |-> chars * maxBytes]

charsetID(desc) == desc.sub % 256
wireCharsetAsDecoded(desc) == charsetID(desc)   \* would have the server transliterate
wireCharset(desc) == IF desc.fromNone THEN IDNone ELSE charsetID(desc)

\* charsetMaxBytesPerChar
charsetMaxBytesPerChar(cs) ==
  CASE cs = 3 -> 3
    [] cs \in {4, 69} -> 4
    [] cs \in {5, 6, 44, 56, 57, 67, 68} -> 2
    [] OTHER -> 1

\* ColumnTypeLength of a CHAR or VARCHAR column, in characters.
ColumnTypeLength(desc) ==
  desc.length \div (IF desc.fromNone THEN 1 ELSE charsetMaxBytesPerChar(charsetID(desc)))

SpaceByte == <<Shared, Space, 1>>

\* copyTextParam and writeVaryingParam: the value as it goes on the wire.
encodeText(desc, varying, runes) ==
  LET data == Encode(charsetID(desc), runes)
  IN IF data = Failed \/ Len(data) > desc.length THEN Failed
     ELSE IF varying THEN data
     ELSE data \o [i \in 1..(desc.length - Len(data)) |-> SpaceByte]

\* trimRightSpaces
trimRightSpaces(data) ==
  LET keep == {i \in 1..Len(data) : data[i] # SpaceByte}
  IN SubSeq(data, 1, IF keep = {} THEN 0 ELSE CHOOSE i \in keep : \A j \in keep : j <= i)

\* The text cases of DecodeColumn: OCTETS and NONE come back as bytes.
decodeText(desc, varying, data) ==
  LET trimmed == IF varying \/ desc.sub = IDOctets THEN data ELSE trimRightSpaces(data)
  IN IF desc.sub \in {IDOctets, IDNone} THEN [go |-> "[]byte", data |-> trimmed]
     ELSE [go |-> "string", data |-> Decode(charsetID(desc), trimmed)]

\* blobTextCharset, and what materializeBlobRowsLocked makes of a text BLOB.
blobTextCharset(scale, none) == IF scale # 0 THEN scale ELSE none

decodeTextBlob(scale, none, data) ==
  LET cs == blobTextCharset(scale, none)
  IN IF cs = IDNone THEN [go |-> "[]byte", data |-> data]
     ELSE [go |-> "string", data |-> Decode(cs, data)]

\* The server: a message text of charset m is stored in a column of charset c as
\* it is if one of them is NONE or both are the same.
Stores(m, c) == m = c \/ m = IDNone \/ c = IDNone

\* To send a column of charset c in charset m it need not look at the bytes;
\* otherwise it converts them, and a fetch fails at bytes that are malformed in m
\* (a NONE column may hold any).
SendsAsIs(c, m) == m = c \/ m = IDNone

----------------------------------------------------------------------------
(* What the conversions promise *)

\* A charset the driver can write: UTF-8, or one it has a table for.
Transcodes(cs) == cs \in {IDNone, IDOctets, IDUnicodeFSS, IDUTF8} \/ ~PassesThrough(cs)

\* A string bound to a text column is stored in the column's own charset and
\* read back as the same string (a CHAR without the spaces at its end), or the
\* caller gets an error: never bytes of one charset in a column of another.
\* A NONE column has no charset of its own, so it holds the configured one.
TextIsKept(cs, collation, chars, none, varying, runes) ==
  LET desc == Described(cs, collation, chars, charsetMaxBytesPerChar(cs), none)
      own == IF cs = IDNone THEN none ELSE cs
      wire == encodeText(desc, varying, runes)
      Shown(data) == IF varying THEN data ELSE trimRightSpaces(data)
  IN Transcodes(own) /\ wire # Failed =>
       /\ Stores(wireCharset(desc), cs) /\ SendsAsIs(cs, wireCharset(desc))
       /\ Shown(wire) = Shown(FlattenSeq([i \in DOMAIN runes |->
                                  Bytes(own, runes[i], RuneLen(own, runes[i]))]))
       /\ cs # IDOctets => decodeText(desc, varying, wire).data = Shown(GoString(runes))

\* A string of no more characters than ColumnTypeLength reports is never too
\* long for its column (UNICODE_FSS has no characters of four bytes).
TextFits(cs, collation, chars, runes) ==
  LET desc == Described(cs, collation, chars, charsetMaxBytesPerChar(cs), IDNone)
      data == Encode(charsetID(desc), runes)
  IN Transcodes(cs) /\ cs \notin {IDNone, IDOctets, IDUnicodeFSS} /\ ColumnTypeLength(desc) = chars
       /\ Len(runes) <= ColumnTypeLength(desc) /\ data # Failed
         => encodeText(desc, TRUE, runes) # Failed

\* A text BLOB is written and read with the same charset.
TextBlobIsKept(scale, none, runes) ==
  LET data == Encode(blobTextCharset(scale, none), runes)
  IN data # Failed => decodeTextBlob(scale, none, data).data = GoString(runes)
=============================================================================
