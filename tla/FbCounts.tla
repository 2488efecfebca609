------------------------------ MODULE FbCounts ------------------------------
(***************************************************************************)
(* RowsAffected: the server's answer to isc_info_sql_records and what      *)
(* getRowsAffected makes of it.  A byte is a number below InfoByte.        *)
(***************************************************************************)
EXTENDS Integers, Sequences, SequencesExt

CONSTANT InfoByte   \* values of a byte: 256

ASSUME CountsAssumption == InfoByte \in Nat /\ InfoByte > 23

IscInfoEnd == 1
IscInfoTruncated == 2
IscInfoError == 3
IscInfoDataNotReady == 4
IscInfoReqSelectCount == 13
IscInfoReqInsertCount == 14
IscInfoReqUpdateCount == 15
IscInfoReqDeleteCount == 16
IscInfoSQLRecords == 23

Controls == {IscInfoEnd, IscInfoTruncated, IscInfoError, IscInfoDataNotReady}

\* Little-endian numbers.
Unsigned(bytes) == FoldRight(LAMBDA b, acc : b + InfoByte * acc, bytes, 0)
Signed(bytes) ==
  LET u == Unsigned(bytes)
      size == InfoByte^Len(bytes)
  IN IF 2 * u >= size THEN u - size ELSE u

\* readInfoInt32LE: two bytes are not sign-extended, of more than four the
\* first four count, of three the first.
readInfoInt32LE(data) ==
  CASE Len(data) = 0 -> 0
    [] Len(data) \in {1, 3} -> data[1]
    [] Len(data) = 2 -> Unsigned(data)
    [] OTHER         -> Signed(SubSeq(data, 1, 4))

\* The loop below without the check that an item is all there.
scanItemsUnchecked(data) ==
  LET From[p \in 1..(Len(data) + 1)] ==
        IF p > Len(data) THEN <<>>
        ELSE IF data[p] \in Controls \/ p + 2 > Len(data) THEN <<>>
        ELSE LET length == data[p + 1] + InfoByte * data[p + 2]
                 end == IF p + 2 + length > Len(data) THEN Len(data) ELSE p + 2 + length
             IN <<[tag |-> data[p], data |-> SubSeq(data, p + 3, end)]>> \o From[end + 1]
  IN From[1]

\* The loop of ParseRecordCounts and of parseRecordCountItems: the items up to a
\* control byte or to the first that is not all there.
scanItems(data) ==
  LET From[p \in 1..(Len(data) + 1)] ==
        IF p > Len(data) THEN <<>>
        ELSE IF data[p] \in Controls \/ p + 2 > Len(data) THEN <<>>
        ELSE LET length == data[p + 1] + InfoByte * data[p + 2]
                 next == p + 3 + length
             IN IF next > Len(data) + 1 THEN <<>>
                ELSE <<[tag |-> data[p], data |-> SubSeq(data, p + 3, next - 1)]>> \o From[next]
  IN From[1]

\* parseRecordCountItems: the last item of a tag counts.
countOf(items, tag) ==
  FoldLeft(LAMBDA acc, i : IF i.tag = tag THEN readInfoInt32LE(i.data) ELSE acc, 0, items)

\* ParseRecordCounts looks at the first records item only.
ParseRecordCounts(data) ==
  LET records == SelectSeq(scanItems(data), LAMBDA i : i.tag = IscInfoSQLRecords)
      counts == IF records = <<>> THEN <<>> ELSE scanItems(records[1].data)
  IN [insert |-> countOf(counts, IscInfoReqInsertCount),
      update |-> countOf(counts, IscInfoReqUpdateCount),
      delete |-> countOf(counts, IscInfoReqDeleteCount)]

\* getRowsAffected
getRowsAffected(data, stmtType) ==
  LET c == ParseRecordCounts(data)
  IN IF stmtType \in DOMAIN c THEN c[stmtType] ELSE c.insert + c.update + c.delete

----------------------------------------------------------------------------
(* The server's answer *)

LongOf(n) == [k \in 1..4 |-> (n \div InfoByte^(k - 1)) % InfoByte]
ItemOf(tag, data) == <<tag, Len(data) % InfoByte, Len(data) \div InfoByte>> \o data

RecordsAnswer(n) ==
  ItemOf(IscInfoSQLRecords,
         ItemOf(IscInfoReqUpdateCount, LongOf(n.update)) \o ItemOf(IscInfoReqDeleteCount, LongOf(n.delete))
           \o ItemOf(IscInfoReqSelectCount, LongOf(n.select))
           \o ItemOf(IscInfoReqInsertCount, LongOf(n.insert)) \o <<IscInfoEnd>>)
    \o <<IscInfoEnd>>

\* The caller is told how many rows its statement inserted, updated or deleted,
\* as far as 32 bits go; of an answer that ends early it is told that number or
\* zero, never another.
CountsAreExactFor(n, stmtType, cut) ==
  LET whole == RecordsAnswer(n)
      exact == IF stmtType \in {"insert", "update", "delete"} THEN n[stmtType]
               ELSE n.insert + n.update + n.delete
  IN (\A k \in DOMAIN n : 2 * n[k] < InfoByte^4) =>
       /\ getRowsAffected(whole, stmtType) = exact
       /\ getRowsAffected(SubSeq(whole, 1, cut), stmtType) \in {0, exact}
=============================================================================
