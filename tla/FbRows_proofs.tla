---------------------------- MODULE FbRows_proofs ----------------------------
(***************************************************************************)
(* Proofs about FbRows: the rows handed out are those of the query, for    *)
(* every result, every fetch size and every size of the buffers, and Close *)
(* leaves no cursor behind.                                                *)
(***************************************************************************)
EXTENDS FbRows, TLAPS

----------------------------------------------------------------------------
(* The inductive invariant *)

ValueRow == [1..Cols -> Value]

\* The k-th row of the result as the caller should see it.
Wanted(k) == contents(result[k])

\* vals is long enough for rows 1..hi.
HasRows(vals, hi) == Cols * hi <= Len(vals)

FetchCall ==
  [op: {"fetch"}, rowIdx: Nat, mine: Seq(Value), reused: BOOLEAN]

BlobsCall ==
  [op: {"blobs"}, rowIdx: Nat, mine: Seq(Value), done: Nat, eof: BOOLEAN]

TypeInv ==
  /\ result \in Results /\ fetchSize \in FetchSizes
  /\ pos \in 0..Len(result)
  /\ hasCursor \in BOOLEAN /\ cursorOpen \in BOOLEAN /\ bad \in BOOLEAN
  /\ ctxDone \in BOOLEAN /\ eof \in BOOLEAN /\ closed \in BOOLEAN
  /\ values \in Seq(Value)
  /\ buf \in Nat /\ bufIdx \in 0..buf
  /\ call \in FetchCall \cup BlobsCall \cup {Idle}
  /\ told \in {"none", "row", "eof", "error"}
  /\ out \in Seq(ValueRow)

\* What was handed out is the beginning of the result; io.EOF came after all of it.
OutInv ==
  /\ Len(out) <= Len(result)
  /\ \A k \in 1..Len(out) : out[k] = Wanted(k)
  /\ told = "eof" => Len(out) = Len(result)

\* The rows of the buffer that were not handed out yet follow those that were.
BufferInv ==
  /\ eof => pos = Len(result)
  /\ call = Idle /\ told \in {"none", "row"} => pos + bufIdx = Len(out) + buf
  /\ bufIdx < buf => HasRows(values, buf)
  /\ \A i \in 1..buf : i > bufIdx => rowAt(values, i) = Wanted(Len(out) + i - bufIdx)

\* A batch on its way follows what was handed out, first as it was received, then
\* with the blobs replaced by their contents.
BatchInv ==
  call # Idle =>
    /\ told \in {"none", "row"} /\ ~closed /\ bufIdx = buf
    /\ pos = Len(out) + call.rowIdx
    /\ HasRows(call.mine, call.rowIdx)
    /\ call.op = "fetch" =>
         \A i \in 1..call.rowIdx : rowAt(call.mine, i) = result[Len(out) + i]
    /\ call.op = "blobs" =>
         /\ call.done <= call.rowIdx
         /\ call.eof => pos = Len(result)
         /\ call.rowIdx = 0 => call.eof
         /\ \A i \in 1..call.done : rowAt(call.mine, i) = Wanted(Len(out) + i)
         /\ \A i \in 1..call.rowIdx : i > call.done =>
              rowAt(call.mine, i) = result[Len(out) + i]

CursorInv == (cursorOpen => hasCursor) /\ (closed /\ ~bad => ~cursorOpen)

RowsInv == TypeInv /\ OutInv /\ BufferInv /\ BatchInv /\ CursorInv


----------------------------------------------------------------------------
(* Numbers *)

\* The constants, as the lemmas below use them.
LEMMA ColsNat == Cols \in Nat /\ Cols >= 1
BY RowsAssumption

\* Rows take up Cols values each.
LEMMA TimesNat ==
  /\ \A a \in Nat : Cols * a \in Nat
  /\ \A a \in Nat \ {0} : Cols * a = Cols * (a - 1) + Cols
  /\ \A a, b \in Nat : a <= b => Cols * a <= Cols * b
<1>1. \A a \in Nat : Cols * a \in Nat
  BY ColsNat
<1>2. \A a \in Nat \ {0} : Cols * a = Cols * (a - 1) + Cols
  BY ColsNat
<1>3. ASSUME NEW a \in Nat, NEW b \in Nat, a <= b PROVE Cols * a <= Cols * b
  <2>1. PICK d \in Nat : b = a + d
    <3>1. b - a \in Nat /\ b = a + (b - a)
      BY <1>3
    <3> QED BY <3>1
  <2>2. Cols * b = Cols * a + Cols * d
    BY <2>1, ColsNat
  <2> QED BY <1>1, <2>2, ColsNat
<1> QED BY <1>1, <1>2, <1>3

\* An array with room for more than x rows has room for row x + 1.
LEMMA Capacity ==
  ASSUME NEW vals \in Seq(Value)
  PROVE  /\ rowCapacity(vals) \in Nat
         /\ \A x \in Nat : x < rowCapacity(vals) => HasRows(vals, x + 1)
<1> DEFINE n == Len(vals)
           q == n \div Cols
<1>1. n \in Nat
  OBVIOUS
<1>2. q \in Nat /\ Cols * q <= n
  <2> HIDE DEF n
  <2> QED BY <1>1, ColsNat
<1>3. ASSUME NEW x \in Nat, x < q PROVE Cols * (x + 1) <= n
  <2>1. x + 1 <= q
    BY <1>2, <1>3
  <2>2. Cols * (x + 1) <= Cols * q /\ Cols * (x + 1) \in Nat /\ Cols * q \in Nat
    BY <1>2, <2>1, TimesNat
  <2> QED BY <1>1, <1>2, <2>2
<1> QED BY <1>2, <1>3 DEF rowCapacity, HasRows

----------------------------------------------------------------------------
(* Buffers *)

\* A row of an array, column by column.
LEMMA RowAt ==
  ASSUME NEW vals \in Seq(Value), NEW i \in Nat \ {0}, HasRows(vals, i)
  PROVE  /\ rowAt(vals, i) = [c \in 1..Cols |-> vals[Cols * (i - 1) + c]]
         /\ rowAt(vals, i) \in ValueRow
         /\ \A c \in 1..Cols : Cols * (i - 1) + c \in DOMAIN vals
<1> DEFINE a == Cols * (i - 1)
           b == Cols * i
<1>1. a \in Nat /\ b = a + Cols /\ b <= Len(vals)
  BY TimesNat DEF HasRows
<1>2. SubSeq(vals, a + 1, b) = [c \in 1..Cols |-> vals[a + c]]
  <2> HIDE DEF a, b
  <2>1. DOMAIN SubSeq(vals, a + 1, b) = 1..Cols
    BY <1>1, ColsNat
  <2>2. \A c \in 1..Cols : SubSeq(vals, a + 1, b)[c] = vals[a + c]
    BY <1>1, ColsNat
  <2> DEFINE f == SubSeq(vals, a + 1, b)
  <2>3. f \in [1..Cols -> Value]
    <3>1. f \in Seq(Value)
      BY <1>1, ColsNat
    <3>2. f \in [DOMAIN f -> Value]
      <4> HIDE DEF f
      <4> QED BY <3>1
    <3> QED BY <2>1, <3>2
  <2>4. f = [c \in 1..Cols |-> f[c]]
    <3> HIDE DEF f
    <3> QED BY <2>3
  <2> QED BY <2>2, <2>4
<1>3. \A c \in 1..Cols : a + c \in DOMAIN vals
  <2> HIDE DEF a, b
  <2> QED BY <1>1, ColsNat
<1>4. \A c \in 1..Cols : vals[a + c] \in Value
  <2> HIDE DEF a, b
  <2> QED BY <1>3
<1> QED BY <1>2, <1>3, <1>4 DEF rowAt, ValueRow

\* Two arrays that agree on row i have the same row i.
LEMMA SameRow ==
  ASSUME NEW u \in Seq(Value), NEW w \in Seq(Value), NEW i \in Nat \ {0},
         HasRows(u, i), HasRows(w, i),
         \A k \in Cols * (i - 1) + 1 .. Cols * i : u[k] = w[k]
  PROVE  rowAt(u, i) = rowAt(w, i)
<1> DEFINE a == Cols * (i - 1)
<1>1. a \in Nat /\ Cols * i = a + Cols
  BY TimesNat
<1>2. \A c \in 1..Cols : u[a + c] = w[a + c]
  <2>1. \A k \in a + 1 .. a + Cols : u[k] = w[k]
    BY <1>1
  <2> HIDE DEF a
  <2> QED BY <1>1, <2>1, ColsNat
<1>3. [c \in 1..Cols |-> u[a + c]] = [c \in 1..Cols |-> w[a + c]]
  BY <1>2
<1>4. rowAt(u, i) = [c \in 1..Cols |-> u[a + c]]
  BY RowAt
<1>5. rowAt(w, i) = [c \in 1..Cols |-> w[a + c]]
  BY RowAt
<1> QED BY <1>3, <1>4, <1>5

\* A row keeps its place in an array that is replaced by a longer one.
LEMMA Longer ==
  ASSUME NEW vals \in Seq(Value), NEW i \in Nat, NEW j \in Nat, HasRows(vals, i), j <= i
  PROVE  HasRows(vals, j)
BY TimesNat, ColsNat DEF HasRows

\* DecodeRow puts the row in its place and leaves the others.
LEMMA Decoded ==
  ASSUME NEW vals \in Seq(Value), NEW i \in Nat \ {0}, HasRows(vals, i), NEW row \in ValueRow
  PROVE  /\ DecodeRow(vals, i, row) \in Seq(Value)
         /\ Len(DecodeRow(vals, i, row)) = Len(vals)
         /\ rowAt(DecodeRow(vals, i, row), i) = row
         /\ \A j \in Nat \ {0} : j # i /\ HasRows(vals, j) =>
              rowAt(DecodeRow(vals, i, row), j) = rowAt(vals, j)
<1> DEFINE a == Cols * (i - 1)
           b == Cols * i
           w == DecodeRow(vals, i, row)
<1>1. a \in Nat /\ b = a + Cols /\ b <= Len(vals)
  BY TimesNat DEF HasRows
<1>2. \A k \in a + 1 .. b : k - a \in 1..Cols /\ row[k - a] \in Value
  <2> HIDE DEF a, b
  <2>1. \A k \in a + 1 .. b : k - a \in 1..Cols
    BY <1>1, ColsNat
  <2> QED BY <2>1 DEF ValueRow
<1>3. w = [k \in 1..Len(vals) |-> IF k \in a + 1 .. b THEN row[k - a] ELSE vals[k]]
  BY DEF DecodeRow
<1>4. w \in [1..Len(vals) -> Value]
  <2> HIDE DEF a, b, w
  <2>1. \A k \in 1..Len(vals) : vals[k] \in Value
    OBVIOUS
  <2> QED BY <1>2, <1>3, <2>1
<1>5. w \in Seq(Value) /\ Len(w) = Len(vals)
  <2> HIDE DEF w
  <2> QED BY <1>4
<1>6. HasRows(w, i)
  BY <1>5 DEF HasRows
<1>7. rowAt(w, i) = row
  <2>1. \A c \in 1..Cols : w[a + c] = row[c]
    <3> HIDE DEF a, b, w
    <3>1. \A c \in 1..Cols : a + c \in a + 1 .. b /\ a + c \in 1..Len(vals) /\ (a + c) - a = c
      BY <1>1, ColsNat
    <3> QED BY <1>3, <3>1
  <2>2. row = [c \in 1..Cols |-> row[c]]
    BY DEF ValueRow
  <2>3. [c \in 1..Cols |-> w[a + c]] = [c \in 1..Cols |-> row[c]]
    BY <2>1
  <2>4. rowAt(w, i) = [c \in 1..Cols |-> w[a + c]]
    BY <1>5, <1>6, RowAt
  <2> QED BY <2>2, <2>3, <2>4
<1>8. ASSUME NEW j \in Nat \ {0}, j # i, HasRows(vals, j) PROVE rowAt(w, j) = rowAt(vals, j)
  <2>1. HasRows(w, j)
    BY <1>5, <1>8 DEF HasRows
  <2>2. Cols * (j - 1) \in Nat /\ Cols * j = Cols * (j - 1) + Cols /\ Cols * j <= Len(vals)
    BY <1>8, TimesNat DEF HasRows
  <2>3. Cols * j <= a \/ b <= Cols * (j - 1)
    <3>1. CASE j < i
      <4>1. j <= i - 1 /\ i - 1 \in Nat
        BY <3>1
      <4> QED BY <4>1, TimesNat
    <3>2. CASE i < j
      <4>1. i <= j - 1 /\ j - 1 \in Nat
        BY <3>2
      <4> QED BY <4>1, TimesNat
    <3> QED BY <1>8, <3>1, <3>2
  <2>4. ASSUME NEW k \in Cols * (j - 1) + 1 .. Cols * j PROVE w[k] = vals[k]
    <3> DEFINE e == Cols * (j - 1)
               f == Cols * j
    <3>1. k \in 1..Len(vals) /\ k \notin a + 1 .. b
      <4>1. k \in e + 1 .. f /\ e \in Nat /\ f = e + Cols /\ f <= Len(vals) /\ (f <= a \/ b <= e)
        BY <2>2, <2>3
      <4> HIDE DEF a, b, e, f
      <4> QED BY <1>1, <4>1, ColsNat
    <3> HIDE DEF a, b, w
    <3> QED BY <1>3, <3>1
  <2> HIDE DEF w
  <2> QED BY <1>5, <1>8, <2>1, <2>4, SameRow
<1> QED BY <1>5, <1>7, <1>8

\* room makes room for one more row and keeps those there are.
LEMMA Room ==
  ASSUME TypeInv, NEW vals \in Seq(Value), NEW n \in Nat, HasRows(vals, n)
  PROVE  /\ room(vals, n) \in Seq(Value)
         /\ HasRows(room(vals, n), n + 1)
         /\ \A j \in 1..n : rowAt(room(vals, n), j) = rowAt(vals, j)
<1>1. CASE n < rowCapacity(vals)
  <2>1. room(vals, n) = vals
    BY <1>1 DEF room
  <2> QED BY <1>1, <2>1, Capacity
<1>2. CASE ~(n < rowCapacity(vals))
  <2>1. PICK m \in Nat :
          /\ n + 1 <= m
          /\ room(vals, n) = [k \in 1..m * Cols |-> IF k <= n * Cols THEN vals[k] ELSE Nil]
    <3> DEFINE bigger == minOf(2 * rowCapacity(vals), fetchSize)
               m == IF bigger <= n THEN n + 1 ELSE bigger
    <3>1. bigger \in Nat
      BY Capacity, RowsAssumption DEF TypeInv, minOf
    <3>2. m \in Nat /\ n + 1 <= m
      <4> HIDE DEF bigger
      <4> QED BY <3>1
    <3>3. room(vals, n) = [k \in 1..m * Cols |-> IF k <= n * Cols THEN vals[k] ELSE Nil]
      BY <1>2 DEF room
    <3> HIDE DEF m
    <3> QED BY <3>2, <3>3
  <2> DEFINE w == room(vals, n)
  <2>2. m * Cols \in Nat /\ Cols * (n + 1) <= m * Cols /\ n * Cols \in Nat
        /\ n * Cols <= Len(vals) /\ n * Cols = Cols * n /\ n * Cols <= m * Cols
    <3>1. m * Cols = Cols * m /\ n * Cols = Cols * n
      BY ColsNat
    <3>2. Cols * (n + 1) <= Cols * m /\ Cols * n <= Cols * m /\ Cols * m \in Nat /\ Cols * n \in Nat
      BY <2>1, TimesNat
    <3> QED BY <3>1, <3>2 DEF HasRows
  <2>3. w \in [1..m * Cols -> Value]
    <3>1. \A k \in 1..m * Cols : k <= n * Cols => vals[k] \in Value
      BY <2>2
    <3>2. Nil \in Value
      BY DEF Nil, Value
    <3> HIDE DEF w
    <3>3. w = [k \in 1..m * Cols |-> IF k <= n * Cols THEN vals[k] ELSE Nil]
      BY <2>1 DEF w
    <3> QED BY <3>1, <3>2, <3>3
  <2>4. w \in Seq(Value) /\ Len(w) = m * Cols
    <3> HIDE DEF w
    <3> QED BY <2>2, <2>3
  <2>5. HasRows(w, n + 1)
    BY <2>2, <2>4 DEF HasRows
  <2>6. ASSUME NEW j \in 1..n PROVE rowAt(w, j) = rowAt(vals, j)
    <3>1. HasRows(w, j) /\ HasRows(vals, j)
      BY <2>4, <2>5, Longer
    <3>2. Cols * j <= Cols * n /\ Cols * (j - 1) \in Nat /\ Cols * j \in Nat
      <4>1. j \in Nat /\ j - 1 \in Nat /\ j <= n
        OBVIOUS
      <4> QED BY <4>1, TimesNat
    <3>3. \A k \in Cols * (j - 1) + 1 .. Cols * j : w[k] = vals[k]
      <4>1. \A k \in Cols * (j - 1) + 1 .. Cols * j : k \in 1..m * Cols /\ k <= n * Cols
        BY <2>2, <3>2
      <4> QED BY <2>1, <4>1
    <3> HIDE DEF w
    <3> QED BY <2>4, <3>1, <3>3, SameRow
  <2> QED BY <2>4, <2>5, <2>6
<1> QED BY <1>1, <1>2

\* The array that fetch starts with.
LEMMA StartsWithRoom == ASSUME TypeInv PROVE initialRoom(values) \in Seq(Value)
<1> DEFINE n == minOf(fetchSize, Initial)
<1>1. n * Cols \in Nat
  BY RowsAssumption, ColsNat DEF TypeInv, minOf
<1>2. [k \in 1..n * Cols |-> Nil] \in Seq(Value)
  <2> HIDE DEF n
  <2>1. Nil \in Value
    BY DEF Nil, Value
  <2> QED BY <1>1, <2>1
<1> QED BY <1>2 DEF initialRoom, TypeInv

\* The contents of a row are a row.
LEMMA ContentsRow == ASSUME NEW row \in ValueRow PROVE contents(row) \in ValueRow
<1>1. \A v \in Value : content(v) \in Value
  BY DEF content, Value
<1> QED BY <1>1 DEF contents, ValueRow

\* The rows of the result.
LEMMA ResultRows ==
  ASSUME TypeInv
  PROVE  /\ result \in Seq(ValueRow) /\ Len(result) \in Nat
         /\ \A k \in 1..Len(result) : result[k] \in ValueRow /\ Wanted(k) \in ValueRow
<1>1. result \in Seq(ValueRow)
  BY RowsAssumption DEF TypeInv, ValueRow
<1> QED BY <1>1, ContentsRow DEF Wanted


----------------------------------------------------------------------------
(* The invariant *)

\* The shapes of a call are told apart by op.
LEMMA CallShape ==
  ASSUME TypeInv
  PROVE  /\ call.op = "fetch" <=> call \in FetchCall
         /\ call.op = "blobs" <=> call \in BlobsCall
         /\ call.op \in {"fetch", "blobs"} <=> call # Idle
<1>1. call \in FetchCall => call.op = "fetch"
  BY DEF FetchCall
<1>2. call \in BlobsCall => call.op = "blobs"
  BY DEF BlobsCall
<1>3. call = Idle => call.op = "none"
  BY DEF Idle
<1>4. call \in FetchCall \/ call \in BlobsCall \/ call = Idle
  BY DEF TypeInv
<1> QED BY <1>1, <1>2, <1>3, <1>4

\* The rows just opened, and the only row of a statement without a cursor.
LEMMA InitRows == ASSUME Init PROVE RowsInv
<1>1. result \in Seq(ValueRow) /\ Len(result) \in Nat
      /\ \A k \in 1..Len(result) : result[k] \in ValueRow /\ Wanted(k) \in ValueRow
  <2>1. result \in Seq(ValueRow)
    BY RowsAssumption DEF Init, ValueRow
  <2> QED BY <2>1, ContentsRow DEF Wanted
<1>2. values \in Seq(Value) /\ pos \in 0..Len(result) /\ buf \in Nat
      /\ (eof => pos = Len(result)) /\ pos = buf
      /\ (0 < buf => HasRows(values, buf))
      /\ \A i \in 1..buf : rowAt(values, i) = Wanted(i)
  <2>1. CASE Opened
    <3>1. [k \in 1..Inline |-> Nil] \in Seq(Value)
      <4>1. Nil \in Value
        BY DEF Nil, Value
      <4> QED BY <4>1, RowsAssumption
    <3>2. buf = 0 /\ pos = 0 /\ ~eof /\ values \in Seq(Value)
      BY <2>1, <3>1 DEF Opened
    <3> QED BY <1>1, <3>2
  <2>2. CASE Singleton
    <3>1. CASE result = <<>>
      <4>1. buf = 0 /\ pos = Len(result) /\ Len(result) = 0 /\ values = <<>>
        BY <2>2, <3>1 DEF Singleton
      <4>2. values \in Seq(Value)
        BY <4>1
      <4> QED BY <4>1, <4>2
    <3>2. CASE result # <<>>
      <4>1. Len(result) = 1 /\ buf = 1 /\ values = Wanted(1)
        BY <1>1, <2>2, <3>2 DEF Singleton, Wanted
      <4>2. values \in ValueRow
        BY <1>1, <4>1
      <4>3. values \in Seq(Value) /\ Len(values) = Cols
        BY <4>2, ColsNat DEF ValueRow
      <4>4. HasRows(values, 1)
        BY <4>3, ColsNat DEF HasRows
      <4>5. rowAt(values, 1) = [c \in 1..Cols |-> values[c]]
        <5>1. rowAt(values, 1) = [c \in 1..Cols |-> values[Cols * (1 - 1) + c]]
          BY <4>3, <4>4, RowAt
        <5>2. \A c \in 1..Cols : Cols * (1 - 1) + c = c
          BY ColsNat
        <5> QED BY <5>1, <5>2
      <4>6. rowAt(values, 1) = values
        BY <4>2, <4>5 DEF ValueRow
      <4>7. pos = 1
        BY <2>2, <4>1 DEF Singleton
      <4> QED BY <4>1, <4>3, <4>4, <4>6, <4>7
    <3> QED BY <3>1, <3>2
  <2> QED BY <2>1, <2>2 DEF Init
<1>a. /\ hasCursor \in BOOLEAN /\ cursorOpen \in BOOLEAN /\ eof \in BOOLEAN
      /\ bad \in BOOLEAN /\ ctxDone \in BOOLEAN /\ closed \in BOOLEAN
      /\ (cursorOpen => hasCursor)
  BY DEF Init, Opened, Singleton
<1>b. /\ result \in Results /\ fetchSize \in FetchSizes /\ bufIdx \in 0..buf
      /\ call = Idle /\ told = "none" /\ out \in Seq(ValueRow)
  BY <1>2 DEF Init
<1>3. TypeInv
  BY <1>2, <1>a, <1>b DEF TypeInv
<1>4. Len(out) = 0 /\ told = "none" /\ call = Idle /\ bufIdx = 0 /\ closed = FALSE
  BY DEF Init
<1>5. OutInv
  BY <1>1, <1>4 DEF OutInv
<1>6. BufferInv
  <2>1. \A i \in 1..buf : Len(out) + i - bufIdx = i
    BY <1>2, <1>4
  <2> QED BY <1>2, <1>4, <2>1 DEF BufferInv
<1>7. BatchInv
  BY <1>4 DEF BatchInv
<1>8. CursorInv
  BY <1>a, <1>4 DEF CursorInv
<1> QED BY <1>3, <1>5, <1>6, <1>7, <1>8 DEF RowsInv

\* Steps that leave the rows alone: contexts, connections, Close, errors.
LEMMA KeepsRows ==
  ASSUME RowsInv, UNCHANGED <<result, fetchSize, pos, values, buf, bufIdx, eof, call, out>>,
         told' = told \/ (call = Idle /\ told' = "error"),
         closed' = closed \/ call = Idle,
         TypeInv'
  PROVE  OutInv' /\ BufferInv' /\ BatchInv'
<1>1. OutInv'
  BY DEF RowsInv, OutInv, Wanted
<1>2. BufferInv'
  BY DEF RowsInv, BufferInv, Wanted
<1>3. BatchInv'
  BY DEF RowsInv, BatchInv, Wanted
<1> QED BY <1>1, <1>2, <1>3

\* Next takes a row from the buffer.
LEMMA NextBufferedRows == ASSUME RowsInv, NextBuffered PROVE RowsInv'
<1>1. TypeInv /\ OutInv /\ BufferInv /\ BatchInv /\ CursorInv
  BY DEF RowsInv
<1>2. /\ call = Idle /\ call' = Idle /\ told \in {"none", "row"} /\ told' = "row"
      /\ bufIdx < buf /\ bufIdx' = bufIdx + 1 /\ out' = Append(out, rowAt(values, bufIdx + 1))
      /\ UNCHANGED <<server, hasCursor, bad, ctxDone, values, buf, eof, closed>>
  BY DEF NextBuffered
<1>3. result \in Seq(ValueRow) /\ Len(result) \in Nat
      /\ \A k \in 1..Len(result) : result[k] \in ValueRow /\ Wanted(k) \in ValueRow
  BY <1>1, ResultRows
<1>4. buf \in Nat /\ bufIdx \in 0..buf /\ pos \in 0..Len(result) /\ out \in Seq(ValueRow)
  BY <1>1 DEF TypeInv
<1>5. Len(out) \in Nat /\ pos + bufIdx = Len(out) + buf
  BY <1>1, <1>2, <1>4 DEF BufferInv
<1>6. Len(out) + 1 \in 1..Len(result)
  BY <1>2, <1>3, <1>4, <1>5
<1>7. rowAt(values, bufIdx + 1) = Wanted(Len(out) + 1)
  <2>1. bufIdx + 1 \in 1..buf /\ bufIdx + 1 > bufIdx /\ Len(out) + (bufIdx + 1) - bufIdx = Len(out) + 1
    BY <1>2, <1>4, <1>5
  <2>2. rowAt(values, bufIdx + 1) = Wanted(Len(out) + (bufIdx + 1) - bufIdx)
    BY <1>1, <2>1 DEF BufferInv
  <2> QED BY <2>1, <2>2
<1>8. out' \in Seq(ValueRow) /\ Len(out') = Len(out) + 1 /\ out'[Len(out) + 1] = Wanted(Len(out) + 1)
      /\ \A k \in 1..Len(out) : out'[k] = out[k]
  BY <1>2, <1>3, <1>4, <1>6, <1>7
<1>9. TypeInv'
  BY <1>1, <1>2, <1>4, <1>8 DEF TypeInv, server
<1>10. OutInv'
  <2>1. ASSUME NEW k \in 1..Len(out') PROVE out'[k] = Wanted(k)
    <3>1. k \in 1..Len(out) \/ k = Len(out) + 1
      BY <1>5, <1>8
    <3> QED BY <1>1, <1>8, <3>1 DEF OutInv
  <2>2. result' = result
    BY <1>2 DEF server
  <2> QED BY <1>2, <1>6, <1>8, <2>1, <2>2 DEF OutInv, Wanted
<1>11. BufferInv'
  <2>1. pos' + bufIdx' = Len(out') + buf'
    BY <1>2, <1>4, <1>5, <1>8 DEF server
  <2>2. ASSUME NEW i \in 1..buf, i > bufIdx' PROVE rowAt(values, i) = Wanted(Len(out') + i - bufIdx')
    <3>1. i > bufIdx /\ Len(out') + i - bufIdx' = Len(out) + i - bufIdx
      BY <1>2, <1>4, <1>5, <1>8, <2>2
    <3>2. rowAt(values, i) = Wanted(Len(out) + i - bufIdx)
      BY <1>1, <3>1 DEF BufferInv
    <3> QED BY <3>1, <3>2
  <2>3. (eof' => pos' = Len(result')) /\ (bufIdx' < buf' => HasRows(values', buf'))
    BY <1>1, <1>2, <1>4 DEF BufferInv, server, HasRows
  <2> QED BY <1>2, <2>1, <2>2, <2>3 DEF BufferInv, Wanted, server
<1>12. BatchInv'
  BY <1>2 DEF BatchInv
<1>13. CursorInv'
  BY <1>1, <1>2 DEF CursorInv, server
<1> QED BY <1>9, <1>10, <1>11, <1>12, <1>13 DEF RowsInv

\* Next finds the buffer used up: the end, an error, or a fetch begins.
LEMMA NextFetchRows == ASSUME RowsInv, NextFetch PROVE RowsInv'
<1>1. TypeInv /\ OutInv /\ BufferInv /\ BatchInv /\ CursorInv
  BY DEF RowsInv
<1>2. /\ call = Idle /\ told \in {"none", "row"} /\ bufIdx >= buf /\ ~closed
      /\ UNCHANGED <<server, hasCursor, bad, ctxDone, values, buf, bufIdx, eof, closed, out>>
  BY DEF NextFetch, give
<1>3. Len(result) \in Nat /\ Len(out) \in Nat /\ buf \in Nat /\ bufIdx = buf /\ pos \in 0..Len(result)
      /\ pos = Len(out)
  <2>1. Len(result) \in Nat
    BY <1>1, ResultRows
  <2>2. Len(out) \in Nat /\ buf \in Nat /\ bufIdx \in 0..buf /\ pos \in 0..Len(result)
    BY <1>1 DEF TypeInv
  <2>3. pos + bufIdx = Len(out) + buf
    BY <1>1, <1>2 DEF BufferInv
  <2> QED BY <1>2, <2>1, <2>2, <2>3
<1>4. CursorInv'
  BY <1>1, <1>2 DEF CursorInv, server
<1>5. \/ eof /\ told' = "eof" /\ call' = Idle
      \/ told' = "error" /\ call' = Idle
      \/ /\ told' = told
         /\ call' = [op |-> "fetch", rowIdx |-> 0, mine |-> initialRoom(values),
                     reused |-> initialRoom(values) = values]
  BY DEF NextFetch, give
<1>6. CASE told' = "error" /\ call' = Idle
  <2>1. TypeInv'
    BY <1>1, <1>2, <1>6 DEF TypeInv, server
  <2> QED BY <1>2, <1>4, <1>6, <2>1, KeepsRows DEF RowsInv, server
<1>7. CASE eof /\ told' = "eof" /\ call' = Idle
  <2>1. TypeInv'
    BY <1>1, <1>2, <1>7 DEF TypeInv, server
  <2>2. Len(out) = Len(result)
    BY <1>1, <1>3, <1>7 DEF BufferInv
  <2>3. OutInv'
    BY <1>1, <1>2, <2>2 DEF OutInv, Wanted, server
  <2>4. BufferInv'
    BY <1>1, <1>2, <1>7 DEF BufferInv, Wanted, server
  <2>5. BatchInv'
    BY <1>7 DEF BatchInv
  <2> QED BY <1>4, <2>1, <2>3, <2>4, <2>5 DEF RowsInv
<1>8. CASE told' = told /\ call' = [op |-> "fetch", rowIdx |-> 0, mine |-> initialRoom(values),
                                    reused |-> initialRoom(values) = values]
  <2>1. call' \in FetchCall /\ call'.rowIdx = 0 /\ call'.op = "fetch" /\ call'.mine \in Seq(Value)
    BY <1>1, <1>8, StartsWithRoom DEF FetchCall
  <2>2. TypeInv'
    BY <1>1, <1>2, <1>8, <2>1 DEF TypeInv, server
  <2>3. call' # Idle
    BY <2>1 DEF Idle
  <2>4. OutInv'
    BY <1>1, <1>2, <1>8 DEF OutInv, Wanted, server
  <2>5. BufferInv'
    BY <1>1, <1>2, <2>3 DEF BufferInv, Wanted, server
  <2>6. HasRows(call'.mine, 0)
    BY <2>1, ColsNat DEF HasRows
  <2>7. pos' = Len(out') + call'.rowIdx
    BY <1>2, <1>3, <2>1 DEF server
  <2>8. (\A i \in 1..call.rowIdx : rowAt(call.mine, i) = result[Len(out) + i])'
    BY <2>1
  <2>9. BatchInv'
    BY <1>2, <1>3, <1>8, <2>1, <2>6, <2>7, <2>8 DEF BatchInv, HasRows
  <2> QED BY <1>4, <2>2, <2>4, <2>5, <2>9 DEF RowsInv
<1> QED BY <1>5, <1>6, <1>7, <1>8


\* A row of the batch arrives.
LEMMA FetchRowRows == ASSUME RowsInv, FetchRow PROVE RowsInv'
<1>1. TypeInv /\ OutInv /\ BufferInv /\ BatchInv /\ CursorInv
  BY DEF RowsInv
<1>2. /\ call.op = "fetch" /\ pos < Len(result) /\ pos' = pos + 1
      /\ UNCHANGED <<result, fetchSize, cursorOpen, hasCursor, bad, ctxDone, values, buf, bufIdx,
                     eof, closed, told, out>>
  BY DEF FetchRow
<1>3. call \in FetchCall /\ call # Idle
  BY <1>1, <1>2, CallShape
<1> DEFINE n == call.rowIdx
           vals == room(call.mine, n)
           row == result[pos + 1]
<1>4. n \in Nat /\ call.mine \in Seq(Value) /\ call.reused \in BOOLEAN
  BY <1>3 DEF FetchCall
<1>5. Len(result) \in Nat /\ \A k \in 1..Len(result) : result[k] \in ValueRow
  BY <1>1, ResultRows
<1>6. /\ told \in {"none", "row"} /\ ~closed /\ bufIdx = buf
      /\ pos = Len(out) + n /\ HasRows(call.mine, n)
      /\ \A i \in 1..n : rowAt(call.mine, i) = result[Len(out) + i]
  BY <1>1, <1>2, <1>3 DEF BatchInv
<1>7. pos \in Nat /\ Len(out) \in Nat /\ pos + 1 \in 1..Len(result) /\ row \in ValueRow
  <2>1. pos \in 0..Len(result) /\ Len(out) \in Nat
    BY <1>1 DEF TypeInv
  <2>2. pos + 1 \in 1..Len(result)
    BY <1>2, <1>5, <2>1
  <2> QED BY <1>5, <2>1, <2>2
<1>8. vals \in Seq(Value) /\ HasRows(vals, n + 1)
      /\ \A j \in 1..n : rowAt(vals, j) = rowAt(call.mine, j)
  BY <1>1, <1>4, <1>6, Room
<1> DEFINE mine == DecodeRow(vals, n + 1, row)
<1>9. /\ mine \in Seq(Value) /\ Len(mine) = Len(vals) /\ rowAt(mine, n + 1) = row
      /\ \A j \in Nat \ {0} : j # n + 1 /\ HasRows(vals, j) => rowAt(mine, j) = rowAt(vals, j)
  <2>1. n + 1 \in Nat \ {0}
    BY <1>4
  <2> HIDE DEF vals, row, n
  <2> QED BY <1>7, <1>8, <2>1, Decoded
<1>10. call' = [op |-> "fetch", rowIdx |-> n + 1, mine |-> mine,
                reused |-> call.reused /\ n < rowCapacity(call.mine)]
  BY <1>3 DEF FetchRow, FetchCall
<1> HIDE DEF mine, vals, row, n
<1>11. call' \in FetchCall /\ call'.op = "fetch" /\ call'.rowIdx = n + 1 /\ call'.mine = mine
  <2>1. n + 1 \in Nat /\ (call.reused /\ n < rowCapacity(call.mine)) \in BOOLEAN
    BY <1>4
  <2> QED BY <1>9, <1>10, <2>1 DEF FetchCall
<1>12. TypeInv'
  BY <1>1, <1>2, <1>7, <1>11 DEF TypeInv
<1>13. call' # Idle
  BY <1>11 DEF Idle
<1>14. OutInv'
  BY <1>1, <1>2 DEF OutInv, Wanted
<1>15. BufferInv'
  <2>1. ~eof'
    <3>1. ~eof
      BY <1>1, <1>2, <1>5, <1>7 DEF BufferInv
    <3> QED BY <1>2, <3>1
  <2> QED BY <1>1, <1>2, <1>13, <2>1 DEF BufferInv, Wanted
<1>16. HasRows(mine, n + 1)
  BY <1>8, <1>9 DEF HasRows
<1>17. ASSUME NEW i \in 1..n + 1 PROVE rowAt(mine, i) = result[Len(out) + i]
  <2>1. CASE i = n + 1
    <3>1. Len(out) + i = pos + 1
      BY <1>4, <1>6, <1>7, <2>1 DEF n
    <3> QED BY <1>9, <2>1, <3>1 DEF row
  <2>2. CASE i # n + 1
    <3>1. i \in 1..n /\ i \in Nat \ {0} /\ n + 1 \in Nat /\ i <= n + 1
      BY <1>4, <2>2
    <3>2. HasRows(vals, i)
      BY <1>8, <3>1, Longer
    <3>3. rowAt(mine, i) = rowAt(call.mine, i)
      BY <1>8, <1>9, <2>2, <3>1, <3>2
    <3> QED BY <1>6, <3>1, <3>3 DEF n
  <2> QED BY <2>1, <2>2
<1>18. BatchInv'
  <2>1. pos' = Len(out') + call'.rowIdx
    BY <1>2, <1>4, <1>6, <1>7, <1>11 DEF n
  <2>2. (told \in {"none", "row"} /\ ~closed /\ bufIdx = buf)'
    BY <1>2, <1>6
  <2>3. HasRows(call'.mine, call'.rowIdx)
    BY <1>11, <1>16
  <2>4. \A i \in 1..call'.rowIdx : rowAt(call'.mine, i) = result'[Len(out') + i]
    BY <1>2, <1>11, <1>17
  <2> QED BY <1>11, <2>1, <2>2, <2>3, <2>4 DEF BatchInv, HasRows
<1>19. CursorInv'
  BY <1>1, <1>2 DEF CursorInv
<1> QED BY <1>12, <1>14, <1>15, <1>18, <1>19 DEF RowsInv

\* The batch ends; an empty one only at the end of the result.
LEMMA FetchEndRows == ASSUME RowsInv, FetchEnd PROVE RowsInv'
<1>1. TypeInv /\ OutInv /\ BufferInv /\ BatchInv /\ CursorInv
  BY DEF RowsInv
<1>2. /\ call.op = "fetch"
      /\ \/ pos = Len(result) /\ call.rowIdx < fetchSize
         \/ call.rowIdx > 0
      /\ call' = [op |-> "blobs", rowIdx |-> call.rowIdx, mine |-> call.mine, done |-> 0,
                  eof |-> pos = Len(result) /\ call.rowIdx < fetchSize]
      /\ UNCHANGED <<server, hasCursor, bad, ctxDone, values, buf, bufIdx, eof, closed, told, out>>
  BY DEF FetchEnd
<1>3. call \in FetchCall /\ call # Idle
  BY <1>1, <1>2, CallShape
<1>4. call.rowIdx \in Nat /\ call.mine \in Seq(Value)
  BY <1>3 DEF FetchCall
<1>5. /\ call' \in BlobsCall /\ call'.op = "blobs" /\ call'.rowIdx = call.rowIdx
      /\ call'.mine = call.mine /\ call'.done = 0
  BY <1>2, <1>4 DEF BlobsCall
<1>6. call'.eof <=> pos = Len(result) /\ call.rowIdx < fetchSize
  BY <1>2
<1>7. /\ told \in {"none", "row"} /\ ~closed /\ bufIdx = buf
      /\ pos = Len(out) + call.rowIdx /\ HasRows(call.mine, call.rowIdx)
      /\ \A i \in 1..call.rowIdx : rowAt(call.mine, i) = result[Len(out) + i]
  BY <1>1, <1>2, <1>3 DEF BatchInv
<1>8. TypeInv'
  BY <1>1, <1>2, <1>5 DEF TypeInv, server
<1>9. call' # Idle
  BY <1>5 DEF Idle
<1>10. OutInv'
  BY <1>1, <1>2 DEF OutInv, Wanted, server
<1>11. BufferInv'
  BY <1>1, <1>2, <1>9 DEF BufferInv, Wanted, server
<1>12. BatchInv'
  <2>1. (/\ told \in {"none", "row"} /\ ~closed /\ bufIdx = buf
         /\ pos = Len(out) + call.rowIdx /\ HasRows(call.mine, call.rowIdx))'
    BY <1>2, <1>5, <1>7 DEF server, HasRows
  <2>2. call'.rowIdx = 0 => call'.eof
    <3>1. call.rowIdx = 0 => pos = Len(result) /\ call.rowIdx < fetchSize
      BY <1>2
    <3> QED BY <1>5, <1>6, <3>1
  <2>3. call'.eof => pos' = Len(result')
    BY <1>2, <1>6 DEF server
  <2>4. (/\ call.done <= call.rowIdx
         /\ \A i \in 1..call.done : rowAt(call.mine, i) = Wanted(Len(out) + i)
         /\ \A i \in 1..call.rowIdx : i > call.done => rowAt(call.mine, i) = result[Len(out) + i])'
    BY <1>2, <1>4, <1>5, <1>7 DEF server
  <2> QED BY <1>5, <2>1, <2>2, <2>3, <2>4 DEF BatchInv
<1>13. CursorInv'
  BY <1>1, <1>2 DEF CursorInv, server
<1> QED BY <1>8, <1>10, <1>11, <1>12, <1>13 DEF RowsInv

\* A batch is given up: nothing of the buffer was still to be handed out.
LEMMA GivenUpRows ==
  ASSUME RowsInv, NEW transport \in BOOLEAN, FetchFails(transport) \/ BlobFails(transport)
  PROVE  RowsInv'
<1>1. TypeInv /\ OutInv /\ BufferInv /\ BatchInv /\ CursorInv
  BY DEF RowsInv
<1>2. /\ call.op \in {"fetch", "blobs"} /\ bad' = (bad \/ transport)
      /\ values' \in {values, call.mine} /\ told' = "error" /\ call' = Idle
      /\ UNCHANGED <<server, hasCursor, ctxDone, buf, bufIdx, eof, closed, out>>
  BY DEF FetchFails, BlobFails, give
<1>3. call # Idle /\ call \in FetchCall \cup BlobsCall
  BY <1>1, <1>2, CallShape
<1>4. call.mine \in Seq(Value) /\ bufIdx = buf /\ buf \in Nat
  <2>1. call.mine \in Seq(Value)
    BY <1>3 DEF FetchCall, BlobsCall
  <2> QED BY <1>1, <1>3, <2>1 DEF BatchInv, TypeInv
<1>5. TypeInv'
  <2>1. bad' \in BOOLEAN
    BY <1>1, <1>2 DEF TypeInv
  <2>2. values' \in Seq(Value)
    BY <1>1, <1>2, <1>4 DEF TypeInv
  <2> QED BY <1>1, <1>2, <2>1, <2>2 DEF TypeInv, server
<1>6. OutInv'
  BY <1>1, <1>2 DEF OutInv, Wanted, server
<1>7. BufferInv'
  <2>1. eof' => pos' = Len(result')
    BY <1>1, <1>2 DEF BufferInv, server
  <2>2. ~(bufIdx' < buf') /\ \A i \in 1..buf' : ~(i > bufIdx')
    BY <1>2, <1>4
  <2> QED BY <1>2, <2>1, <2>2 DEF BufferInv
<1>8. BatchInv'
  BY <1>2 DEF BatchInv
<1>9. CursorInv'
  BY <1>1, <1>2 DEF CursorInv, server
<1> QED BY <1>5, <1>6, <1>7, <1>8, <1>9 DEF RowsInv


\* The blobs of one more row are read.
LEMMA ReadBlobsRows == ASSUME RowsInv, ReadBlobs PROVE RowsInv'
<1>1. TypeInv /\ OutInv /\ BufferInv /\ BatchInv /\ CursorInv
  BY DEF RowsInv
<1>2. /\ call.op = "blobs" /\ call.done < call.rowIdx
      /\ UNCHANGED <<server, hasCursor, bad, ctxDone, values, buf, bufIdx, eof, closed, told, out>>
  BY DEF ReadBlobs
<1>3. call \in BlobsCall /\ call # Idle
  BY <1>1, <1>2, CallShape
<1> DEFINE n == call.rowIdx
           d == call.done
           raw == rowAt(call.mine, d + 1)
           mine == DecodeRow(call.mine, d + 1, contents(raw))
<1>4. n \in Nat /\ d \in Nat /\ call.mine \in Seq(Value) /\ call.eof \in BOOLEAN
  BY <1>3 DEF BlobsCall
<1>5. /\ told \in {"none", "row"} /\ ~closed /\ bufIdx = buf
      /\ pos = Len(out) + n /\ HasRows(call.mine, n)
      /\ (call.eof => pos = Len(result)) /\ (n = 0 => call.eof)
      /\ \A i \in 1..d : rowAt(call.mine, i) = Wanted(Len(out) + i)
      /\ \A i \in 1..n : i > d => rowAt(call.mine, i) = result[Len(out) + i]
  BY <1>1, <1>2, <1>3 DEF BatchInv
<1>6. d + 1 \in 1..n /\ d + 1 \in Nat \ {0} /\ d + 1 > d
  BY <1>2, <1>4
<1>7. HasRows(call.mine, d + 1)
  BY <1>4, <1>5, <1>6, Longer
<1>8. raw \in ValueRow /\ contents(raw) \in ValueRow
  <2>1. raw \in ValueRow
    BY <1>4, <1>6, <1>7, RowAt
  <2> QED BY <2>1, ContentsRow
<1>9. /\ mine \in Seq(Value) /\ Len(mine) = Len(call.mine) /\ rowAt(mine, d + 1) = contents(raw)
      /\ \A j \in Nat \ {0} : j # d + 1 /\ HasRows(call.mine, j) =>
           rowAt(mine, j) = rowAt(call.mine, j)
  <2> HIDE DEF raw, d
  <2> QED BY <1>4, <1>6, <1>7, <1>8, Decoded
<1>10. contents(raw) = Wanted(Len(out) + (d + 1))
  <2>1. raw = result[Len(out) + (d + 1)]
    BY <1>5, <1>6
  <2> QED BY <2>1 DEF Wanted
<1>11. call' = [op |-> "blobs", rowIdx |-> n, mine |-> mine, done |-> d + 1, eof |-> call.eof]
  BY <1>3 DEF ReadBlobs, BlobsCall
<1> HIDE DEF mine, raw, d, n
<1>12. /\ call' \in BlobsCall /\ call'.op = "blobs" /\ call'.rowIdx = n
       /\ call'.mine = mine /\ call'.done = d + 1 /\ call'.eof = call.eof
  BY <1>4, <1>9, <1>11 DEF BlobsCall, n, d
<1>13. TypeInv'
  BY <1>1, <1>2, <1>12 DEF TypeInv, server
<1>14. call' # Idle
  BY <1>12 DEF Idle
<1>15. OutInv'
  BY <1>1, <1>2 DEF OutInv, Wanted, server
<1>16. BufferInv'
  BY <1>1, <1>2, <1>14 DEF BufferInv, Wanted, server
<1>17. ASSUME NEW j \in 1..n, j # d + 1 PROVE rowAt(mine, j) = rowAt(call.mine, j)
  <2>1. j \in Nat \ {0} /\ HasRows(call.mine, j)
    <3>1. j \in Nat /\ j # 0 /\ j <= n
      BY <1>4, <1>17
    <3> QED BY <1>4, <1>5, <3>1, Longer DEF n
  <2> QED BY <1>9, <1>17, <2>1
<1>18. ASSUME NEW j \in 1..d + 1 PROVE rowAt(mine, j) = Wanted(Len(out) + j)
  <2>1. CASE j = d + 1
    BY <1>9, <1>10, <2>1
  <2>2. CASE j # d + 1
    <3>1. j \in 1..d /\ j \in 1..n
      BY <1>4, <1>6, <2>2 DEF d, n
    <3> QED BY <1>5, <1>17, <2>2, <3>1 DEF d
  <2> QED BY <2>1, <2>2
<1>19. ASSUME NEW j \in 1..n, j > d + 1 PROVE rowAt(mine, j) = result[Len(out) + j]
  <2>1. j > d /\ j # d + 1
    BY <1>4, <1>19 DEF n, d
  <2> QED BY <1>5, <1>17, <2>1 DEF n, d
<1>20. BatchInv'
  <2>1. (/\ told \in {"none", "row"} /\ ~closed /\ bufIdx = buf
         /\ pos = Len(out) + call.rowIdx)'
    BY <1>2, <1>5, <1>12 DEF server
  <2>2. HasRows(call'.mine, call'.rowIdx)
    BY <1>5, <1>9, <1>12 DEF HasRows, n
  <2>3. (call'.rowIdx = 0 => call'.eof) /\ (call'.eof => pos' = Len(result'))
    BY <1>2, <1>5, <1>12 DEF server, n
  <2>4. call'.done <= call'.rowIdx
    BY <1>6, <1>4, <1>12
  <2>5. (\A i \in 1..call.done : rowAt(call.mine, i) = Wanted(Len(out) + i))'
    BY <1>2, <1>12, <1>18 DEF server, Wanted
  <2>6. (\A i \in 1..call.rowIdx : i > call.done => rowAt(call.mine, i) = result[Len(out) + i])'
    BY <1>2, <1>12, <1>19 DEF server
  <2> QED BY <1>12, <2>1, <2>2, <2>3, <2>4, <2>5, <2>6 DEF BatchInv, HasRows
<1>21. CursorInv'
  BY <1>1, <1>2 DEF CursorInv, server
<1> QED BY <1>13, <1>15, <1>16, <1>20, <1>21 DEF RowsInv

\* The batch becomes the buffer and its first row is handed out.
LEMMA FetchReturnsRows == ASSUME RowsInv, FetchReturns PROVE RowsInv'
<1>1. TypeInv /\ OutInv /\ BufferInv /\ BatchInv /\ CursorInv
  BY DEF RowsInv
<1>2. /\ call.op = "blobs" /\ call.done = call.rowIdx /\ values' = call.mine
      /\ buf' = call.rowIdx /\ eof' = (eof \/ call.eof) /\ call' = Idle
      /\ UNCHANGED <<server, hasCursor, bad, ctxDone, closed>>
  BY DEF FetchReturns
<1>3. call \in BlobsCall /\ call # Idle
  BY <1>1, <1>2, CallShape
<1> DEFINE n == call.rowIdx
<1>4. n \in Nat /\ call.mine \in Seq(Value) /\ call.eof \in BOOLEAN
  BY <1>3 DEF BlobsCall
<1>5. /\ pos = Len(out) + n /\ HasRows(call.mine, n)
      /\ (call.eof => pos = Len(result)) /\ (n = 0 => call.eof)
      /\ \A i \in 1..n : rowAt(call.mine, i) = Wanted(Len(out) + i)
  BY <1>1, <1>2, <1>3 DEF BatchInv
<1>6. Len(out) \in Nat /\ Len(result) \in Nat /\ pos \in 0..Len(result) /\ out \in Seq(ValueRow)
      /\ \A k \in 1..Len(result) : Wanted(k) \in ValueRow
  BY <1>1, ResultRows DEF TypeInv
<1>7. BatchInv'
  BY <1>2 DEF BatchInv
<1>8. CursorInv'
  BY <1>1, <1>2 DEF CursorInv, server
<1>9. eof' \in BOOLEAN /\ (eof' => pos' = Len(result'))
  BY <1>1, <1>2, <1>4, <1>5 DEF BufferInv, TypeInv, server
<1>10. CASE n = 0
  <2>1. bufIdx' = 0 /\ told' = "eof" /\ out' = out /\ buf' = 0
    BY <1>2, <1>10 DEF FetchReturns
  <2>2. TypeInv'
    BY <1>1, <1>2, <1>4, <1>9, <2>1 DEF TypeInv, server
  <2>3. Len(out) = Len(result)
    BY <1>5, <1>6, <1>10
  <2>4. OutInv'
    BY <1>1, <1>2, <2>1, <2>3 DEF OutInv, Wanted, server
  <2>5. BufferInv'
    BY <1>9, <2>1 DEF BufferInv
  <2> QED BY <1>7, <1>8, <2>2, <2>4, <2>5 DEF RowsInv
<1>11. CASE n # 0
  <2>1. bufIdx' = 1 /\ told' = "row" /\ out' = Append(out, rowAt(call.mine, 1))
    BY <1>2, <1>11 DEF FetchReturns
  <2>2. 1 \in 1..n /\ Len(out) + 1 \in 1..Len(result)
    BY <1>4, <1>5, <1>6, <1>11
  <2>3. rowAt(call.mine, 1) = Wanted(Len(out) + 1) /\ Wanted(Len(out) + 1) \in ValueRow
    BY <1>5, <1>6, <2>2
  <2>4. /\ out' \in Seq(ValueRow) /\ Len(out') = Len(out) + 1
        /\ out'[Len(out) + 1] = Wanted(Len(out) + 1) /\ \A k \in 1..Len(out) : out'[k] = out[k]
    BY <1>6, <2>1, <2>3
  <2>5. TypeInv'
    <3>1. buf' \in Nat /\ bufIdx' \in 0..buf'
      BY <1>2, <1>4, <1>11, <2>1
    <3> QED BY <1>1, <1>2, <1>4, <1>9, <2>1, <2>4, <3>1 DEF TypeInv, server
  <2>6. OutInv'
    <3>1. ASSUME NEW k \in 1..Len(out') PROVE out'[k] = Wanted(k)
      <4>1. k \in 1..Len(out) \/ k = Len(out) + 1
        BY <1>6, <2>4
      <4> QED BY <1>1, <2>4, <4>1 DEF OutInv
    <3> QED BY <1>2, <2>1, <2>2, <2>4, <3>1 DEF OutInv, Wanted, server
  <2>7. BufferInv'
    <3>1. pos' + bufIdx' = Len(out') + buf'
      <4>1. pos' = pos /\ buf' = n
        BY <1>2 DEF server
      <4> HIDE DEF n
      <4> QED BY <1>4, <1>5, <1>6, <2>1, <2>4, <4>1
    <3>2. HasRows(values', buf')
      BY <1>2, <1>5
    <3>3. ASSUME NEW i \in 1..n, i > 1 PROVE rowAt(call.mine, i) = Wanted(Len(out') + i - bufIdx')
      <4>1. Len(out') + i - bufIdx' = Len(out) + i
        BY <1>4, <1>6, <2>1, <2>4
      <4> QED BY <1>5, <4>1
    <3> QED BY <1>2, <1>9, <2>1, <3>1, <3>2, <3>3 DEF BufferInv, Wanted, HasRows, server
  <2> QED BY <1>7, <1>8, <2>5, <2>6, <2>7 DEF RowsInv
<1> QED BY <1>10, <1>11

\* Close, a context that ends, a connection that breaks: the rows stay as they are.
LEMMA OtherRows ==
  ASSUME RowsInv, NextCancelled \/ Close \/ CancelContext \/ ConnectionBreaks
  PROVE  RowsInv'
<1>1. TypeInv /\ CursorInv
  BY DEF RowsInv
<1>2. /\ UNCHANGED <<result, fetchSize, pos, values, buf, bufIdx, eof, call, out>>
      /\ told' = told \/ (call = Idle /\ told' = "error")
      /\ closed' = closed \/ call = Idle
  BY DEF NextCancelled, Close, CancelContext, ConnectionBreaks, give, server
<1>3. closed' \in BOOLEAN /\ cursorOpen' \in BOOLEAN /\ bad' \in BOOLEAN
      /\ ctxDone' \in BOOLEAN /\ hasCursor' \in BOOLEAN
  BY <1>1 DEF NextCancelled, Close, CancelContext, ConnectionBreaks, server, TypeInv
<1>4. TypeInv'
  BY <1>1, <1>2, <1>3 DEF TypeInv
<1>5. CursorInv'
  <2>1. CASE NextCancelled \/ CancelContext
    BY <1>1, <2>1 DEF CursorInv, NextCancelled, CancelContext, server
  <2>2. CASE ConnectionBreaks
    BY <1>1, <2>2 DEF CursorInv, ConnectionBreaks, server
  <2>3. CASE Close
    <3>1. hasCursor' = hasCursor /\ (cursorOpen => hasCursor)
      BY <1>1, <2>3 DEF Close, CursorInv
    <3>2. CASE cursorOpen' = (cursorOpen /\ ~(hasCursor /\ ~bad)) /\ bad' = bad
      <4>1. cursorOpen' => cursorOpen /\ bad'
        BY <3>1, <3>2
      <4> QED BY <3>1, <4>1 DEF CursorInv
    <3>3. CASE bad' = TRUE /\ cursorOpen' = cursorOpen
      BY <3>1, <3>3 DEF CursorInv
    <3> QED BY <2>3, <3>2, <3>3 DEF Close
  <2> QED BY <2>1, <2>2, <2>3
<1> QED BY <1>2, <1>4, <1>5, KeepsRows DEF RowsInv

\* Every step preserves the invariant.
LEMMA StepRows == ASSUME RowsInv, [Next]_vars PROVE RowsInv'
<1>1. CASE UNCHANGED vars
  BY <1>1 DEF vars, server, RowsInv, TypeInv, OutInv, BufferInv, BatchInv, CursorInv, Wanted
<1>2. CASE Reading
  BY <1>2, NextBufferedRows, NextFetchRows, OtherRows, FetchRowRows, FetchEndRows, ReadBlobsRows,
     FetchReturnsRows DEF Reading
<1>3. CASE Failing
  BY <1>3, GivenUpRows DEF Failing
<1> QED BY <1>1, <1>2, <1>3, OtherRows DEF Next

\* The rows handed out, those in the buffer and those of a batch on its way are
\* consecutive rows of the result, whatever the buffers were used for before.
THEOREM RowsInvariant == Spec => []RowsInv
<1>1. Init => RowsInv
  BY InitRows
<1>2. RowsInv /\ [Next]_vars => RowsInv'
  BY StepRows
<1> QED BY <1>1, <1>2, PTL DEF Spec

----------------------------------------------------------------------------
(* The refinement *)

\* The status that the abstract cursor has.
Status == IF told = "eof" THEN "end" ELSE IF closed \/ told = "error" THEN "failed" ELSE "open"

\* The result that the abstract cursor has.
Seen == [i \in DOMAIN result |-> contents(result[i])]

\* The rows of the abstract result.
LEMMA SeenRows ==
  ASSUME TypeInv
  PROVE  /\ Seen \in Seq(ValueRow) /\ Len(Seen) = Len(result)
         /\ \A k \in 1..Len(result) : Seen[k] = Wanted(k)
<1>1. result \in Seq(ValueRow) /\ Len(result) \in Nat
      /\ \A k \in 1..Len(result) : Wanted(k) \in ValueRow
  BY ResultRows
<1>2. Seen = [i \in 1..Len(result) |-> Wanted(i)]
  BY <1>1 DEF Seen, Wanted
<1> QED BY <1>1, <1>2

\* A row handed out is the abstract cursor's next row.
LEMMA HandsOut ==
  ASSUME RowsInv, RowsInv', result' = result, Len(out') = Len(out) + 1,
         \E row : out' = Append(out, row)
  PROVE  Len(out) < Len(Seen) /\ out' = Append(out, Seen[Len(out) + 1])
<1>1. TypeInv /\ OutInv' /\ TypeInv'
  BY DEF RowsInv
<1>2. out \in Seq(ValueRow) /\ Len(out) \in Nat /\ Len(result) \in Nat
  BY <1>1, ResultRows DEF TypeInv
<1>3. Len(out) + 1 <= Len(result) /\ out'[Len(out) + 1] = Wanted(Len(out) + 1)
  <2>1. Len(out') <= Len(result') /\ \A k \in 1..Len(out') : out'[k] = contents(result'[k])
    BY <1>1 DEF OutInv, Wanted
  <2>2. Len(out) + 1 \in 1..Len(out')
    BY <1>2
  <2> QED BY <2>1, <2>2 DEF Wanted
<1>4. PICK row : out' = Append(out, row)
  OBVIOUS
<1>5. out'[Len(out) + 1] = row
  BY <1>2, <1>4
<1>6. Len(Seen) = Len(result) /\ Seen[Len(out) + 1] = Wanted(Len(out) + 1)
  <2>1. Len(out) + 1 \in 1..Len(result)
    BY <1>2, <1>3
  <2> QED BY <1>1, <2>1, SeenRows
<1> QED BY <1>2, <1>3, <1>4, <1>5, <1>6

\* At io.EOF all rows were handed out.
LEMMA AllOut ==
  ASSUME RowsInv, Len(out) = Len(result) PROVE out = Seen
<1>1. TypeInv /\ OutInv
  BY DEF RowsInv
<1>2. out \in Seq(ValueRow) /\ Seen \in Seq(ValueRow) /\ Len(Seen) = Len(out)
  BY <1>1, SeenRows DEF TypeInv
<1>3. \A k \in 1..Len(out) : out[k] = Seen[k]
  BY <1>1, SeenRows DEF OutInv
<1> QED BY <1>2, <1>3


\* Every step of the rows is a step of the abstract cursor or leaves it alone.
LEMMA StepRefines ==
  ASSUME RowsInv, RowsInv', [Next]_vars
  PROVE  [Cursor!Next]_(Cursor!vars)
<1> DEFINE Row == /\ Status = "open" /\ Len(out) < Len(Seen)
                  /\ out' = Append(out, Seen[Len(out) + 1])
                  /\ Seen' = Seen /\ Status' = Status
           End == Status = "open" /\ out = Seen /\ Status' = "end" /\ Seen' = Seen /\ out' = out
           Fail == Status = "open" /\ Status' = "failed" /\ Seen' = Seen /\ out' = out
           Still == Seen' = Seen /\ out' = out /\ Status' = Status
<1>1. SUFFICES Row \/ End \/ Fail \/ Still
  BY DEF Cursor!Next, Cursor!Row, Cursor!End, Cursor!Fail, Cursor!vars, Seen, Status
<1>2. TypeInv /\ OutInv /\ BufferInv /\ BatchInv /\ TypeInv'
  BY DEF RowsInv
<1>3. ASSUME result' = result PROVE Seen' = Seen
  BY <1>3 DEF Seen
<1>4. ASSUME told \in {"none", "row"}, ~closed PROVE Status = "open"
  BY <1>4 DEF Status
<1>5. ASSUME told' \in {"none", "row"}, ~closed' PROVE Status' = "open"
  BY <1>5 DEF Status
<1>6. CASE UNCHANGED vars
  BY <1>6 DEF vars, server, Seen, Status
<1>7. CASE NextBuffered
  <2>1. result' = result /\ told \in {"none", "row"} /\ told' = "row" /\ ~closed /\ ~closed'
        /\ out' = Append(out, rowAt(values, bufIdx + 1))
    BY <1>7 DEF NextBuffered, server
  <2>2. Len(out') = Len(out) + 1
    BY <1>2, <2>1 DEF TypeInv
  <2> QED BY <1>3, <1>4, <1>5, <2>1, <2>2, HandsOut
<1>8. CASE NextFetch
  <2>1. result' = result /\ told \in {"none", "row"} /\ ~closed /\ ~closed' /\ out' = out
        /\ told' \in {told, "eof", "error"}
    BY <1>8 DEF NextFetch, server, give
  <2>2. CASE told' = told
    BY <1>3, <1>4, <1>5, <2>1, <2>2
  <2>3. CASE told' = "error"
    <3>1. Status' = "failed"
      BY <2>3 DEF Status
    <3> QED BY <1>3, <1>4, <2>1, <3>1
  <2>4. CASE told' = "eof"
    <3>1. Status' = "end"
      BY <2>4 DEF Status
    <3>2. Len(out) = Len(result)
      BY <2>1, <2>4 DEF RowsInv, OutInv
    <3> QED BY <1>3, <1>4, <2>1, <3>1, <3>2, AllOut
  <2> QED BY <2>1, <2>2, <2>3, <2>4
<1>9. CASE FetchRow \/ FetchEnd \/ ReadBlobs \/ CancelContext \/ ConnectionBreaks
  <2>1. result' = result /\ told' = told /\ closed' = closed /\ out' = out
    BY <1>9 DEF FetchRow, FetchEnd, ReadBlobs, CancelContext, ConnectionBreaks, server
  <2> QED BY <1>3, <2>1 DEF Status
<1>10. CASE NextCancelled \/ Failing
  <2>1. result' = result /\ told' = "error" /\ out' = out
    BY <1>10 DEF NextCancelled, Failing, FetchFails, BlobFails, server, give
  <2>2. told \in {"none", "row"} /\ ~closed
    <3>1. CASE NextCancelled
      BY <3>1 DEF NextCancelled
    <3>2. CASE Failing
      <4>1. call.op \in {"fetch", "blobs"}
        BY <3>2 DEF Failing, FetchFails, BlobFails
      <4>2. call # Idle
        BY <1>2, <4>1, CallShape
      <4> QED BY <1>2, <4>2 DEF BatchInv
    <3> QED BY <1>10, <3>1, <3>2
  <2>3. Status' = "failed"
    BY <2>1 DEF Status
  <2> QED BY <1>3, <1>4, <2>1, <2>2, <2>3
<1>11. CASE FetchReturns
  <2>1. result' = result /\ closed' = closed /\ call.op = "blobs"
    BY <1>11 DEF FetchReturns, server
  <2>2. told \in {"none", "row"} /\ ~closed
    <3>1. call # Idle
      BY <1>2, <2>1, CallShape
    <3> QED BY <1>2, <3>1 DEF BatchInv
  <2>3. CASE call.rowIdx = 0
    <3>1. told' = "eof" /\ out' = out
      BY <1>11, <2>3 DEF FetchReturns
    <3>2. Len(out) = Len(result)
      BY <2>1, <3>1 DEF RowsInv, OutInv
    <3>3. Status' = "end"
      BY <3>1 DEF Status
    <3> QED BY <1>3, <1>4, <2>1, <2>2, <3>1, <3>2, <3>3, AllOut
  <2>4. CASE call.rowIdx # 0
    <3>1. told' = "row" /\ out' = Append(out, rowAt(call.mine, 1))
      BY <1>11, <2>4 DEF FetchReturns
    <3>2. Len(out') = Len(out) + 1
      BY <1>2, <3>1 DEF TypeInv
    <3> QED BY <1>3, <1>4, <1>5, <2>1, <2>2, <3>1, <3>2, HandsOut
  <2> QED BY <2>3, <2>4
<1>12. CASE Close
  <2>1. result' = result /\ told' = told /\ closed' = TRUE /\ out' = out /\ closed = FALSE
    BY <1>2, <1>12 DEF Close, TypeInv
  <2>2. CASE told \in {"none", "row"}
    <3>1. Status' = "failed"
      BY <2>1, <2>2 DEF Status
    <3> QED BY <1>3, <1>4, <2>1, <2>2, <3>1
  <2>3. CASE told \in {"eof", "error"}
    <3>1. Status' = Status
      BY <2>1, <2>3 DEF Status
    <3> QED BY <1>3, <2>1, <3>1
  <2> QED BY <1>2, <2>2, <2>3 DEF TypeInv
<1> QED BY <1>6, <1>7, <1>8, <1>9, <1>10, <1>11, <1>12 DEF Next, Reading

\* rows.go implements the abstract cursor, as far as safety goes: batches, buffers
\* used again, blobs and errors never show in the rows that Next hands out, and
\* io.EOF comes after the last row only.
THEOREM RowsRefineCursor == Spec => Cursor!Safety
<1>1. Init => Cursor!Init
  BY DEF Init, Cursor!Init
<1>2. RowsInv /\ RowsInv' /\ [Next]_vars => [Cursor!Next]_(Cursor!vars)
  BY StepRefines
<1> QED BY <1>1, <1>2, RowsInvariant, PTL DEF Spec, Cursor!Safety

============================================================================
