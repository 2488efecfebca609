--------------------------- MODULE FbReader_proofs --------------------------
(***************************************************************************)
(* The framing of the answers, for every size of the window, every way the *)
(* socket cuts the stream and every sequence of answers.  The unread bytes *)
(* of the window, followed by what has not left the socket, are always     *)
(* what the server still owes: the rest of the answer being read, then the *)
(* answers after it.                                                       *)
(***************************************************************************)
EXTENDS FbReader, SequenceTheorems, WellFoundedInduction, TLAPS

----------------------------------------------------------------------------
(* Sequences of bytes *)

Byte == Nat \X Int \X Nat

LEMMA LeastNat ==
  ASSUME NEW T \in SUBSET Nat, T # {}
  PROVE  \E m \in T : \A k \in T : m <= k
<1>1. IsWellFoundedOn(OpToRel(<, Nat), Nat)
  BY NatLessThanWellFounded
<1>2. PICK m \in T : \A k \in T : <<k, m>> \notin OpToRel(<, Nat)
  BY <1>1, WFMin
<1>3. \A k \in T : ~(k < m)
  BY <1>2 DEF OpToRel
<1> QED BY <1>3

IsConcat(c, s, n) == c = [i \in 0..n |-> IF i = 0 THEN <<>> ELSE c[i - 1] \o s[i]]

LEMMA ConcatExists ==
  ASSUME NEW s, NEW n \in Nat
  PROVE  \E c : IsConcat(c, s, n)
<1> DEFINE T == {k \in Nat : ~ \E c : IsConcat(c, s, k)}
<1>1. SUFFICES ASSUME T # {} PROVE FALSE
  OBVIOUS
<1>2. PICK m \in T : \A k \in T : m <= k
  BY <1>1, LeastNat
<1>3. CASE m = 0
  <2>1. IsConcat([i \in 0..0 |-> <<>>], s, 0)
    BY DEF IsConcat
  <2> QED BY <1>3, <2>1
<1>4. CASE m # 0
  <2>1. m - 1 \in Nat /\ m - 1 \notin T
    BY <1>2, <1>4
  <2>2. PICK c : IsConcat(c, s, m - 1)
    BY <2>1
  <2>3. PICK x : x = c[m - 1] \o s[m]
    OBVIOUS
  <2>4. PICK q : q = [i \in 0..m |-> IF i = m THEN x ELSE c[i]]
    OBVIOUS
  <2>5. m \in Nat /\ \A i \in 0..m - 1 : q[i] = c[i]
    BY <2>1, <2>4
  <2>6. q[m] = x /\ q[m - 1] = c[m - 1]
    BY <1>4, <2>1, <2>4
  <2>7. ASSUME NEW i \in 0..m
        PROVE  q[i] = IF i = 0 THEN <<>> ELSE q[i - 1] \o s[i]
    <3>1. CASE i = m
      BY <1>4, <2>3, <2>6, <3>1
    <3>2. CASE i # m
      <4>1. i \in 0..m - 1 /\ (i # 0 => i - 1 \in 0..m - 1)
        BY <2>1, <2>5, <3>2
      <4>2. c[i] = IF i = 0 THEN <<>> ELSE c[i - 1] \o s[i]
        BY <2>2, <4>1 DEF IsConcat
      <4>3. q[i] = c[i] /\ (i # 0 => q[i - 1] = c[i - 1])
        BY <2>5, <4>1
      <4>4. CASE i = 0
        BY <4>2, <4>3, <4>4
      <4>5. CASE i # 0
        BY <4>2, <4>3, <4>5
      <4> QED BY <4>4, <4>5
    <3> QED BY <3>1, <3>2
  <2>8. IsConcat(q, s, m)
    BY <2>4, <2>7 DEF IsConcat
  <2> QED BY <2>8
<1> QED BY <1>3, <1>4

\* What the recursion of Concat computes.
Joins(c, s, n) ==
  /\ c[0] = <<>> /\ \A i \in 1..n : c[i] = c[i - 1] \o s[i]
  /\ \A i \in 0..n : c[i] \in Seq(Byte)

LEMMA ConcatDef ==
  ASSUME NEW n \in Nat, NEW s \in [1..n -> Seq(Byte)]
  PROVE  \E c : Joins(c, s, n) /\ Concat(s) = c[n]
<1>1. s \in Seq(Seq(Byte)) /\ Len(s) = n
  OBVIOUS
<1> DEFINE c == CHOOSE c : c = [i \in 0..Len(s) |-> IF i = 0 THEN <<>> ELSE c[i - 1] \o s[i]]
<1>2. PICK d : IsConcat(d, s, Len(s))
  BY <1>1, ConcatExists
<1>3. IsConcat(c, s, Len(s))
  BY <1>2 DEF IsConcat
<1>4. Concat(s) = c[Len(s)]
  BY DEF Concat
<1> HIDE DEF c
<1>5. IsConcat(c, s, n) /\ Concat(s) = c[n]
  BY <1>1, <1>3, <1>4
<1>6. c[0] = <<>>
  BY <1>5 DEF IsConcat
<1>7. \A i \in 1..n : c[i] = c[i - 1] \o s[i]
  <2>1. ASSUME NEW i \in 1..n PROVE c[i] = c[i - 1] \o s[i]
    <3>1. i \in 0..n /\ i # 0
      OBVIOUS
    <3> QED BY <1>5, <3>1 DEF IsConcat
  <2> QED BY <2>1
<1>8. \A i \in 0..n : c[i] \in Seq(Byte)
  <2> DEFINE T == {k \in Nat : k <= n /\ c[k] \notin Seq(Byte)}
  <2>1. SUFFICES ASSUME T # {} PROVE FALSE
    OBVIOUS
  <2>2. PICK m \in T : \A k \in T : m <= k
    BY <2>1, LeastNat
  <2>3. m # 0
    <3>1. c[0] \in Seq(Byte)
      BY <1>6
    <3> QED BY <2>2, <3>1
  <2>4. m - 1 \in Nat /\ m \in 1..n /\ m - 1 \notin T
    BY <2>2, <2>3
  <2>5. c[m - 1] \in Seq(Byte) /\ s[m] \in Seq(Byte)
    BY <2>4
  <2>6. c[m] \in Seq(Byte)
    <3>1. PICK x \in Seq(Byte), y \in Seq(Byte) : x = c[m - 1] /\ y = s[m]
      BY <2>5
    <3>2. c[m] = x \o y
      BY <1>7, <2>4, <3>1
    <3> QED BY <3>2
  <2> QED BY <2>2, <2>6
<1> QED BY <1>5, <1>6, <1>7, <1>8 DEF Joins

Regroups3(a, b, c) == (a \o b) \o c = a \o (b \o c)
Regroups4(a, b, c, d) == ((a \o b) \o c) \o d = a \o (b \o (c \o d))

LEMMA Assoc ==
  ASSUME NEW a \in Seq(Byte), NEW b \in Seq(Byte), NEW c \in Seq(Byte)
  PROVE  Regroups3(a, b, c)
BY ConcatAssociative DEF Regroups3

LEMMA JoinType ==
  ASSUME NEW a \in Seq(Byte), NEW b \in Seq(Byte)
  PROVE  a \o b \in Seq(Byte)
OBVIOUS

LEMMA Assoc4 ==
  ASSUME NEW a \in Seq(Byte), NEW b \in Seq(Byte), NEW c \in Seq(Byte), NEW d \in Seq(Byte)
  PROVE  Regroups4(a, b, c, d)
<1>1. PICK x \in Seq(Byte), y \in Seq(Byte) : x = a \o b /\ y = c \o d
  BY JoinType
<1>2. Regroups3(x, c, d) /\ Regroups3(a, b, y)
  BY Assoc
<1>3. (x \o c) \o d = x \o (c \o d) /\ (a \o b) \o y = a \o (b \o y)
  BY <1>2 DEF Regroups3
<1> QED BY <1>1, <1>3 DEF Regroups4

LEMMA Empty0 ==
  ASSUME NEW a \in Seq(Byte)
  PROVE  a \o <<>> = a /\ <<>> \o a = a
BY ConcatEmptySeq

\* Concat of nothing, and of a first sequence and others.
LEMMA ConcatSplit ==
  ASSUME NEW n \in Nat, NEW s \in [1..n + 1 -> Seq(Byte)], NEW t, t = [i \in 1..n |-> s[i + 1]]
  PROVE  Concat(s) = s[1] \o Concat(t) /\ Concat(t) \in Seq(Byte)
<1>1. t \in [1..n -> Seq(Byte)] /\ s[1] \in Seq(Byte) /\ n + 1 \in Nat
  OBVIOUS
<1>2. PICK c : Joins(c, s, n + 1) /\ Concat(s) = c[n + 1]
  BY <1>1, ConcatDef
<1>3. PICK e : Joins(e, t, n) /\ Concat(t) = e[n]
  BY <1>1, ConcatDef
<1> DEFINE Same(k) == c[k + 1] = s[1] \o e[k]
<1> DEFINE T == {k \in Nat : k <= n /\ ~Same(k)}
<1> HIDE DEF Same
<1>4. T = {}
  <2>1. SUFFICES ASSUME T # {} PROVE FALSE
    OBVIOUS
  <2>2. PICK m \in T : \A k \in T : m <= k
    BY <2>1, LeastNat
  <2>3. m # 0
    <3>1. c[0] = <<>> /\ e[0] = <<>>
      BY <1>2, <1>3 DEF Joins
    <3>2. 1 \in 1..n + 1 /\ 1 - 1 = 0
      OBVIOUS
    <3>3. c[1] = c[0] \o s[1]
      BY <1>2, <3>2 DEF Joins
    <3>4. c[0 + 1] = s[1] \o e[0]
      BY <1>1, <3>1, <3>3, Empty0
    <3>5. Same(0)
      BY <3>4 DEF Same
    <3> QED BY <2>2, <3>5
  <2>4. /\ m - 1 \in Nat /\ m - 1 \notin T /\ m \in 1..n /\ m + 1 \in 1..n + 1 /\ (m + 1) - 1 = m
        /\ m - 1 \in 0..n /\ (m - 1) + 1 = m
    BY <2>2, <2>3
  <2>5. c[m] = s[1] \o e[m - 1]
    <3>1. Same(m - 1)
      BY <2>2, <2>4
    <3> QED BY <2>4, <3>1 DEF Same
  <2>6. c[m + 1] = c[m] \o s[m + 1]
    BY <1>2, <2>4 DEF Joins
  <2>7. e[m] = e[m - 1] \o t[m] /\ e[m - 1] \in Seq(Byte)
    BY <1>3, <2>4 DEF Joins
  <2>8. t[m] = s[m + 1] /\ s[m + 1] \in Seq(Byte)
    BY <2>4
  <2>9. PICK x \in Seq(Byte), y \in Seq(Byte), z \in Seq(Byte) : x = s[1] /\ y = e[m - 1] /\ z = s[m + 1]
    BY <1>1, <2>7, <2>8
  <2>10. c[m + 1] = (x \o y) \o z /\ s[1] \o e[m] = x \o (y \o z)
    BY <2>5, <2>6, <2>7, <2>8, <2>9
  <2>11. c[m + 1] = s[1] \o e[m]
    <3>1. Regroups3(x, y, z)
      BY Assoc
    <3> QED BY <2>10, <3>1 DEF Regroups3
  <2>12. Same(m)
    BY <2>11 DEF Same
  <2> QED BY <2>2, <2>12
<1>5. c[n + 1] = s[1] \o e[n]
  <2>1. ~Same(n) => n \in T
    OBVIOUS
  <2>2. Same(n)
    BY <1>4, <2>1, Zenon
  <2> QED BY <2>2 DEF Same
<1>6. n \in 0..n
  OBVIOUS
<1> QED BY <1>2, <1>3, <1>5, <1>6 DEF Joins

LEMMA ConcatType ==
  ASSUME NEW n \in Nat, NEW s \in [1..n -> Seq(Byte)]
  PROVE  Concat(s) \in Seq(Byte) /\ (n = 0 => Concat(s) = <<>>)
<1>1. PICK c : Joins(c, s, n) /\ Concat(s) = c[n]
  BY ConcatDef
<1>2. n \in 0..n
  OBVIOUS
<1> QED BY <1>1, <1>2 DEF Joins
----------------------------------------------------------------------------
(* What the server sends *)

LEMMA WordType ==
  ASSUME NEW v \in Int
  PROVE  /\ Word(v) \in Seq(Byte) /\ Len(Word(v)) = W
         /\ Int64(v) \in Seq(Byte) /\ Len(Int64(v)) = 2 * W
<1>1. W \in Nat /\ 2 * W \in Nat
  BY ReaderAssumption
<1>2. \A k \in Nat : <<0, v, k>> \in Byte /\ <<1, v, k>> \in Byte
  BY DEF Byte
<1>3. Word(v) \in [1..W -> Byte] /\ Int64(v) \in [1..2 * W -> Byte]
  <2>1. (\A k \in 1..W : k \in Nat) /\ (\A k \in 1..2 * W : k \in Nat)
    BY <1>1
  <2>2. \A k \in 1..W : <<0, v, k>> \in Byte
    BY <1>2, <2>1, Zenon
  <2>3. \A k \in 1..2 * W : <<1, v, k>> \in Byte
    BY <1>2, <2>1, Zenon
  <2> QED BY <2>2, <2>3 DEF Word, Int64
<1> QED BY <1>1, <1>3

\* The number is in its bytes.
LEMMA WordMeans ==
  ASSUME NEW v \in Int
  PROVE  wordOf(Word(v)) = v /\ int64Of(Int64(v)) = v
<1>1. 1 \in 1..W /\ 1 \in 1..2 * W
  BY ReaderAssumption
<1>2. Word(v)[1][2] = v /\ Int64(v)[1][2] = v
  BY <1>1 DEF Word, Int64
<1> QED BY <1>2 DEF wordOf, int64Of

LEMMA WordsDiffer ==
  ASSUME NEW v \in Int, NEW w \in Int, Word(v) = Word(w)
  PROVE  v = w
<1>1. wordOf(Word(v)) = v /\ wordOf(Word(w)) = w
  BY WordMeans
<1> QED BY <1>1

LEMMA PadType ==
  ASSUME NEW l \in Nat
  PROVE  pad(l) \in Nat
BY ReaderAssumption DEF pad

WireLength(s) == IF s.ext THEN Half * (Half - 1) + s.len ELSE s.len

\* The length on the wire, the bytes, the padding.
LEMMA BufferType ==
  ASSUME NEW s \in Str
  PROVE  /\ s.len \in Nat /\ WireLength(s) \in Int
         /\ Bytes(s) \in Seq(Byte) /\ Len(Bytes(s)) = s.len
         /\ Padding(pad(s.len)) \in Seq(Byte) /\ Len(Padding(pad(s.len))) = pad(s.len)
         /\ Buffer(s) = Word(WireLength(s)) \o (Bytes(s) \o Padding(pad(s.len)))
<1>1. s.len \in Nat /\ s.id \in Int /\ Half \in Nat \ {0}
  BY ReaderAssumption DEF Str
<1>2. WireLength(s) \in Int
  BY <1>1 DEF WireLength
<1>3. PICK l \in Nat, i \in Int : l = s.len /\ i = s.id
  BY <1>1
<1>4. Bytes(s) \in Seq(Byte) /\ Len(Bytes(s)) = s.len
  <2>1. \A k \in Nat : <<2, i, k>> \in Byte
    BY DEF Byte
  <2>2. Bytes(s) \in [1..l -> Byte]
    BY <1>3, <2>1 DEF Bytes
  <2> QED BY <1>3, <2>2
<1>5. Padding(pad(l)) \in Seq(Byte) /\ Len(Padding(pad(l))) = pad(l)
  <2>1. PICK n \in Nat : n = pad(l)
    BY PadType
  <2>2. <<3, 0, 0>> \in Byte
    BY DEF Byte
  <2>3. Padding(n) \in [1..n -> Byte]
    BY <2>2 DEF Padding
  <2> QED BY <2>1, <2>3
<1>6. Buffer(s) = Word(WireLength(s)) \o (Bytes(s) \o Padding(pad(s.len)))
  <2>1. PICK w \in Seq(Byte), b \in Seq(Byte), p \in Seq(Byte) :
          w = Word(WireLength(s)) /\ b = Bytes(s) /\ p = Padding(pad(s.len))
    BY <1>2, <1>3, <1>4, <1>5, WordType
  <2>2. Buffer(s) = (w \o b) \o p
    BY <2>1 DEF Buffer, WireLength
  <2>3. Regroups3(w, b, p)
    BY Assoc
  <2> QED BY <2>1, <2>2, <2>3 DEF Regroups3
<1> QED BY <1>1, <1>2, <1>3, <1>4, <1>5, <1>6

\* fixup undoes the sign extension, and only that.
LEMMA FixupMeans ==
  ASSUME NEW s \in Str
  PROVE  fixup(WireLength(s)) = s.len
<1>1. PICK l \in Nat, H \in Nat \ {0} : l = s.len /\ H = Half
  BY ReaderAssumption DEF Str
<1>2. CASE s.ext
  <2>1. l < H
    BY <1>1, <1>2 DEF Str
  <2>2. (H * (H - 1) + l) \div H = H - 1 /\ (H * (H - 1) + l) % H = l
    BY <2>1
  <2>3. WireLength(s) = H * (H - 1) + l
    BY <1>1, <1>2 DEF WireLength
  <2> QED BY <1>1, <2>2, <2>3 DEF fixup
<1>3. CASE ~s.ext
  <2>1. l < H * (H - 1)
    BY <1>1, <1>3 DEF Str
  <2>2. l \div H # H - 1
    BY <2>1
  <2>3. WireLength(s) = l
    BY <1>1, <1>3 DEF WireLength
  <2> QED BY <1>1, <2>2, <2>3 DEF fixup
<1> QED BY <1>2, <1>3

\* The value of an item of the vector, after its tag.
ItemValue(it) == IF it.tag \in StringTag THEN Buffer(it.s) ELSE Word(it.v)

LEMMA ItemType ==
  ASSUME NEW it \in Items
  PROVE  /\ it.tag \in Int /\ it.tag # IscArgEnd
         /\ it.tag \in StringTag => it.s \in Str
         /\ it.tag \notin StringTag => it.v \in Int
         /\ ItemValue(it) \in Seq(Byte) /\ itemBytes(it) = Word(it.tag) \o ItemValue(it)
         /\ itemBytes(it) \in Seq(Byte)
<1>1. StringTag \subseteq Int /\ IscArgEnd \notin StringTag
  BY DEF StringTag, IscArgString, IscArgSQLState, IscArgEnd
<1>2. /\ it.tag \in Int /\ it.tag # IscArgEnd
      /\ it.tag \in StringTag => it.s \in Str
      /\ it.tag \notin StringTag => it.v \in Int
  BY <1>1 DEF Items
<1>3. ItemValue(it) \in Seq(Byte)
  <2>1. CASE it.tag \in StringTag
    <3>1. PICK w \in Seq(Byte), b \in Seq(Byte), p \in Seq(Byte) : Buffer(it.s) = w \o (b \o p)
      BY <1>2, <2>1, BufferType, WordType
    <3> QED BY <2>1, <3>1 DEF ItemValue
  <2>2. CASE it.tag \notin StringTag
    BY <1>2, <2>2, WordType DEF ItemValue
  <2> QED BY <2>1, <2>2
<1>4. itemBytes(it) = Word(it.tag) \o ItemValue(it)
  BY DEF itemBytes, ItemValue
<1>5. Word(it.tag) \in Seq(Byte)
  BY <1>2, WordType
<1> QED BY <1>2, <1>3, <1>4, <1>5

\* Some items of a vector, and its end, followed by F.
Vector(items, k, F) ==
  Concat([i \in 1..Len(items) - k |-> itemBytes(items[k + i])]) \o (Word(IscArgEnd) \o F)

LEMMA VectorStep ==
  ASSUME NEW items \in Seq(Items), NEW k \in Nat, k <= Len(items), NEW F \in Seq(Byte)
  PROVE  /\ Vector(items, k, F) \in Seq(Byte)
         /\ k = Len(items) => Vector(items, k, F) = Word(IscArgEnd) \o F
         /\ k < Len(items) => Vector(items, k, F)
                                = Word(items[k + 1].tag) \o (ItemValue(items[k + 1]) \o Vector(items, k + 1, F))
<1>1. \A i \in 1..Len(items) : itemBytes(items[i]) \in Seq(Byte)
  BY ItemType
<1>2. PICK n \in Nat : n = Len(items) - k
  OBVIOUS
<1>3. PICK s : s = [i \in 1..n |-> itemBytes(items[k + i])]
  OBVIOUS
<1>4. s \in [1..n -> Seq(Byte)]
  <2>1. ASSUME NEW i \in 1..n PROVE itemBytes(items[k + i]) \in Seq(Byte)
    <3>1. k + i \in 1..Len(items)
      BY <1>2
    <3> QED BY <1>1, <3>1
  <2> QED BY <1>3, <2>1
<1>5. PICK z \in Seq(Byte) : z = Word(IscArgEnd) \o F
  <2>1. IscArgEnd \in Int
    BY DEF IscArgEnd
  <2>2. Word(IscArgEnd) \in Seq(Byte)
    BY <2>1, WordType
  <2> QED BY <2>2, JoinType
<1>6. Vector(items, k, F) = Concat(s) \o z
  BY <1>2, <1>3, <1>5 DEF Vector
<1>7. Concat(s) \in Seq(Byte) /\ (n = 0 => Concat(s) = <<>>)
  BY <1>4, ConcatType
<1>10. Vector(items, k, F) \in Seq(Byte)
  BY <1>6, <1>7, JoinType
<1>8. CASE k = Len(items)
  <2>1. Concat(s) = <<>>
    BY <1>2, <1>7, <1>8
  <2>2. <<>> \o z = z
    BY Empty0
  <2>3. Vector(items, k, F) = Word(IscArgEnd) \o F
    BY <1>5, <1>6, <2>1, <2>2
  <2>4. ~(k < Len(items))
    BY <1>8
  <2> QED BY <1>10, <2>3, <2>4, Zenon
<1>9. CASE k < Len(items)
  <2>1. PICK j \in Nat : n = j + 1
    BY <1>2, <1>9
  <2>2. PICK t : t = [i \in 1..j |-> s[i + 1]]
    OBVIOUS
  <2>3. Concat(s) = s[1] \o Concat(t) /\ Concat(t) \in Seq(Byte)
    BY <1>4, <2>1, <2>2, ConcatSplit
  <2>4. t = [i \in 1..Len(items) - (k + 1) |-> itemBytes(items[(k + 1) + i])]
    <3>1. j = Len(items) - (k + 1)
      BY <1>2, <2>1
    <3>2. ASSUME NEW i \in 1..j PROVE s[i + 1] = itemBytes(items[(k + 1) + i])
      <4>1. i + 1 \in 1..n /\ k + (i + 1) = (k + 1) + i
        BY <2>1
      <4> QED BY <1>3, <4>1
    <3> QED BY <2>2, <3>1, <3>2
  <2>5. Vector(items, k + 1, F) = Concat(t) \o z
    BY <1>5, <2>4 DEF Vector
  <2>6. s[1] = itemBytes(items[k + 1]) /\ k + 1 \in 1..Len(items)
    BY <1>2, <1>3, <2>1
  <2>7. items[k + 1] \in Items
    BY <2>6
  <2>8. PICK w \in Seq(Byte), v \in Seq(Byte), c \in Seq(Byte) :
          w = Word(items[k + 1].tag) /\ v = ItemValue(items[k + 1]) /\ c = Concat(t)
    BY <2>3, <2>7, ItemType, WordType
  <2>9. s[1] = w \o v
    BY <2>6, <2>7, <2>8, ItemType
  <2>10. Vector(items, k, F) = ((w \o v) \o c) \o z
    BY <1>6, <2>3, <2>8, <2>9
  <2>11. ((w \o v) \o c) \o z = w \o (v \o (c \o z))
    <3>1. Regroups4(w, v, c, z)
      BY Assoc4
    <3> QED BY <3>1 DEF Regroups4
  <2>12. Vector(items, k, F)
           = Word(items[k + 1].tag) \o (ItemValue(items[k + 1]) \o Vector(items, k + 1, F))
    BY <2>5, <2>8, <2>10, <2>11
  <2>13. k # Len(items)
    BY <1>9
  <2> QED BY <2>12, <2>13, <1>10, Zenon
<1> QED BY <1>8, <1>9

Regroups6(a, b, c, d, e, f) ==
  ((((a \o b) \o c) \o d) \o e) \o f = a \o (b \o (c \o (d \o (e \o f))))

LEMMA Assoc6 ==
  ASSUME NEW a \in Seq(Byte), NEW b \in Seq(Byte), NEW c \in Seq(Byte), NEW d \in Seq(Byte),
         NEW e \in Seq(Byte), NEW f \in Seq(Byte)
  PROVE  Regroups6(a, b, c, d, e, f)
<1>1. PICK x \in Seq(Byte) : x = (a \o b) \o c
  BY JoinType
<1>2. PICK y \in Seq(Byte) : y = d \o (e \o f)
  BY JoinType
<1>3. Regroups4(x, d, e, f) /\ Regroups4(a, b, c, y)
  BY Assoc4
<1>4. ((x \o d) \o e) \o f = x \o (d \o (e \o f))
  BY <1>3 DEF Regroups4
<1>5. ((a \o b) \o c) \o y = a \o (b \o (c \o y))
  BY <1>3 DEF Regroups4
<1> QED BY <1>1, <1>2, <1>4, <1>5 DEF Regroups6

\* The fields of an answer, followed by F.
Body(a, F) ==
  CASE a.op = opResponse ->
         Word(a.handle) \o (Int64(a.blob) \o (Buffer(a.data) \o Vector(a.items, 0, F)))
    [] a.op = opFetchResponse -> Word(a.status) \o (Word(a.messages) \o F)
    [] a.op = opSQLResponse   -> Word(a.messages) \o F

LEMMA Opcodes ==
  /\ opResponse \in Int /\ opFetchResponse \in Int /\ opSQLResponse \in Int /\ opDummy \in Int
  /\ opResponse # opFetchResponse /\ opResponse # opSQLResponse /\ opFetchResponse # opSQLResponse
  /\ opDummy \notin {opResponse, opFetchResponse, opSQLResponse}
BY DEF opResponse, opFetchResponse, opSQLResponse, opDummy

LEMMA AnswerFields ==
  ASSUME NEW a \in Answer
  PROVE  /\ a.op \in {opResponse, opFetchResponse, opSQLResponse} /\ a.op \in Int /\ a.dummies \in Nat
         /\ a.op = opResponse => a.handle \in Int /\ a.blob \in Int /\ a.data \in Str /\ a.items \in Seq(Items)
         /\ a.op = opFetchResponse => a.status \in Int /\ a.messages \in Int
         /\ a.op = opSQLResponse => a.messages \in Int
BY Opcodes DEF Answer

LEMMA BufferSeq ==
  ASSUME NEW s \in Str
  PROVE  Buffer(s) \in Seq(Byte)
<1>1. PICK w \in Seq(Byte), b \in Seq(Byte), p \in Seq(Byte) : Buffer(s) = w \o (b \o p)
  BY BufferType, WordType
<1> QED BY <1>1, JoinType

\* What follows the opcode.
Rest(a) ==
  CASE a.op = opResponse ->
         Word(a.handle) \o Int64(a.blob) \o Buffer(a.data)
           \o Concat([i \in DOMAIN a.items |-> itemBytes(a.items[i])]) \o Word(IscArgEnd)
    [] a.op = opFetchResponse -> Word(a.status) \o Word(a.messages)
    [] a.op = opSQLResponse   -> Word(a.messages)

LEMMA BodyIs ==
  ASSUME NEW a \in Answer, NEW F \in Seq(Byte)
  PROVE  Rest(a) \in Seq(Byte) /\ Rest(a) \o F = Body(a, F)
<1>1. CASE a.op = opResponse
  <2>1. a.handle \in Int /\ a.blob \in Int /\ a.data \in Str /\ a.items \in Seq(Items) /\ IscArgEnd \in Int
    BY <1>1, AnswerFields DEF IscArgEnd
  <2>2. PICK h \in Seq(Byte), b \in Seq(Byte), u \in Seq(Byte), e \in Seq(Byte) :
          h = Word(a.handle) /\ b = Int64(a.blob) /\ u = Buffer(a.data) /\ e = Word(IscArgEnd)
    BY <2>1, WordType, BufferSeq
  <2>3. PICK s : s = [i \in DOMAIN a.items |-> itemBytes(a.items[i])]
    OBVIOUS
  <2>4. PICK n \in Nat : n = Len(a.items) /\ DOMAIN a.items = 1..n
    BY <2>1
  <2>5. s \in [1..n -> Seq(Byte)]
    <3>1. ASSUME NEW i \in 1..n PROVE itemBytes(a.items[i]) \in Seq(Byte)
      <4>1. a.items[i] \in Items
        BY <2>1, <2>4
      <4> QED BY <4>1, ItemType
    <3> QED BY <2>3, <2>4, <3>1
  <2>6. PICK c \in Seq(Byte) : c = Concat(s)
    BY <2>5, ConcatType
  <2>7. Rest(a) = (((h \o b) \o u) \o c) \o e
    BY <1>1, <2>2, <2>3, <2>6, Opcodes DEF Rest
  <2>8. Vector(a.items, 0, F) = c \o (e \o F)
    <3>1. Len(a.items) - 0 = n /\ \A i \in 1..n : 0 + i = i
      BY <2>4
    <3>2. s = [i \in 1..Len(a.items) - 0 |-> itemBytes(a.items[0 + i])]
      BY <2>3, <2>4, <3>1
    <3> QED BY <2>2, <2>6, <3>2 DEF Vector
  <2>9. Body(a, F) = h \o (b \o (u \o (c \o (e \o F))))
    BY <1>1, <2>2, <2>8, Opcodes DEF Body
  <2>10. Regroups6(h, b, u, c, e, F)
    BY Assoc6
  <2>11. Rest(a) \o F = Body(a, F)
    BY <2>7, <2>9, <2>10 DEF Regroups6
  <2>12. (((h \o b) \o u) \o c) \o e \in Seq(Byte)
    BY JoinType
  <2> QED BY <2>7, <2>11, <2>12
<1>2. CASE a.op = opFetchResponse
  <2>1. PICK s \in Seq(Byte), m \in Seq(Byte) : s = Word(a.status) /\ m = Word(a.messages)
    BY <1>2, AnswerFields, WordType
  <2>2. Rest(a) = s \o m /\ Body(a, F) = s \o (m \o F)
    BY <1>2, <2>1, Opcodes DEF Rest, Body
  <2>3. Regroups3(s, m, F)
    BY Assoc
  <2>4. Rest(a) \o F = Body(a, F)
    BY <2>2, <2>3 DEF Regroups3
  <2>5. s \o m \in Seq(Byte)
    BY JoinType
  <2> QED BY <2>2, <2>4, <2>5
<1>3. CASE a.op = opSQLResponse
  <2>1. PICK m \in Seq(Byte) : m = Word(a.messages)
    BY <1>3, AnswerFields, WordType
  <2>2. Rest(a) = m /\ Body(a, F) = m \o F
    BY <1>3, <2>1, Opcodes DEF Rest, Body
  <2> QED BY <2>2
<1> QED BY <1>1, <1>2, <1>3, AnswerFields

\* An answer from its opcode on, with d keep-alives before it.
FromOpcode(a, d, F) == Concat([i \in 1..d |-> Word(opDummy)]) \o (Word(a.op) \o Body(a, F))

LEMMA FromOpcodeStep ==
  ASSUME NEW a \in Answer, NEW d \in Nat, NEW F \in Seq(Byte)
  PROVE  /\ Body(a, F) \in Seq(Byte) /\ FromOpcode(a, d, F) \in Seq(Byte)
         /\ d = 0 => FromOpcode(a, d, F) = Word(a.op) \o Body(a, F)
         /\ d > 0 => FromOpcode(a, d, F) = Word(opDummy) \o FromOpcode(a, d - 1, F)
<1>1. Body(a, F) \in Seq(Byte)
  <2>1. PICK r \in Seq(Byte) : r = Rest(a) /\ r \o F = Body(a, F)
    BY BodyIs
  <2> QED BY <2>1, JoinType
<1>2. PICK z \in Seq(Byte) : z = Word(a.op) \o Body(a, F)
  <2>1. Word(a.op) \in Seq(Byte)
    BY AnswerFields, WordType
  <2> QED BY <1>1, <2>1, JoinType
<1>3. PICK w \in Seq(Byte) : w = Word(opDummy)
  BY Opcodes, WordType
<1>4. PICK s \in [1..d -> Seq(Byte)] : s = [i \in 1..d |-> w]
  OBVIOUS
<1>5. PICK c \in Seq(Byte) : c = Concat(s) /\ (d = 0 => c = <<>>)
  BY <1>4, ConcatType
<1>6. FromOpcode(a, d, F) = c \o z
  BY <1>2, <1>3, <1>4, <1>5 DEF FromOpcode
<1>7. FromOpcode(a, d, F) \in Seq(Byte)
  BY <1>6, JoinType
<1>8. CASE d = 0
  <2>1. FromOpcode(a, d, F) = z
    BY <1>5, <1>6, <1>8, Empty0
  <2>2. ~(d > 0)
    BY <1>8
  <2> QED BY <1>1, <1>2, <1>7, <2>1, <2>2, Zenon
<1>9. CASE d # 0
  <2>1. PICK n \in Nat : n = d - 1 /\ d = n + 1 /\ d > 0
    BY <1>9
  <2>2. PICK t : t = [i \in 1..n |-> s[i + 1]]
    OBVIOUS
  <2>3. Concat(s) = s[1] \o Concat(t) /\ Concat(t) \in Seq(Byte)
    <3>1. s \in [1..n + 1 -> Seq(Byte)]
      BY <1>4, <2>1
    <3> QED BY <2>2, <3>1, ConcatSplit
  <2>4. t = [i \in 1..n |-> w] /\ s[1] = w
    BY <1>4, <2>1, <2>2
  <2>5. PICK e \in Seq(Byte) : e = Concat(t)
    BY <2>3
  <2>6. FromOpcode(a, n, F) = e \o z
    BY <1>2, <1>3, <2>4, <2>5 DEF FromOpcode
  <2>7. Regroups3(w, e, z)
    BY Assoc
  <2>8. FromOpcode(a, d, F) = w \o (e \o z)
    BY <1>5, <1>6, <2>3, <2>4, <2>5, <2>7 DEF Regroups3
  <2>9. FromOpcode(a, d, F) = Word(opDummy) \o FromOpcode(a, d - 1, F)
    BY <1>3, <2>1, <2>6, <2>8
  <2> QED BY <1>1, <1>7, <1>9, <2>9, Zenon
<1> QED BY <1>8, <1>9

LEMMA AnswerIs ==
  ASSUME NEW a \in Answer, NEW F \in Seq(Byte)
  PROVE  answerBytes(a) \in Seq(Byte) /\ answerBytes(a) \o F = FromOpcode(a, a.dummies, F)
<1>1. PICK r \in Seq(Byte) : r = Rest(a) /\ r \o F = Body(a, F)
  BY BodyIs
<1>2. PICK d \in Nat : d = a.dummies
  BY AnswerFields
<1>3. PICK w \in Seq(Byte) : w = Word(opDummy)
  BY Opcodes, WordType
<1>4. PICK c \in Seq(Byte) : c = Concat([i \in 1..d |-> Word(opDummy)])
  <2>1. PICK s \in [1..d -> Seq(Byte)] : s = [i \in 1..d |-> w]
    OBVIOUS
  <2> QED BY <1>3, <2>1, ConcatType
<1>5. PICK o \in Seq(Byte) : o = Word(a.op)
  BY AnswerFields, WordType
<1>6. answerBytes(a) = (c \o o) \o r
  BY <1>1, <1>2, <1>4, <1>5 DEF answerBytes, Rest
<1>7. Regroups4(c, o, r, F)
  BY Assoc4
<1>8. answerBytes(a) \o F = FromOpcode(a, a.dummies, F)
  BY <1>1, <1>2, <1>4, <1>5, <1>6, <1>7 DEF Regroups4, FromOpcode
<1>9. (c \o o) \o r \in Seq(Byte)
  BY JoinType
<1> QED BY <1>6, <1>8, <1>9

\* The answers after the j-th.
Follow(s, j) == Concat([i \in 1..Len(s) - j |-> answerBytes(s[j + i])])

LEMMA FollowStep ==
  ASSUME NEW s \in Seq(Answer), NEW j \in Nat, j <= Len(s)
  PROVE  /\ Follow(s, j) \in Seq(Byte)
         /\ j < Len(s) => Follow(s, j) = answerBytes(s[j + 1]) \o Follow(s, j + 1)
<1>1. \A i \in 1..Len(s) : answerBytes(s[i]) \in Seq(Byte)
  <2>1. ASSUME NEW i \in 1..Len(s) PROVE answerBytes(s[i]) \in Seq(Byte)
    <3>1. <<>> \in Seq(Byte)
      OBVIOUS
    <3>2. s[i] \in Answer
      BY ElementOfSeq
    <3> QED BY <3>1, <3>2, AnswerIs
  <2> QED BY <2>1
<1>2. PICK n \in Nat : n = Len(s) - j
  OBVIOUS
<1>3. PICK b : b = [i \in 1..n |-> answerBytes(s[j + i])]
  OBVIOUS
<1>4. b \in [1..n -> Seq(Byte)]
  <2>1. ASSUME NEW i \in 1..n PROVE answerBytes(s[j + i]) \in Seq(Byte)
    <3>1. j + i \in 1..Len(s)
      BY <1>2
    <3> QED BY <1>1, <3>1
  <2> QED BY <1>3, <2>1
<1>5. Follow(s, j) = Concat(b)
  BY <1>2, <1>3 DEF Follow
<1>6. Follow(s, j) \in Seq(Byte)
  BY <1>4, <1>5, ConcatType
<1>7. ASSUME j < Len(s) PROVE Follow(s, j) = answerBytes(s[j + 1]) \o Follow(s, j + 1)
  <2>1. PICK k \in Nat : n = k + 1
    BY <1>2, <1>7
  <2>2. PICK t : t = [i \in 1..k |-> b[i + 1]]
    OBVIOUS
  <2>3. Concat(b) = b[1] \o Concat(t)
    BY <1>4, <2>1, <2>2, ConcatSplit
  <2>4. t = [i \in 1..Len(s) - (j + 1) |-> answerBytes(s[(j + 1) + i])]
    <3>1. k = Len(s) - (j + 1)
      BY <1>2, <2>1
    <3>2. ASSUME NEW i \in 1..k PROVE b[i + 1] = answerBytes(s[(j + 1) + i])
      <4>1. i + 1 \in 1..n /\ j + (i + 1) = (j + 1) + i
        BY <2>1
      <4> QED BY <1>3, <4>1
    <3> QED BY <2>2, <3>1, <3>2
  <2>5. Follow(s, j + 1) = Concat(t)
    BY <2>4 DEF Follow
  <2>6. b[1] = answerBytes(s[j + 1])
    BY <1>3, <2>1
  <2> QED BY <1>5, <2>3, <2>5, <2>6
<1> QED BY <1>6, <1>7

----------------------------------------------------------------------------
(* The window *)

\* The bytes from st + 1 to en of b, and then r.
Stream(b, st, en, r) == SubSeq(b, st + 1, st + (en - st)) \o r

IsStream(y, b, st, en, r) ==
  /\ y \in Seq(Byte) /\ Len(y) = (en - st) + Len(r)
  /\ \A i \in 1..en - st : y[i] = b[st + i]
  /\ \A i \in 1..Len(r) : y[(en - st) + i] = r[i]

LEMMA SameBytes ==
  ASSUME NEW a \in Seq(Byte), NEW b \in Seq(Byte), Len(a) = Len(b),
         \A i \in 1..Len(a) : a[i] = b[i]
  PROVE  a = b
OBVIOUS

LEMMA SubBytes ==
  ASSUME NEW b \in Seq(Byte), NEW st \in Nat, NEW n \in Nat, st + n <= Len(b)
  PROVE  /\ SubSeq(b, st + 1, st + n) \in Seq(Byte) /\ Len(SubSeq(b, st + 1, st + n)) = n
         /\ \A i \in 1..n : SubSeq(b, st + 1, st + n)[i] = b[st + i]
OBVIOUS

LEMMA StreamIs ==
  ASSUME NEW b \in Seq(Byte), NEW st \in Nat, NEW en \in Nat, st <= en, en <= Len(b), NEW r \in Seq(Byte)
  PROVE  IsStream(Stream(b, st, en, r), b, st, en, r)
<1>1. PICK n \in Nat : n = en - st /\ st + n <= Len(b)
  OBVIOUS
<1>0. PICK v : v = SubSeq(b, st + 1, st + n)
  OBVIOUS
<1>2. v \in Seq(Byte) /\ Len(v) = n /\ \A i \in 1..n : v[i] = b[st + i]
  BY <1>0, <1>1, SubBytes
<1>3. PICK y : y = v \o r
  OBVIOUS
<1>4. y \in Seq(Byte) /\ Len(y) = n + Len(r)
  <2>1. Len(v \o r) = Len(v) + Len(r)
    BY <1>2, ConcatProperties
  <2> QED BY <1>2, <1>3, <2>1, JoinType
<1>5. ASSUME NEW i \in 1..n PROVE y[i] = v[i]
  BY <1>2, <1>3
<1>6. ASSUME NEW i \in 1..Len(r) PROVE y[n + i] = r[i]
  BY <1>2, <1>3
<1>7. Stream(b, st, en, r) = y
  BY <1>0, <1>1, <1>3 DEF Stream
<1>8. IsStream(y, b, st, en, r)
  BY <1>1, <1>2, <1>4, <1>5, <1>6 DEF IsStream
<1> QED BY <1>7, <1>8

\* Two windows on the same stream.
Shifted(b, st, en, r, c, sc, ec, q, m) ==
  /\ m <= Len(r) /\ ec - sc = (en - st) + m /\ Len(q) = Len(r) - m
  /\ \A i \in 1..en - st : c[sc + i] = b[st + i]
  /\ \A i \in 1..m : c[sc + ((en - st) + i)] = r[i]
  /\ \A i \in 1..Len(q) : q[i] = r[m + i]

LEMMA StreamsAgree ==
  ASSUME NEW y, NEW b, NEW st \in Nat, NEW en \in Nat, NEW r \in Seq(Byte), st <= en, IsStream(y, b, st, en, r),
         NEW z, NEW c, NEW sc \in Nat, NEW ec \in Nat, NEW q \in Seq(Byte), sc <= ec, IsStream(z, c, sc, ec, q),
         NEW m \in Nat, Shifted(b, st, en, r, c, sc, ec, q, m)
  PROVE  y = z
<1>0. /\ m <= Len(r) /\ ec - sc = (en - st) + m /\ Len(q) = Len(r) - m
      /\ \A i \in 1..en - st : c[sc + i] = b[st + i]
      /\ \A i \in 1..m : c[sc + ((en - st) + i)] = r[i]
      /\ \A i \in 1..Len(q) : q[i] = r[m + i]
  BY DEF Shifted
<1>1. PICK u \in Nat : u = en - st
  OBVIOUS
<1>2. y \in Seq(Byte) /\ z \in Seq(Byte) /\ Len(y) = u + Len(r) /\ Len(z) = u + Len(r) /\ Len(r) \in Nat
  <2>1. y \in Seq(Byte) /\ z \in Seq(Byte) /\ Len(y) = (en - st) + Len(r) /\ Len(z) = (ec - sc) + Len(q)
    BY DEF IsStream
  <2>2. Len(r) \in Nat /\ Len(q) \in Nat
    OBVIOUS
  <2>3. PICK l \in Nat, k \in Nat : l = Len(r) /\ k = Len(q)
    BY <2>2
  <2>4. k = l - m /\ ec - sc = u + m
    BY <1>0, <1>1, <2>3
  <2>5. (ec - sc) + k = u + l
    BY ONLY k \in Nat, l \in Nat, m \in Nat, u \in Nat, <2>4
  <2> QED BY <1>1, <2>1, <2>2, <2>3, <2>5
<1>3. ASSUME NEW i \in 1..Len(y) PROVE y[i] = z[i]
  <2>1. CASE i <= u
    <3>1. i \in 1..en - st /\ i \in 1..ec - sc
      <4>1. PICK w \in Nat : w = ec - sc /\ w = u + m
        BY <1>0, <1>1
      <4>2. i \in Nat /\ i >= 1
        BY <1>2
      <4>3. i \in 1..u /\ i \in 1..w
        BY ONLY <2>1, <4>1, <4>2, u \in Nat, w \in Nat, m \in Nat
      <4> QED BY <1>1, <4>1, <4>3
    <3> QED BY <1>0, <3>1 DEF IsStream
  <2>2. CASE i > u /\ i <= u + m
    <3>1. PICK k \in 1..m : i = u + k
      <4>1. i - u \in 1..m /\ i = u + (i - u)
        BY <1>0, <1>2, <2>2
      <4> QED BY <4>1
    <3>2. k \in 1..Len(r) /\ i \in 1..ec - sc
      BY <1>0, <1>1, <1>2, <3>1
    <3>3. y[i] = r[k]
      BY <1>1, <3>1, <3>2 DEF IsStream
    <3>4. z[i] = c[sc + i]
      BY <3>2 DEF IsStream
    <3>5. c[sc + i] = r[k]
      BY <1>0, <1>1, <3>1
    <3> QED BY <3>3, <3>4, <3>5
  <2>3. CASE i > u + m
    <3>1. PICK k \in 1..Len(q) : i = (u + m) + k
      <4>1. i - (u + m) \in 1..Len(q) /\ i = (u + m) + (i - (u + m))
        BY <1>0, <1>2, <2>3
      <4> QED BY <4>1
    <3>2. m + k \in 1..Len(r) /\ i = u + (m + k) /\ i = (ec - sc) + k
      BY <1>0, <1>1, <1>2, <3>1
    <3>3. y[i] = r[m + k]
      BY <1>1, <3>2 DEF IsStream
    <3>4. z[i] = q[k]
      BY <3>1, <3>2 DEF IsStream
    <3> QED BY <1>0, <3>1, <3>3, <3>4
  <2> QED BY <1>2, <2>1, <2>2, <2>3
<1> QED BY <1>2, <1>3, SameBytes

Taken(b, st, en, r, x, n, T) == SubSeq(b, st + 1, st + n) = x /\ Stream(b, st + n, en, r) = T

\* The first bytes of the stream are taken from the window.
LEMMA TakeBytes ==
  ASSUME NEW b \in Seq(Byte), NEW st \in Nat, NEW en \in Nat, st <= en, en <= Len(b), NEW r \in Seq(Byte),
         NEW x \in Seq(Byte), NEW T \in Seq(Byte), Stream(b, st, en, r) = x \o T,
         NEW n, n = Len(x), n <= en - st
  PROVE  Taken(b, st, en, r, x, n, T)
<1>0. n \in Nat /\ n = Len(x)
  OBVIOUS
<1>1. PICK y : y = x \o T /\ n = Len(x)
  BY <1>0
<1>2. IsStream(y, b, st, en, r)
  BY <1>1, StreamIs
<1>3. Len(y) = n + Len(T) /\ (\A i \in 1..n : y[i] = x[i]) /\ (\A i \in 1..Len(T) : y[n + i] = T[i])
  BY <1>1
<1>4. PICK v : v = SubSeq(b, st + 1, st + n)
  OBVIOUS
<1>5. v \in Seq(Byte) /\ Len(v) = n /\ \A i \in 1..n : v[i] = b[st + i]
  <2>1. st + n <= Len(b)
    BY <1>1
  <2> QED BY <1>4, <2>1, SubBytes
<1>6. v = x
  <2>1. ASSUME NEW i \in 1..n PROVE v[i] = x[i]
    <3>1. i \in 1..en - st
      BY <1>1
    <3>2. y[i] = b[st + i]
      BY <1>2, <3>1 DEF IsStream
    <3> QED BY <1>3, <1>5, <3>2
  <2> QED BY <1>1, <1>5, <2>1, SameBytes
<1>15. PICK s2 \in Nat : s2 = st + n
  BY <1>0
<1>7. PICK z : z = Stream(b, s2, en, r) /\ s2 = st + n
  BY <1>15
<1>8. s2 <= en /\ en - s2 \in Nat /\ en - st = (en - s2) + n /\ Len(r) \in Nat /\ Len(T) \in Nat
  BY <1>1, <1>7
<1>9. IsStream(z, b, s2, en, r)
  BY <1>7, <1>8, StreamIs
<1>10. z \in Seq(Byte) /\ Len(z) = (en - s2) + Len(r)
  BY <1>9 DEF IsStream
<1>11. Len(y) = (en - st) + Len(r)
  BY <1>2 DEF IsStream
<1>12. Len(z) = Len(T)
  <2>1. Len(y) = n + Len(T)
    BY <1>3
  <2> QED BY <1>0, <1>8, <1>10, <1>11, <2>1
<1>13. ASSUME NEW i \in 1..Len(T) PROVE z[i] = T[i]
  <2>1. CASE i <= en - s2
    <3>1. i \in 1..en - s2 /\ n + i \in 1..en - st /\ s2 + i = st + (n + i)
      BY <1>7, <1>8, <2>1
    <3>2. z[i] = b[s2 + i]
      BY <1>9, <3>1 DEF IsStream
    <3>3. y[n + i] = b[st + (n + i)]
      BY <1>2, <3>1 DEF IsStream
    <3> QED BY <1>3, <3>1, <3>2, <3>3
  <2>2. CASE i > en - s2
    <3>1. PICK k \in 1..Len(r) : i = (en - s2) + k
      <4>1. i - (en - s2) \in 1..Len(r) /\ i = (en - s2) + (i - (en - s2))
        BY <1>8, <1>10, <1>12, <2>2
      <4> QED BY <4>1
    <3>2. n + i = (en - st) + k
      <4>1. PICK w \in Nat : w = en - s2 /\ en - st = w + n /\ i = w + k
        BY <1>8, <3>1
      <4>2. k \in Nat
        BY <1>8
      <4>3. n + (w + k) = (w + n) + k
        BY ONLY <1>0, <4>2, w \in Nat
      <4> QED BY <4>1, <4>3
    <3>3. z[i] = r[k]
      BY <1>9, <3>1 DEF IsStream
    <3>4. y[n + i] = r[k]
      BY <1>2, <3>1, <3>2 DEF IsStream
    <3> QED BY <1>3, <3>3, <3>4
  <2> QED BY <1>8, <2>1, <2>2
<1>14. z = T
  BY <1>10, <1>12, <1>13, SameBytes
<1> QED BY <1>4, <1>6, <1>7, <1>14 DEF Taken

LEMMA SmallestIs ==
  ASSUME NEW S \in SUBSET Nat, S # {}
  PROVE  Smallest(S) \in S /\ \A n \in S : Smallest(S) <= n
<1>1. \E m \in S : \A n \in S : m <= n
  BY LeastNat
<1> QED BY <1>1 DEF Smallest

IsDoubling(d, size, n) == d = [k \in 0..n |-> IF k = 0 THEN size ELSE 2 * d[k - 1]]

LEMMA DoublingExists ==
  ASSUME NEW size, NEW n \in Nat
  PROVE  \E d : IsDoubling(d, size, n)
<1> DEFINE T == {k \in Nat : ~ \E d : IsDoubling(d, size, k)}
<1>1. SUFFICES ASSUME T # {} PROVE FALSE
  OBVIOUS
<1>2. PICK m \in T : \A k \in T : m <= k
  BY <1>1, LeastNat
<1>3. CASE m = 0
  <2>1. IsDoubling([k \in 0..0 |-> size], size, 0)
    BY DEF IsDoubling
  <2> QED BY <1>3, <2>1
<1>4. CASE m # 0
  <2>1. m - 1 \in Nat /\ m - 1 \notin T
    BY <1>2, <1>4
  <2>2. PICK d : IsDoubling(d, size, m - 1)
    BY <2>1
  <2>3. PICK x : x = 2 * d[m - 1]
    OBVIOUS
  <2>4. PICK q : q = [k \in 0..m |-> IF k = m THEN x ELSE d[k]]
    OBVIOUS
  <2>5. m \in Nat /\ \A k \in 0..m - 1 : q[k] = d[k]
    BY <2>1, <2>4
  <2>6. q[m] = x /\ q[m - 1] = d[m - 1]
    BY <1>4, <2>1, <2>4
  <2>7. ASSUME NEW k \in 0..m
        PROVE  q[k] = IF k = 0 THEN size ELSE 2 * q[k - 1]
    <3>1. CASE k = m
      BY <1>4, <2>3, <2>6, <3>1
    <3>2. CASE k # m
      <4>1. k \in 0..m - 1 /\ (k # 0 => k - 1 \in 0..m - 1)
        BY <2>1, <2>5, <3>2
      <4>2. d[k] = IF k = 0 THEN size ELSE 2 * d[k - 1]
        BY <2>2, <4>1 DEF IsDoubling
      <4>3. q[k] = d[k] /\ (k # 0 => q[k - 1] = d[k - 1])
        BY <2>5, <4>1
      <4>4. CASE k = 0
        BY <4>2, <4>3, <4>4
      <4>5. CASE k # 0
        BY <4>2, <4>3, <4>5
      <4> QED BY <4>4, <4>5
    <3> QED BY <3>1, <3>2
  <2>8. IsDoubling(q, size, m)
    BY <2>4, <2>7 DEF IsDoubling
  <2> QED BY <2>8
<1> QED BY <1>3, <1>4

\* Doubling a size that is not zero reaches every need.
LEMMA DoubledType ==
  ASSUME NEW size \in Nat \ {0}, NEW n \in Nat
  PROVE  doubled(size, n) \in Nat /\ doubled(size, n) >= n
<1> DEFINE d == CHOOSE d : d = [k \in 0..n |-> IF k = 0 THEN size ELSE 2 * d[k - 1]]
<1>1. PICK e : IsDoubling(e, size, n)
  BY DoublingExists
<1>2. IsDoubling(d, size, n)
  BY <1>1 DEF IsDoubling
<1>3. doubled(size, n) = d[Smallest({k \in 0..n : d[k] >= n})]
  BY DEF doubled
<1> HIDE DEF d
<1>4. d[0] = size /\ \A k \in 1..n : d[k] = 2 * d[k - 1]
  <2>1. d[0] = size
    BY <1>2 DEF IsDoubling
  <2>2. ASSUME NEW k \in 1..n PROVE d[k] = 2 * d[k - 1]
    <3>1. k \in 0..n /\ k # 0
      OBVIOUS
    <3> QED BY <1>2, <3>1 DEF IsDoubling
  <2> QED BY <2>1, <2>2
<1> DEFINE Big(k) == d[k] \in Nat /\ d[k] >= k + 1
<1> DEFINE T == {k \in Nat : k <= n /\ ~Big(k)}
<1> HIDE DEF Big
<1>5. T = {}
  <2>1. SUFFICES ASSUME T # {} PROVE FALSE
    OBVIOUS
  <2>2. PICK m \in T : \A k \in T : m <= k
    BY <2>1, LeastNat
  <2>3. Big(0)
    BY <1>4 DEF Big
  <2>4. m # 0
    BY <2>2, <2>3
  <2>5. m - 1 \in Nat /\ m - 1 \notin T /\ m \in 1..n
    BY <2>2, <2>4
  <2>6. Big(m - 1)
    BY <2>2, <2>5
  <2>7. PICK x : x = d[m - 1]
    OBVIOUS
  <2>8. x \in Nat /\ x >= (m - 1) + 1 /\ d[m] = 2 * x
    BY <1>4, <2>5, <2>6, <2>7 DEF Big
  <2>9. 2 * x \in Nat /\ 2 * x >= m + 1
    BY <2>5, <2>8
  <2>10. Big(m)
    BY <2>8, <2>9 DEF Big
  <2> QED BY <2>2, <2>10
<1>6. ASSUME NEW k \in 0..n PROVE d[k] \in Nat /\ d[k] >= k + 1
  <2>1. ~Big(k) => k \in T
    OBVIOUS
  <2>2. Big(k)
    BY <1>5, <2>1, Zenon
  <2> QED BY <2>2 DEF Big
<1>7. PICK S : S = {k \in 0..n : d[k] >= n}
  OBVIOUS
<1>8. n \in S /\ S \in SUBSET Nat
  <2>1. n \in 0..n
    OBVIOUS
  <2>2. d[n] \in Nat /\ d[n] >= n + 1
    BY <1>6, <2>1
  <2>3. d[n] >= n
    BY <2>2
  <2> QED BY <1>7, <2>1, <2>3
<1>9. PICK i \in S : i = Smallest(S)
  BY <1>8, SmallestIs
<1>10. i \in 0..n /\ d[i] >= n
  BY <1>7, <1>9
<1>11. doubled(size, n) = d[i]
  BY <1>3, <1>7, <1>9
<1> QED BY <1>6, <1>10, <1>11

\* The window lies in its buffer.
WindowInv ==
  /\ net \in Seq(Byte) /\ buf \in Seq(Byte) /\ Len(buf) # 0
  /\ start \in Nat /\ end \in Nat /\ start <= end /\ end <= Len(buf)

stream == view(unread) \o net

LEMMA StreamDef ==
  /\ stream = Stream(buf, start, end, net)
  /\ stream' = Stream(buf', start', end', net')
BY DEF stream, Stream, view, unread

\* Reading from the window: the bytes x that come next are seen and skipped.
LEMMA Take ==
  ASSUME WindowInv, NEW x \in Seq(Byte), NEW T \in Seq(Byte), stream = x \o T,
         NEW n, n = Len(x), n <= unread
  PROVE  /\ view(n) = x
         /\ advance(n) => WindowInv' /\ stream' = T
<1>1. Stream(buf, start, end, net) = x \o T /\ n <= end - start /\ n \in Nat
  BY StreamDef DEF unread
<1>2. /\ net \in Seq(Byte) /\ buf \in Seq(Byte) /\ Len(buf) # 0
      /\ start \in Nat /\ end \in Nat /\ start <= end /\ end <= Len(buf)
  BY DEF WindowInv
<1>3. SubSeq(buf, start + 1, start + n) = x /\ Stream(buf, start + n, end, net) = T
  <2>1. Taken(buf, start, end, net, x, n, T)
    BY <1>1, <1>2, TakeBytes
  <2> QED BY <2>1 DEF Taken
<1>4. view(n) = x
  BY <1>3 DEF view
<1>5. ASSUME advance(n) PROVE WindowInv' /\ stream' = T
  <2>1. net' = net /\ buf' = buf /\ end' = end /\ start' = start + n
    BY <1>5 DEF advance
  <2>2. WindowInv'
    BY <1>1, <1>2, <2>1 DEF WindowInv
  <2>3. Stream(buf', start', end', net') = T
    BY <1>3, <2>1
  <2> QED BY <2>2, <2>3, StreamDef
<1> QED BY <1>4, <1>5

\* What ensure does to the window, with a buffer of the given size.
Moves(size) ==
  /\ net' = net /\ buf' \in Seq(Byte) /\ Len(buf') = size /\ size \in Nat /\ unread <= size
  /\ start' = 0 /\ end' = unread
  /\ \A k \in 1..unread : buf'[k] = buf[start + k]

LEMMA MovesKeep ==
  ASSUME WindowInv, NEW size, size # 0, Moves(size)
  PROVE  WindowInv' /\ stream' = stream
<1>1. /\ net \in Seq(Byte) /\ buf \in Seq(Byte) /\ start \in Nat /\ end \in Nat /\ start <= end /\ end <= Len(buf)
  BY DEF WindowInv
<1>2. PICK u \in Nat : u = unread /\ u = end - start
  BY <1>1 DEF unread
<1>3. PICK b \in Seq(Byte) : b = buf' /\ Len(b) = size /\ u <= size /\ size \in Nat /\ \A k \in 1..u : b[k] = buf[start + k]
  BY <1>2 DEF Moves
<1>4. net' = net /\ start' = 0 /\ end' = u
  BY <1>2 DEF Moves
<1>5. WindowInv'
  BY <1>1, <1>2, <1>3, <1>4 DEF WindowInv
<1>6. PICK y, z : y = Stream(buf, start, end, net) /\ z = Stream(b, 0, u, net)
  OBVIOUS
<1>7. IsStream(y, buf, start, end, net) /\ IsStream(z, b, 0, u, net)
  BY <1>1, <1>2, <1>3, <1>6, StreamIs
<1>8. y \in Seq(Byte) /\ z \in Seq(Byte) /\ Len(y) = u + Len(net) /\ Len(z) = u + Len(net)
  <2>1. u - 0 = u
    OBVIOUS
  <2> QED BY <1>2, <1>7, <2>1 DEF IsStream
<1>9. ASSUME NEW i \in 1..Len(y) PROVE y[i] = z[i]
  <2>1. CASE i <= u
    <3>1. i \in 1..end - start /\ i \in 1..u - 0 /\ i \in 1..u /\ 0 + i = i
      BY <1>2, <2>1
    <3>2. y[i] = buf[start + i] /\ z[i] = b[0 + i]
      BY <1>7, <3>1 DEF IsStream
    <3> QED BY <1>3, <3>1, <3>2
  <2>2. CASE i > u
    <3>1. PICK k \in 1..Len(net) : i = u + k
      <4>1. Len(net) \in Nat
        BY <1>1
      <4>2. i - u \in 1..Len(net) /\ i = u + (i - u)
        BY <1>8, <2>2, <4>1
      <4> QED BY <4>2
    <3>2. i = (end - start) + k /\ i = (u - 0) + k
      BY <1>2, <3>1
    <3>3. y[i] = net[k]
      BY <1>7, <3>1, <3>2 DEF IsStream
    <3>4. z[i] = net[k]
      BY <1>7, <3>1, <3>2 DEF IsStream
    <3> QED BY <3>3, <3>4
  <2> QED BY <1>8, <2>1, <2>2
<1>10. y = z
  BY <1>8, <1>9, SameBytes
<1>11. Stream(buf', start', end', net') = z
  BY <1>3, <1>4, <1>6
<1> QED BY <1>5, <1>6, <1>10, <1>11, StreamDef

\* Moving and growing the window loses and reorders nothing.
LEMMA EnsureKeeps ==
  ASSUME WindowInv, need \in Nat, ensure
  PROVE  WindowInv' /\ stream' = stream
<1>1. /\ net \in Seq(Byte) /\ buf \in Seq(Byte) /\ start \in Nat /\ end \in Nat /\ start <= end /\ end <= Len(buf)
      /\ Len(buf) \in Nat \ {0} /\ DOMAIN buf = 1..Len(buf)
  BY DEF WindowInv
<1>2. PICK u \in Nat : u = unread /\ u = end - start
  BY <1>1 DEF unread
<1>3. net' = net /\ u < need
  BY <1>2 DEF ensure
<1>4. ASSUME NEW k \in 1..u PROVE buf[start + k] \in Byte
  <2>1. start + k \in 1..Len(buf)
    BY <1>1, <1>2
  <2> QED BY <1>1, <2>1
<1>5. ASSUME NEW size \in Nat, u <= size, NEW old, \A k \in 1..size : old[k] \in Byte,
             buf' = moved(size, old), start' = 0, end' = unread
      PROVE  Moves(size)
  <2>1. buf' = [k \in 1..size |-> IF k <= u THEN buf[start + k] ELSE old[k]]
    BY <1>2, <1>5 DEF moved
  <2>2. ASSUME NEW k \in 1..size PROVE (IF k <= u THEN buf[start + k] ELSE old[k]) \in Byte
    <3>1. k <= u => k \in 1..u
      BY <1>2
    <3> QED BY <1>4, <1>5, <3>1
  <2>3. buf' \in [1..size -> Byte]
    BY <2>1, <2>2
  <2>4. buf' \in Seq(Byte) /\ Len(buf') = size
    BY <1>5, <2>3
  <2>5. \A k \in 1..u : buf'[k] = buf[start + k]
    <3>1. ASSUME NEW k \in 1..u PROVE buf'[k] = buf[start + k]
      <4>1. k \in 1..size /\ k <= u
        BY <1>2, <1>5
      <4> QED BY <2>1, <4>1
    <3> QED BY <3>1
  <2> QED BY <1>2, <1>3, <1>5, <2>4, <2>5 DEF Moves
<1>6. CASE need > Len(buf)
  <2>1. PICK size \in Nat : size = doubled(Len(buf), need) /\ size >= need
    BY <1>1, DoubledType
  <2>2. PICK old : old = [k \in 1..size |-> <<3, 0, 0>>]
    OBVIOUS
  <2>3. buf' = moved(size, old) /\ start' = 0 /\ end' = unread
    BY <1>6, <2>1, <2>2 DEF ensure
  <2>4. \A k \in 1..size : old[k] \in Byte
    BY <2>2 DEF Byte
  <2>5. u <= size /\ size # 0
    BY <1>1, <1>3, <1>6, <2>1
  <2>6. Moves(size)
    BY <1>5, <2>3, <2>4, <2>5
  <2> QED BY <2>5, <2>6, MovesKeep
<1>7. CASE ~(need > Len(buf)) /\ unread > 0 /\ start > 0
  <2>1. buf' = moved(Len(buf), buf) /\ start' = 0 /\ end' = unread
    BY <1>7 DEF ensure, compacted
  <2>2. \A k \in 1..Len(buf) : buf[k] \in Byte
    BY <1>1
  <2>3. u <= Len(buf) /\ Len(buf) # 0
    BY <1>1, <1>2
  <2>4. Moves(Len(buf))
    BY <1>1, <1>5, <2>1, <2>2, <2>3
  <2> QED BY <2>3, <2>4, MovesKeep
<1>8. CASE ~(need > Len(buf)) /\ unread = 0
  <2>1. buf' = buf /\ start' = 0 /\ end' = 0
    BY <1>8 DEF ensure
  <2>2. u = 0 /\ Len(buf) # 0
    BY <1>1, <1>2, <1>8
  <2>3. Moves(Len(buf))
    BY <1>1, <1>2, <1>3, <2>1, <2>2 DEF Moves
  <2> QED BY <2>2, <2>3, MovesKeep
<1>9. CASE ~(need > Len(buf)) /\ unread # 0 /\ ~(unread > 0 /\ start > 0)
  <2>1. buf' = buf /\ start' = start /\ end' = end
    BY <1>9 DEF ensure
  <2>2. WindowInv'
    BY <1>3, <2>1 DEF WindowInv
  <2> QED BY <1>3, <2>1, <2>2, StreamDef
<1> QED BY <1>6, <1>7, <1>8, <1>9

\* However many bytes the socket returns, they go from its end to the window's.
LEMMA SocketKeeps ==
  ASSUME WindowInv, Network
  PROVE  WindowInv' /\ stream' = stream
<1>1. /\ net \in Seq(Byte) /\ buf \in Seq(Byte) /\ start \in Nat /\ end \in Nat /\ start <= end /\ end <= Len(buf)
      /\ Len(buf) \in Nat \ {0} /\ DOMAIN buf = 1..Len(buf) /\ Len(net) \in Nat
  BY DEF WindowInv
<1>2. PICK p \in Pieces : readSocket(Smallest({p, Len(net), Len(buf) - end}))
  BY DEF Network
<1>3. PICK S : S = {p, Len(net), Len(buf) - end}
  OBVIOUS
<1>4. S \in SUBSET Nat /\ S # {}
  BY <1>1, <1>3, ReaderAssumption
<1>5. PICK m \in Nat : m = Smallest(S) /\ m <= Len(net) /\ m <= Len(buf) - end
  <2>1. Smallest(S) \in S /\ \A n \in S : Smallest(S) <= n
    BY <1>4, SmallestIs
  <2> QED BY <1>3, <1>4, <2>1
<1>6. PICK b, q : /\ b = [k \in DOMAIN buf |-> IF k \in end+1..end+m THEN net[k - end] ELSE buf[k]]
                  /\ q = SubSeq(net, m + 1, Len(net))
  OBVIOUS
<1>7. buf' = b /\ net' = q /\ end' = end + m /\ start' = start
  BY <1>2, <1>3, <1>5, <1>6 DEF readSocket
<1>8. b \in Seq(Byte) /\ Len(b) = Len(buf)
  <2>1. ASSUME NEW k \in 1..Len(buf)
        PROVE  (IF k \in end+1..end+m THEN net[k - end] ELSE buf[k]) \in Byte
    <3>1. k \in end+1..end+m => k - end \in 1..Len(net)
      BY <1>1, <1>5
    <3> QED BY <1>1, <3>1
  <2>2. b \in [1..Len(buf) -> Byte]
    BY <1>1, <1>6, <2>1
  <2> QED BY <1>1, <2>2
<1>9. q \in Seq(Byte) /\ Len(q) = Len(net) - m /\ \A i \in 1..Len(q) : q[i] = net[m + i]
  <2>1. PICK l \in Nat : l = Len(net) - m /\ Len(net) = m + l
    BY <1>1, <1>5
  <2>2. q = SubSeq(net, m + 1, m + l)
    BY <1>6, <2>1
  <2>3. m + l <= Len(net)
    BY <1>1, <2>1
  <2>4. PICK r \in Seq(Byte) : r = net
    BY <1>1
  <2>5. q \in Seq(Byte) /\ Len(q) = l
    BY <2>2, <2>3, <2>4, SubBytes
  <2>6. \A i \in 1..l : q[i] = r[m + i]
    BY <2>2, <2>3, <2>4, SubBytes
  <2> QED BY ONLY <2>1, <2>4, <2>5, <2>6
<1>10. PICK e \in Nat : e = end + m /\ e <= Len(b) /\ start <= e
  BY <1>1, <1>5, <1>8
<1>11. WindowInv'
  BY <1>1, <1>7, <1>8, <1>9, <1>10 DEF WindowInv
<1>12. PICK y, z : y = Stream(buf, start, end, net) /\ z = Stream(b, start, e, q)
  OBVIOUS
<1>13. IsStream(y, buf, start, end, net) /\ IsStream(z, b, start, e, q)
  BY <1>1, <1>8, <1>9, <1>10, <1>12, StreamIs
<1>14. ASSUME NEW i \in 1..end - start PROVE b[start + i] = buf[start + i]
  <2>1. start + i \in DOMAIN buf /\ start + i \notin end+1..end+m
    BY <1>1
  <2> QED BY <1>6, <2>1
<1>15. ASSUME NEW i \in 1..m PROVE b[start + ((end - start) + i)] = net[i]
  <2>1. /\ start + ((end - start) + i) = end + i /\ end + i \in DOMAIN buf /\ end + i \in end+1..end+m
        /\ (end + i) - end = i
    BY <1>1, <1>5
  <2> QED BY <1>6, <2>1
<1>16. e - start = (end - start) + m
  BY <1>1, <1>10
<1>17. y = z
  <2>1. Shifted(buf, start, end, net, b, start, e, q, m)
    BY <1>5, <1>9, <1>14, <1>15, <1>16 DEF Shifted
  <2> QED BY <1>1, <1>9, <1>10, <1>13, <2>1, StreamsAgree
<1>18. Stream(buf', start', end', net') = z
  BY <1>7, <1>10, <1>12
<1> QED BY <1>11, <1>12, <1>17, <1>18, StreamDef

----------------------------------------------------------------------------
(* Indices in order *)

IsOrder(o, I, n) ==
  o = [i \in 0..n |-> IF i = 0 THEN <<>> ELSE IF i \in I THEN Append(o[i - 1], i) ELSE o[i - 1]]

LEMMA OrderExists ==
  ASSUME NEW I, NEW n \in Nat
  PROVE  \E o : IsOrder(o, I, n)
<1> DEFINE T == {k \in Nat : ~ \E o : IsOrder(o, I, k)}
<1>1. SUFFICES ASSUME T # {} PROVE FALSE
  OBVIOUS
<1>2. PICK m \in T : \A k \in T : m <= k
  BY <1>1, LeastNat
<1>3. CASE m = 0
  <2>1. IsOrder([i \in 0..0 |-> <<>>], I, 0)
    BY DEF IsOrder
  <2> QED BY <1>3, <2>1
<1>4. CASE m # 0
  <2>1. m - 1 \in Nat /\ m - 1 \notin T
    BY <1>2, <1>4
  <2>2. PICK o : IsOrder(o, I, m - 1)
    BY <2>1
  <2>3. PICK x : x = IF m \in I THEN Append(o[m - 1], m) ELSE o[m - 1]
    OBVIOUS
  <2>4. PICK q : q = [i \in 0..m |-> IF i = m THEN x ELSE o[i]]
    OBVIOUS
  <2>5. m \in Nat /\ \A i \in 0..m - 1 : q[i] = o[i]
    BY <2>1, <2>4
  <2>6. q[m] = x /\ q[m - 1] = o[m - 1]
    BY <1>4, <2>1, <2>4
  <2>7. ASSUME NEW i \in 0..m
        PROVE  q[i] = IF i = 0 THEN <<>> ELSE IF i \in I THEN Append(q[i - 1], i) ELSE q[i - 1]
    <3>1. CASE i = m
      BY <1>4, <2>3, <2>6, <3>1
    <3>2. CASE i # m
      <4>1. i \in 0..m - 1 /\ (i # 0 => i - 1 \in 0..m - 1)
        BY <2>1, <2>5, <3>2
      <4>2. o[i] = IF i = 0 THEN <<>> ELSE IF i \in I THEN Append(o[i - 1], i) ELSE o[i - 1]
        BY <2>2, <4>1 DEF IsOrder
      <4>3. q[i] = o[i] /\ (i # 0 => q[i - 1] = o[i - 1])
        BY <2>5, <4>1
      <4>4. CASE i = 0
        BY <4>2, <4>3, <4>4
      <4>5. CASE i # 0
        BY <4>2, <4>3, <4>5
      <4> QED BY <4>4, <4>5
    <3> QED BY <3>1, <3>2
  <2>8. IsOrder(q, I, m)
    BY <2>4, <2>7 DEF IsOrder
  <2> QED BY <2>8
<1> QED BY <1>3, <1>4

LEMMA OrderAt ==
  ASSUME NEW I, NEW n \in Nat, NEW o, IsOrder(o, I, n), NEW i \in 0..n
  PROVE  i # 0 => o[i] = IF i \in I THEN Append(o[i - 1], i) ELSE o[i - 1]
BY DEF IsOrder

LEMMA OrderZero ==
  ASSUME NEW I, NEW n \in Nat, NEW o, IsOrder(o, I, n)
  PROVE  o[0] = <<>>
<1>1. 0 \in 0..n
  OBVIOUS
<1> QED BY <1>1 DEF IsOrder

\* The same indices up to n, in the same order.
LEMMA OrderAgrees ==
  ASSUME NEW n \in Nat, NEW k \in Nat, NEW l \in Nat, n <= k, n <= l, NEW I, NEW J, NEW o, NEW q,
         IsOrder(o, I, k), IsOrder(q, J, l), \A i \in 1..n : i \in I <=> i \in J
  PROVE  o[n] = q[n]
<1> DEFINE T == {m \in 0..n : o[m] # q[m]}
<1>1. SUFFICES ASSUME T # {} PROVE FALSE
  OBVIOUS
<1>2. PICK m \in T : \A j \in T : m <= j
  <2> HIDE DEF T
  <2>1. T \in SUBSET Nat
    BY DEF T
  <2> QED BY <1>1, <2>1, LeastNat
<1>3. m \in 0..n /\ m \in 0..k /\ m \in 0..l /\ o[m] # q[m]
  BY <1>2
<1>4. CASE m = 0
  BY <1>3, <1>4, OrderZero
<1>5. CASE m # 0
  <2>1. m - 1 \in 0..n /\ ~(m <= m - 1) /\ m \in 1..n
    BY <1>3, <1>5
  <2>2. m - 1 \notin T
    <3> HIDE DEF T
    <3> QED BY <1>2, <2>1
  <2>3. o[m - 1] = q[m - 1]
    BY <2>1, <2>2
  <2>4. o[m] = IF m \in I THEN Append(o[m - 1], m) ELSE o[m - 1]
    BY <1>3, <1>5, OrderAt
  <2>5. q[m] = IF m \in J THEN Append(q[m - 1], m) ELSE q[m - 1]
    BY <1>3, <1>5, OrderAt
  <2> QED BY <1>3, <2>1, <2>3, <2>4, <2>5
<1> QED BY <1>4, <1>5

LEMMA OrderDef ==
  ASSUME NEW I, NEW n \in Nat
  PROVE  \E o : IsOrder(o, I, n) /\ inOrder(I, n) = o[n]
<1> DEFINE c == CHOOSE o : o = [i \in 0..n |-> IF i = 0 THEN <<>>
                                  ELSE IF i \in I THEN Append(o[i - 1], i) ELSE o[i - 1]]
<1>1. PICK d : IsOrder(d, I, n)
  BY OrderExists
<1>2. IsOrder(c, I, n)
  BY <1>1 DEF IsOrder
<1>3. inOrder(I, n) = c[n]
  BY DEF inOrder
<1> QED BY <1>2, <1>3

LEMMA OrderStep ==
  ASSUME NEW I
  PROVE  /\ inOrder(I, 0) = <<>>
         /\ \A n \in Nat : inOrder(I, n + 1) = IF n + 1 \in I THEN Append(inOrder(I, n), n + 1) ELSE inOrder(I, n)
<1>1. inOrder(I, 0) = <<>>
  <2>1. PICK o : IsOrder(o, I, 0) /\ inOrder(I, 0) = o[0]
    BY OrderDef
  <2> QED BY <2>1, OrderZero
<1>2. ASSUME NEW n \in Nat
      PROVE  inOrder(I, n + 1) = IF n + 1 \in I THEN Append(inOrder(I, n), n + 1) ELSE inOrder(I, n)
  <2>0. PICK m \in Nat : m = n + 1 /\ m # 0 /\ m - 1 = n /\ m \in 0..m /\ n <= m /\ n <= n
    OBVIOUS
  <2>1. PICK o : IsOrder(o, I, n) /\ inOrder(I, n) = o[n]
    BY OrderDef
  <2>2. PICK q : IsOrder(q, I, m) /\ inOrder(I, m) = q[m]
    BY OrderDef
  <2>3. o[n] = q[n]
    BY <2>0, <2>1, <2>2, OrderAgrees
  <2>4. q[m] = IF m \in I THEN Append(q[m - 1], m) ELSE q[m - 1]
    BY <2>0, <2>2, OrderAt
  <2> QED BY <2>0, <2>1, <2>2, <2>3, <2>4
<1> QED BY <1>1, <1>2

LEMMA OrderSame ==
  ASSUME NEW I, NEW J, NEW n \in Nat, \A i \in 1..n : i \in I <=> i \in J
  PROVE  inOrder(I, n) = inOrder(J, n)
<1>1. PICK o : IsOrder(o, I, n) /\ inOrder(I, n) = o[n]
  BY OrderDef
<1>2. PICK q : IsOrder(q, J, n) /\ inOrder(J, n) = q[n]
  BY OrderDef
<1>3. n <= n
  OBVIOUS
<1> QED BY <1>1, <1>2, <1>3, OrderAgrees

\* A sequence of members of I up to n.
Ordered(s, I, n) == s \in Seq(1..n) /\ \A k \in 1..Len(s) : s[k] \in I

LEMMA OrderType ==
  ASSUME NEW I, NEW n \in Nat
  PROVE  Ordered(inOrder(I, n), I, n)
<1> DEFINE T == {m \in Nat : ~ Ordered(inOrder(I, m), I, m)}
<1>1. SUFFICES ASSUME T # {} PROVE FALSE
  OBVIOUS
<1>2. PICK m \in T : \A j \in T : m <= j
  BY <1>1, LeastNat
<1>3. CASE m = 0
  <2>1. inOrder(I, 0) = <<>>
    BY OrderStep
  <2>2. Ordered(<<>>, I, 0)
    BY DEF Ordered
  <2> QED BY <1>2, <1>3, <2>1, <2>2
<1>4. CASE m # 0
  <2>1. PICK j \in Nat : m = j + 1 /\ j \notin T
    <3>1. m - 1 \in Nat /\ m = (m - 1) + 1 /\ ~(m <= m - 1)
      BY <1>2, <1>4
    <3> HIDE DEF T
    <3> QED BY <1>2, <3>1
  <2>2. PICK s : s = inOrder(I, j)
    OBVIOUS
  <2>3. s \in Seq(1..j) /\ \A k \in 1..Len(s) : s[k] \in I
    BY <2>1, <2>2 DEF Ordered
  <2>4. s \in Seq(1..m)
    <3>1. 1..j \subseteq 1..m
      BY <2>1
    <3> QED BY <2>3, <3>1
  <2>5. inOrder(I, m) = IF m \in I THEN Append(s, m) ELSE s
    BY <2>1, <2>2, OrderStep
  <2>6. CASE m \in I
    <3>1. PICK t : t = Append(s, m)
      OBVIOUS
    <3>2. m \in 1..m
      BY <2>1
    <3>3. t \in Seq(1..m) /\ Len(t) = Len(s) + 1 /\ (\A k \in 1..Len(s) : t[k] = s[k]) /\ t[Len(s) + 1] = m
      BY <2>4, <3>1, <3>2, AppendProperties
    <3>4. \A k \in 1..Len(t) : t[k] \in I
      <4>1. Len(s) \in Nat
        BY <2>4
      <4>2. ASSUME NEW k \in 1..Len(t) PROVE t[k] \in I
        <5>1. k \in 1..Len(s) \/ k = Len(s) + 1
          BY <3>3, <4>1
        <5> QED BY <2>3, <2>6, <3>3, <5>1
      <4> QED BY <4>2
    <3> QED BY <1>2, <2>5, <2>6, <3>1, <3>3, <3>4 DEF Ordered
  <2>7. CASE m \notin I
    BY <1>2, <2>3, <2>4, <2>5, <2>7 DEF Ordered
  <2> QED BY <2>6, <2>7
<1> QED BY <1>3, <1>4

\* Indices that are not in I do not show.
LEMMA OrderSkips ==
  ASSUME NEW I, NEW c \in Nat, NEW n \in Nat, c <= n, \A i \in c+1..n : i \notin I
  PROVE  inOrder(I, n) = inOrder(I, c)
<1> DEFINE T == {m \in Nat : c <= m /\ m <= n /\ inOrder(I, m) # inOrder(I, c)}
<1>1. SUFFICES ASSUME T # {} PROVE FALSE
  OBVIOUS
<1>2. PICK m \in T : \A j \in T : m <= j
  BY <1>1, LeastNat
<1>3. m # c /\ m \in Nat /\ c <= m /\ m <= n
  BY <1>2
<1>4. PICK j \in Nat : m = j + 1 /\ c <= j /\ j <= n /\ ~(m <= j) /\ m \in c+1..n
  <2>1. m - 1 \in Nat /\ m = (m - 1) + 1 /\ c <= m - 1 /\ m - 1 <= n /\ ~(m <= m - 1) /\ m \in c+1..n
    BY <1>3
  <2> QED BY <2>1
<1>5. j \notin T
  <2> HIDE DEF T
  <2> QED BY <1>2, <1>4
<1>6. inOrder(I, j) = inOrder(I, c)
  BY <1>4, <1>5
<1>7. inOrder(I, m) = inOrder(I, j)
  BY <1>4, OrderStep
<1> QED BY <1>2, <1>6, <1>7
----------------------------------------------------------------------------
(* Entries of a status vector *)

NoCode(items, c, n) == \A k \in c+1..n : ~isCode(items[k])

LEMMA ArgsStop ==
  ASSUME NEW items, NEW i \in Nat, NEW c \in Nat, NEW n \in Nat, i < c, c <= n, isCode(items[c])
  PROVE  argsOf(items, i, n) = argsOf(items, i, c - 1)
<1>1. ASSUME NEW j \in i+1..n, \A k \in i+1..j : ~isCode(items[k]) PROVE j \in i+1..c - 1
  <2>1. ~(c <= j)
    <3>1. c <= j => c \in i+1..j
      OBVIOUS
    <3> QED BY <1>1, <3>1
  <2> QED BY <2>1
<1>2. \A j \in i+1..c - 1 : j \in i+1..n
  OBVIOUS
<1> QED BY <1>1, <1>2 DEF argsOf

LEMMA ArgsGrow ==
  ASSUME NEW items, NEW i \in Nat, NEW n \in Nat, i <= n, NoCode(items, i, n + 1)
  PROVE  argsOf(items, i, n + 1) = argsOf(items, i, n) \cup {n + 1}
<1>1. \A j \in i+1..n + 1 : j \in i+1..n \/ j = n + 1
  OBVIOUS
<1>2. n + 1 \in i+1..n + 1 /\ \A j \in i+1..n : j \in i+1..n + 1
  OBVIOUS
<1>3. \A k \in i+1..n + 1 : ~isCode(items[k])
  BY DEF NoCode
<1> QED BY <1>1, <1>2, <1>3 DEF argsOf

ShownOf(items, i, n) == {j \in argsOf(items, i, n) : isArg(items[j])}
StatesOf(items, i, n) == {j \in argsOf(items, i, n) : items[j].tag = IscArgSQLState}

\* An entry made of the items at the given indices.
Made(items, i, shown, states) ==
  [code |-> items[i].v,
   state |-> IF states = <<>> THEN NoState ELSE Bytes(items[states[Len(states)]].s),
   params |-> [k \in DOMAIN shown |-> valueOf(items[shown[k]])]]

LEMMA EntryIs ==
  ASSUME NEW items, NEW i, NEW n
  PROVE  entryOf(items, i, n) = Made(items, i, inOrder(ShownOf(items, i, n), n), inOrder(StatesOf(items, i, n), n))
BY DEF entryOf, Made, ShownOf, StatesOf

\* Behind the next code nothing belongs to an entry any more.
LEMMA EntryStops ==
  ASSUME NEW items, NEW i \in Nat, NEW c \in Nat, NEW n \in Nat, i < c, c <= n, isCode(items[c])
  PROVE  entryOf(items, i, n) = entryOf(items, i, c - 1)
<1>1. PICK d \in Nat : d = c - 1 /\ d <= n
  OBVIOUS
<1>2. argsOf(items, i, n) = argsOf(items, i, d)
  BY <1>1, ArgsStop
<1>3. PICK A, S : A = ShownOf(items, i, d) /\ S = StatesOf(items, i, d)
  OBVIOUS
<1>4. A = ShownOf(items, i, n) /\ S = StatesOf(items, i, n)
  BY <1>2, <1>3 DEF ShownOf, StatesOf
<1>5. \A j \in d+1..n : j \notin A /\ j \notin S
  <2>1. \A j \in argsOf(items, i, d) : j \in i+1..d
    BY DEF argsOf
  <2>2. A \subseteq argsOf(items, i, d) /\ S \subseteq argsOf(items, i, d)
    BY <1>3 DEF ShownOf, StatesOf
  <2>3. \A j \in d+1..n : j \notin i+1..d
    OBVIOUS
  <2> QED BY <2>1, <2>2, <2>3
<1>6. inOrder(A, n) = inOrder(A, d)
  BY <1>1, <1>5, OrderSkips
<1>7. inOrder(S, n) = inOrder(S, d)
  BY <1>1, <1>5, OrderSkips
<1>8. entryOf(items, i, n) = Made(items, i, inOrder(A, n), inOrder(S, n))
  BY <1>4, EntryIs
<1>9. entryOf(items, i, d) = Made(items, i, inOrder(A, d), inOrder(S, d))
  BY <1>3, EntryIs
<1> QED BY <1>1, <1>6, <1>7, <1>8, <1>9

LEMMA EntryNew ==
  ASSUME NEW items, NEW n \in Nat
  PROVE  entryOf(items, n, n) = Entry(items[n].v)
<1>1. argsOf(items, n, n) = {}
  BY DEF argsOf
<1>2. ShownOf(items, n, n) = {} /\ StatesOf(items, n, n) = {}
  BY <1>1 DEF ShownOf, StatesOf
<1>3. inOrder({}, n) = <<>>
  <2>1. inOrder({}, n) = inOrder({}, 0)
    <3>1. 0 \in Nat /\ 0 <= n /\ \A i \in 0+1..n : i \notin {}
      OBVIOUS
    <3> QED BY <3>1, OrderSkips
  <2> QED BY <2>1, OrderStep
<1>4. entryOf(items, n, n) = Made(items, n, <<>>, <<>>)
  BY <1>2, <1>3, EntryIs
<1>5. Made(items, n, <<>>, <<>>) = [code |-> items[n].v, state |-> NoState, params |-> <<>>]
  BY DEF Made
<1> QED BY <1>4, <1>5 DEF Entry

\* An item more that belongs to the entry.
LEMMA EntryGrows ==
  ASSUME NEW items, NEW c \in Nat, NEW n \in Nat, c <= n, NoCode(items, c, n + 1),
         NEW A, NEW S, A = ShownOf(items, c, n), S = StatesOf(items, c, n),
         NEW sh, NEW st, sh = inOrder(A, n), st = inOrder(S, n), NEW x, x = items[n + 1]
  PROVE  /\ entryOf(items, c, n) = Made(items, c, sh, st)
         /\ isArg(x) => entryOf(items, c, n + 1) = Made(items, c, Append(sh, n + 1), st)
         /\ x.tag = IscArgSQLState => entryOf(items, c, n + 1) = Made(items, c, sh, Append(st, n + 1))
         /\ ~isArg(x) /\ x.tag # IscArgSQLState => entryOf(items, c, n + 1) = Made(items, c, sh, st)
<1>1. argsOf(items, c, n + 1) = argsOf(items, c, n) \cup {n + 1}
  BY ArgsGrow
<1>2. PICK B, T : B = ShownOf(items, c, n + 1) /\ T = StatesOf(items, c, n + 1)
  OBVIOUS
<1>3. B = IF isArg(x) THEN A \cup {n + 1} ELSE A
  BY <1>1, <1>2 DEF ShownOf
<1>4. T = IF x.tag = IscArgSQLState THEN S \cup {n + 1} ELSE S
  BY <1>1, <1>2 DEF StatesOf
<1>5. n + 1 \notin A /\ n + 1 \notin S
  <2>1. \A j \in argsOf(items, c, n) : j \in c+1..n
    BY DEF argsOf
  <2>2. n + 1 \notin c+1..n
    OBVIOUS
  <2> QED BY <2>1, <2>2 DEF ShownOf, StatesOf
<1>6. \A i \in 1..n : i # n + 1
  OBVIOUS
<1>7. inOrder(B, n) = sh
  <2>1. \A i \in 1..n : i \in B <=> i \in A
    BY <1>3, <1>6
  <2> QED BY <2>1, OrderSame
<1>8. inOrder(T, n) = st
  <2>1. \A i \in 1..n : i \in T <=> i \in S
    BY <1>4, <1>6
  <2> QED BY <2>1, OrderSame
<1>9. inOrder(B, n + 1) = IF isArg(x) THEN Append(sh, n + 1) ELSE sh
  <2>1. inOrder(B, n + 1) = IF n + 1 \in B THEN Append(inOrder(B, n), n + 1) ELSE inOrder(B, n)
    BY OrderStep
  <2>2. n + 1 \in B <=> isArg(x)
    BY <1>3, <1>5
  <2> QED BY <1>7, <2>1, <2>2
<1>10. inOrder(T, n + 1) = IF x.tag = IscArgSQLState THEN Append(st, n + 1) ELSE st
  <2>1. inOrder(T, n + 1) = IF n + 1 \in T THEN Append(inOrder(T, n), n + 1) ELSE inOrder(T, n)
    BY OrderStep
  <2>2. n + 1 \in T <=> x.tag = IscArgSQLState
    BY <1>4, <1>5
  <2> QED BY <1>8, <2>1, <2>2
<1>11. entryOf(items, c, n + 1) = Made(items, c, inOrder(B, n + 1), inOrder(T, n + 1))
  BY <1>2, EntryIs
<1>12. entryOf(items, c, n) = Made(items, c, sh, st)
  BY EntryIs
<1>13. isArg(x) => x.tag # IscArgSQLState
  BY DEF isArg, IscArgString, IscArgNumber, IscArgSQLState
<1> QED BY <1>9, <1>10, <1>11, <1>12, <1>13

MapOf(f, s) == [k \in DOMAIN s |-> f[s[k]]]

LEMMA MapAppend ==
  ASSUME NEW f, DOMAIN f = Nat, NEW s \in Seq(Nat), NEW x \in Nat
  PROVE  /\ MapOf(f, Append(s, x)) = Append(MapOf(f, s), f[x])
         /\ MapOf(f, s) \in Seq({f[j] : j \in Nat}) /\ Len(MapOf(f, s)) = Len(s)
<1>1. PICK R : R = {f[j] : j \in Nat}
  OBVIOUS
<1>2. PICK n \in Nat : n = Len(s) /\ s \in [1..n -> Nat] /\ DOMAIN s = 1..n
  OBVIOUS
<1>3. PICK m : m = MapOf(f, s)
  OBVIOUS
<1>4. m \in [1..n -> R]
  BY <1>1, <1>2, <1>3 DEF MapOf
<1>5. m \in Seq(R) /\ Len(m) = n
  BY <1>2, <1>4
<1>6. f[x] \in R
  BY <1>1
<1>7. PICK t : t = Append(s, x)
  OBVIOUS
<1>8. PICK u : u = Append(m, f[x])
  OBVIOUS
<1>9. DOMAIN t = 1..n + 1 /\ (\A k \in 1..n : t[k] = s[k]) /\ t[n + 1] = x
  BY <1>2, <1>7
<1>10. u \in [1..n + 1 -> R] /\ (\A k \in 1..n : u[k] = m[k]) /\ u[n + 1] = f[x]
  <2>1. u \in Seq(R) /\ Len(u) = Len(m) + 1 /\ (\A k \in 1..Len(m) : u[k] = m[k]) /\ u[Len(m) + 1] = f[x]
    BY <1>5, <1>6, <1>8, AppendProperties
  <2>2. Len(u) = n + 1 /\ u \in [1..Len(u) -> R]
    BY <1>5, <2>1
  <2> QED BY <1>5, <2>1, <2>2
<1>11. ASSUME NEW k \in 1..n + 1 PROVE f[t[k]] = u[k]
  <2>1. CASE k = n + 1
    BY <1>9, <1>10, <2>1
  <2>2. CASE k # n + 1
    <3>1. k \in 1..n
      BY <1>2, <2>2
    <3>2. m[k] = f[s[k]]
      BY <1>2, <1>3, <3>1 DEF MapOf
    <3> QED BY <1>9, <1>10, <3>1, <3>2
  <2> QED BY <2>1, <2>2
<1>12. MapOf(f, t) = u
  BY <1>9, <1>10, <1>11 DEF MapOf
<1> QED BY <1>1, <1>2, <1>3, <1>5, <1>7, <1>8, <1>12

ValuesOf(items) == [j \in Nat |-> valueOf(items[j])]

LEMMA MadeIs ==
  ASSUME NEW items, NEW i, NEW sh \in Seq(Nat), NEW st \in Seq(Nat)
  PROVE  Made(items, i, sh, st)
           = [code |-> items[i].v, state |-> IF st = <<>> THEN NoState ELSE Bytes(items[st[Len(st)]].s),
              params |-> MapOf(ValuesOf(items), sh)]
<1>1. \A k \in DOMAIN sh : sh[k] \in Nat
  OBVIOUS
<1>2. [k \in DOMAIN sh |-> valueOf(items[sh[k]])] = MapOf(ValuesOf(items), sh)
  BY <1>1 DEF MapOf, ValuesOf
<1> QED BY <1>2 DEF Made

WithParam(e, v) == [e EXCEPT !.params = Append(@, v)]
WithState(e, s) == [e EXCEPT !.state = s]

LEMMA MadeGrows ==
  ASSUME NEW items, NEW i, NEW sh \in Seq(Nat), NEW st \in Seq(Nat), NEW m \in Nat, NEW e, e = Made(items, i, sh, st)
  PROVE  /\ Made(items, i, Append(sh, m), st) = WithParam(e, valueOf(items[m]))
         /\ Made(items, i, sh, Append(st, m)) = WithState(e, Bytes(items[m].s))
<1>1. PICK f : f = ValuesOf(items)
  OBVIOUS
<1>2. DOMAIN f = Nat /\ f[m] = valueOf(items[m])
  BY <1>1 DEF ValuesOf
<1>3. MapOf(f, Append(sh, m)) = Append(MapOf(f, sh), f[m])
  BY <1>2, MapAppend
<1>4. PICK c, s, p : /\ c = items[i].v /\ s = (IF st = <<>> THEN NoState ELSE Bytes(items[st[Len(st)]].s))
                     /\ p = MapOf(f, sh)
  OBVIOUS
<1>5. e = [code |-> c, state |-> s, params |-> p]
  BY <1>1, <1>4, MadeIs
<1>6. PICK sh2 \in Seq(Nat), st2 \in Seq(Nat) : sh2 = Append(sh, m) /\ st2 = Append(st, m)
  BY AppendProperties
<1>7. st2 # <<>> /\ st2[Len(st2)] = m
  <2>1. Len(st2) = Len(st) + 1 /\ st2[Len(st) + 1] = m /\ Len(st) \in Nat
    BY <1>6, AppendProperties
  <2> QED BY <2>1
<1>8. Made(items, i, sh2, st) = [code |-> c, state |-> s, params |-> MapOf(f, sh2)]
  BY <1>1, <1>4, MadeIs
<1>9. Made(items, i, sh, st2) = [code |-> c, state |-> Bytes(items[m].s), params |-> p]
  BY <1>1, <1>4, <1>7, MadeIs
<1>10. MapOf(f, sh2) = Append(p, valueOf(items[m]))
  BY <1>2, <1>3, <1>4, <1>6
<1>11. PICK y, z : y = Append(p, valueOf(items[m])) /\ z = Bytes(items[m].s)
  OBVIOUS
<1>12. WithParam(e, valueOf(items[m])) = [code |-> c, state |-> s, params |-> y]
  <2>1. e.params = p
    BY <1>5
  <2>2. WithParam(e, valueOf(items[m])) = [e EXCEPT !.params = y]
    BY <1>11, <2>1 DEF WithParam
  <2>3. [e EXCEPT !.params = y] = [code |-> c, state |-> s, params |-> y]
    BY <1>5
  <2> QED BY <2>2, <2>3
<1>13. WithState(e, z) = [code |-> c, state |-> z, params |-> p]
  BY <1>5 DEF WithState
<1> QED BY <1>6, <1>8, <1>9, <1>10, <1>11, <1>12, <1>13

\* What an item that is no code adds to the entry before it.
Takes(e, x) ==
  IF isArg(x) THEN WithParam(e, valueOf(x))
  ELSE IF x.tag = IscArgSQLState THEN WithState(e, Bytes(x.s)) ELSE e

LEMMA EntryTakes ==
  ASSUME NEW items, NEW c \in Nat, NEW n \in Nat, c <= n, NoCode(items, c, n + 1)
  PROVE  entryOf(items, c, n + 1) = Takes(entryOf(items, c, n), items[n + 1])
<1>1. PICK A, S, sh, st, x : /\ A = ShownOf(items, c, n) /\ S = StatesOf(items, c, n)
                             /\ sh = inOrder(A, n) /\ st = inOrder(S, n) /\ x = items[n + 1]
  OBVIOUS
<1>0. PICK m \in Nat : m = n + 1
  OBVIOUS
<1>2. sh \in Seq(Nat) /\ st \in Seq(Nat)
  <2>1. Ordered(sh, A, n) /\ Ordered(st, S, n)
    BY <1>1, OrderType
  <2>2. sh \in Seq(1..n) /\ st \in Seq(1..n) /\ 1..n \subseteq Nat
    BY <2>1 DEF Ordered
  <2> QED BY <2>2
<1>3. PICK e : e = Made(items, c, sh, st)
  OBVIOUS
<1>4. /\ entryOf(items, c, n) = e
      /\ isArg(x) => entryOf(items, c, n + 1) = Made(items, c, Append(sh, n + 1), st)
      /\ x.tag = IscArgSQLState => entryOf(items, c, n + 1) = Made(items, c, sh, Append(st, n + 1))
      /\ ~isArg(x) /\ x.tag # IscArgSQLState => entryOf(items, c, n + 1) = e
  BY <1>1, <1>3, EntryGrows
<1>5. /\ Made(items, c, Append(sh, m), st) = WithParam(e, valueOf(items[m]))
      /\ Made(items, c, sh, Append(st, m)) = WithState(e, Bytes(items[m].s))
  BY <1>2, <1>3, MadeGrows
<1> QED BY <1>0, <1>1, <1>4, <1>5 DEF Takes

----------------------------------------------------------------------------
(* The lists of a status vector *)

CodesOf(items, T) == {i \in DOMAIN items : items[i].tag = T /\ items[i].v # 0}
EntriesAt(items, n) == [i \in Nat |-> entryOf(items, i, n)]

LEMMA EntriesIs ==
  ASSUME NEW items, NEW T, NEW n \in Nat, NEW s, s = inOrder(CodesOf(items, T), n)
  PROVE  /\ s \in Seq(Nat) /\ s \in Seq(1..n) /\ \A k \in 1..Len(s) : s[k] \in CodesOf(items, T)
         /\ entries(items, T, n) = MapOf(EntriesAt(items, n), s)
<1>1. Ordered(s, CodesOf(items, T), n)
  BY OrderType
<1>2. s \in Seq(1..n) /\ \A k \in 1..Len(s) : s[k] \in CodesOf(items, T)
  BY <1>1 DEF Ordered
<1>3. s \in Seq(Nat)
  <2>1. 1..n \subseteq Nat
    OBVIOUS
  <2> QED BY <1>2, <2>1
<1>4. entries(items, T, n) = [k \in DOMAIN s |-> entryOf(items, s[k], n)]
  BY DEF entries, CodesOf
<1>5. \A k \in DOMAIN s : s[k] \in Nat
  BY <1>3
<1>6. [k \in DOMAIN s |-> entryOf(items, s[k], n)] = MapOf(EntriesAt(items, n), s)
  BY <1>5 DEF MapOf, EntriesAt
<1> QED BY <1>2, <1>3, <1>4, <1>6

\* Once another code has come, or comes, an entry does not change any more.
LEMMA EntryKept ==
  ASSUME NEW items, NEW n \in Nat, NEW i \in 1..n, NEW c \in i+1..n + 1, isCode(items[c])
  PROVE  entryOf(items, i, n + 1) = entryOf(items, i, n)
<1>1. PICK m \in Nat : m = n + 1
  OBVIOUS
<1>2. i \in Nat /\ c \in Nat /\ i < c /\ c <= m
  BY <1>1
<1>3. entryOf(items, i, m) = entryOf(items, i, c - 1)
  BY <1>2, EntryStops
<1>4. CASE c = m
  <2>1. c - 1 = n
    BY <1>1, <1>4
  <2> QED BY <1>1, <1>3, <2>1
<1>5. CASE c # m
  <2>1. c <= n
    BY <1>1, <1>2, <1>5
  <2>2. entryOf(items, i, n) = entryOf(items, i, c - 1)
    BY <1>2, <2>1, EntryStops
  <2> QED BY <1>1, <1>3, <2>2
<1> QED BY <1>4, <1>5

LEMMA MapKept ==
  ASSUME NEW items, NEW n \in Nat, NEW s \in Seq(Nat),
         \A k \in 1..Len(s) : entryOf(items, s[k], n + 1) = entryOf(items, s[k], n)
  PROVE  MapOf(EntriesAt(items, n + 1), s) = MapOf(EntriesAt(items, n), s)
<1>1. PICK f, g : f = EntriesAt(items, n + 1) /\ g = EntriesAt(items, n)
  OBVIOUS
<1>2. DOMAIN s = 1..Len(s) /\ \A k \in 1..Len(s) : s[k] \in Nat
  OBVIOUS
<1>3. \A k \in DOMAIN s : f[s[k]] = g[s[k]]
  BY <1>1, <1>2 DEF EntriesAt
<1>4. MapOf(f, s) = MapOf(g, s)
  BY <1>3 DEF MapOf
<1> QED BY <1>1, <1>4

\* A code opens an entry of its list, unless it is zero.
LEMMA EntriesNew ==
  ASSUME NEW items, NEW T, NEW n \in Nat, n + 1 \in DOMAIN items, NEW x, x = items[n + 1], isCode(x)
  PROVE  /\ x.tag = T /\ x.v # 0 => entries(items, T, n + 1) = Append(entries(items, T, n), Entry(x.v))
         /\ x.tag # T \/ x.v = 0 => entries(items, T, n + 1) = entries(items, T, n)
<1>0. PICK m \in Nat : m = n + 1 /\ m \in DOMAIN items
  OBVIOUS
<1>1. PICK s, t : s = inOrder(CodesOf(items, T), n) /\ t = inOrder(CodesOf(items, T), m)
  OBVIOUS
<1>2. /\ s \in Seq(Nat) /\ s \in Seq(1..n)
      /\ entries(items, T, n) = MapOf(EntriesAt(items, n), s)
  BY <1>1, EntriesIs
<1>3. entries(items, T, m) = MapOf(EntriesAt(items, m), t)
  BY <1>1, EntriesIs
<1>4. t = IF m \in CodesOf(items, T) THEN Append(s, m) ELSE s
  BY <1>0, <1>1, OrderStep
<1>5. m \in CodesOf(items, T) <=> x.tag = T /\ x.v # 0
  BY <1>0 DEF CodesOf
<1>6. MapOf(EntriesAt(items, m), s) = entries(items, T, n)
  <2>1. ASSUME NEW k \in 1..Len(s) PROVE entryOf(items, s[k], n + 1) = entryOf(items, s[k], n)
    <3>1. PICK i \in 1..n : i = s[k]
      BY <1>2
    <3>2. PICK c \in i+1..n + 1 : isCode(items[c])
      <4>1. n + 1 \in i+1..n + 1
        OBVIOUS
      <4> QED BY <4>1
    <3>3. entryOf(items, i, n + 1) = entryOf(items, i, n)
      BY <3>2, EntryKept
    <3> QED BY <3>1, <3>3
  <2>2. MapOf(EntriesAt(items, n + 1), s) = MapOf(EntriesAt(items, n), s)
    BY <1>2, <2>1, MapKept
  <2> QED BY <1>0, <1>2, <2>2
<1>7. ASSUME x.tag = T, x.v # 0 PROVE entries(items, T, m) = Append(entries(items, T, n), Entry(x.v))
  <2>1. t = Append(s, m)
    BY <1>4, <1>5, <1>7
  <2>2. PICK f : f = EntriesAt(items, m)
    OBVIOUS
  <2>3. DOMAIN f = Nat /\ f[m] = entryOf(items, m, m)
    BY <2>2 DEF EntriesAt
  <2>4. MapOf(f, t) = Append(MapOf(f, s), f[m])
    BY <1>2, <2>1, <2>3, MapAppend
  <2>5. entryOf(items, m, m) = Entry(x.v)
    BY <1>0, EntryNew
  <2> QED BY <1>3, <1>6, <2>2, <2>3, <2>4, <2>5
<1>8. ASSUME x.tag # T \/ x.v = 0 PROVE entries(items, T, m) = entries(items, T, n)
  BY <1>3, <1>4, <1>5, <1>6, <1>8
<1> QED BY <1>0, <1>7, <1>8

\* The last code of the first n items.
Last(items, c, n) == c \in 1..n /\ isCode(items[c]) /\ NoCode(items, c, n)

LEMMA OtherKept ==
  ASSUME NEW items, NEW n \in Nat, NEW c, Last(items, c, n), NEW s \in Seq(1..n), \A k \in 1..Len(s) : s[k] < c
  PROVE  MapOf(EntriesAt(items, n + 1), s) = MapOf(EntriesAt(items, n), s)
<1>1. c \in 1..n /\ isCode(items[c])
  BY DEF Last
<1>2. ASSUME NEW k \in 1..Len(s) PROVE entryOf(items, s[k], n + 1) = entryOf(items, s[k], n)
  <2>1. PICK i \in 1..n : i = s[k] /\ i < c
    OBVIOUS
  <2>2. c \in i+1..n + 1
    BY <1>1, <2>1
  <2>3. entryOf(items, i, n + 1) = entryOf(items, i, n)
    BY <1>1, <2>2, EntryKept
  <2> QED BY <2>1, <2>3
<1>3. s \in Seq(Nat)
  <2>1. 1..n \subseteq Nat
    OBVIOUS
  <2> QED BY <2>1
<1> QED BY <1>2, <1>3, MapKept

CodeTags == {IscArgGds, IscArgWarning}

LEMMA CodesBefore ==
  ASSUME NEW items, NEW T \in CodeTags, NEW n \in Nat, NEW i \in CodesOf(items, T)
  PROVE  /\ isCode(items[i])
         /\ \A c \in Nat : i \in 1..n /\ NoCode(items, c, n) => i <= c
<1>1. isCode(items[i])
  BY DEF CodesOf, isCode, CodeTags
<1>2. ASSUME NEW c \in Nat, i \in 1..n, NoCode(items, c, n) PROVE i <= c
  <2>1. ~(i <= c) => i \in c+1..n
    BY <1>2
  <2>2. i \notin c+1..n
    BY <1>1, <1>2 DEF NoCode
  <2> QED BY <2>1, <2>2
<1> QED BY <1>1, <1>2

LEMMA CodesSame ==
  ASSUME NEW items, NEW T \in CodeTags, NEW n \in Nat, ~isCode(items[n + 1])
  PROVE  inOrder(CodesOf(items, T), n + 1) = inOrder(CodesOf(items, T), n)
<1>1. n + 1 \notin CodesOf(items, T)
  BY DEF CodesOf, isCode, CodeTags
<1>2. PICK I : I = CodesOf(items, T)
  OBVIOUS
<1> QED BY <1>1, <1>2, OrderStep

\* An item that is no code changes nothing in a list that the last code is not in.
LEMMA EntriesOther ==
  ASSUME NEW items, NEW T \in CodeTags, NEW n \in Nat, ~isCode(items[n + 1]), NEW c, Last(items, c, n),
         items[c].tag # T \/ items[c].v = 0
  PROVE  entries(items, T, n + 1) = entries(items, T, n)
<1>0. PICK m \in Nat : m = n + 1
  OBVIOUS
<1>1. PICK s : s = inOrder(CodesOf(items, T), n) /\ s = inOrder(CodesOf(items, T), m)
  BY <1>0, CodesSame
<1>2. /\ s \in Seq(1..n) /\ \A k \in 1..Len(s) : s[k] \in CodesOf(items, T)
      /\ entries(items, T, n) = MapOf(EntriesAt(items, n), s)
  <2>1. s = inOrder(CodesOf(items, T), n)
    BY <1>1
  <2> QED BY ONLY <2>1, n \in Nat, EntriesIs
<1>3. entries(items, T, m) = MapOf(EntriesAt(items, m), s)
  <2>1. s = inOrder(CodesOf(items, T), m)
    BY <1>1
  <2> QED BY ONLY <2>1, m \in Nat, EntriesIs
<1>4. c \in Nat /\ NoCode(items, c, n) /\ c \notin CodesOf(items, T)
  BY DEF Last, CodesOf
<1>5. ASSUME NEW k \in 1..Len(s) PROVE s[k] < c
  <2>1. PICK i \in 1..n : i = s[k] /\ i \in CodesOf(items, T)
    BY <1>2
  <2>2. i <= c
    BY <1>4, <2>1, CodesBefore
  <2>3. i # c
    BY <1>4, <2>1
  <2> QED BY <1>4, <2>1, <2>2, <2>3
<1>6. MapOf(EntriesAt(items, n + 1), s) = MapOf(EntriesAt(items, n), s)
  BY <1>2, <1>5, OtherKept
<1> QED BY <1>0, <1>2, <1>3, <1>6

Grown(s, t, x) == \E R : \E pre \in Seq(R), e \in R : s = Append(pre, e) /\ t = Append(pre, Takes(e, x))

\* It changes the last entry of the list that the last code is in.
LEMMA EntriesGrow ==
  ASSUME NEW items, NEW T \in CodeTags, NEW n \in Nat, ~isCode(items[n + 1]), NEW c, Last(items, c, n),
         c \in DOMAIN items, items[c].tag = T, items[c].v # 0
  PROVE  Grown(entries(items, T, n), entries(items, T, n + 1), items[n + 1])
<1>0. PICK m \in Nat : m = n + 1
  OBVIOUS
<1>1. PICK I : I = CodesOf(items, T)
  OBVIOUS
<1>2. c \in Nat /\ c \in 1..n /\ isCode(items[c]) /\ NoCode(items, c, n) /\ c \in I
  BY <1>1 DEF Last, CodesOf
<1>3. PICK d \in Nat : c = d + 1 /\ d <= n
  <2>1. c - 1 \in Nat /\ c = (c - 1) + 1 /\ c - 1 <= n
    BY <1>2
  <2> QED BY <2>1
<1>4. PICK s, t : s = inOrder(I, n) /\ t = inOrder(I, d)
  OBVIOUS
<1>5. s = Append(t, c)
  <2>1. \A i \in c+1..n : i \notin I
    <3>1. ASSUME NEW i \in c+1..n, i \in I PROVE FALSE
      <4>1. i \in 1..n /\ ~(i <= c)
        BY <1>2
      <4> QED BY <1>1, <1>2, <3>1, <4>1, CodesBefore
    <3> QED BY <3>1
  <2>2. c <= n
    BY <1>2
  <2>3. s = inOrder(I, c)
    BY <1>2, <1>4, <2>1, <2>2, OrderSkips
  <2>4. inOrder(I, d + 1) = IF d + 1 \in I THEN Append(inOrder(I, d), d + 1) ELSE inOrder(I, d)
    BY OrderStep
  <2> QED BY <1>2, <1>3, <1>4, <2>3, <2>4
<1>6. t \in Seq(Nat) /\ t \in Seq(1..n) /\ \A k \in 1..Len(t) : t[k] < c
  <2>1. t \in Seq(Nat) /\ t \in Seq(1..d)
    BY <1>1, <1>4, EntriesIs
  <2>2. 1..d \subseteq 1..n /\ \A i \in 1..d : i < c
    BY <1>3
  <2>3. t \in Seq(1..n)
    BY <2>1, <2>2
  <2>4. \A k \in 1..Len(t) : t[k] \in 1..d
    BY <2>1
  <2> QED BY <2>1, <2>2, <2>3, <2>4
<1>7. PICK f, g : f = EntriesAt(items, n) /\ g = EntriesAt(items, m)
  OBVIOUS
<1>8. DOMAIN f = Nat /\ DOMAIN g = Nat /\ f[c] = entryOf(items, c, n) /\ g[c] = entryOf(items, c, m)
  BY <1>2, <1>7 DEF EntriesAt
<1>9. MapOf(f, t) = MapOf(g, t)
  BY <1>0, <1>6, <1>7, OtherKept
<1>10. MapOf(f, s) = Append(MapOf(f, t), f[c]) /\ MapOf(f, t) \in Seq({f[j] : j \in Nat})
  BY <1>2, <1>5, <1>6, <1>8, MapAppend
<1>11. MapOf(g, s) = Append(MapOf(g, t), g[c])
  BY <1>2, <1>5, <1>6, <1>8, MapAppend
<1>12. entries(items, T, n) = MapOf(f, s)
  BY <1>1, <1>4, <1>7, EntriesIs
<1>13. entries(items, T, m) = MapOf(g, s)
  <2>1. s = inOrder(CodesOf(items, T), m)
    BY <1>0, <1>1, <1>4, CodesSame
  <2> QED BY <1>7, <2>1, EntriesIs
<1>14. g[c] = Takes(f[c], items[n + 1])
  <2>1. NoCode(items, c, n + 1)
    <3>1. \A k \in c+1..n + 1 : k \in c+1..n \/ k = n + 1
      BY <1>2
    <3> QED BY <1>2, <3>1 DEF NoCode
  <2>2. c <= n
    BY <1>2
  <2>3. entryOf(items, c, n + 1) = Takes(entryOf(items, c, n), items[n + 1])
    BY <1>2, <2>1, <2>2, EntryTakes
  <2> QED BY <1>0, <1>8, <2>3
<1>15. PICK R, pre, e : R = {f[j] : j \in Nat} /\ pre = MapOf(f, t) /\ e = f[c]
  OBVIOUS
<1>16. pre \in Seq(R) /\ e \in R
  BY <1>2, <1>10, <1>15
<1>17. entries(items, T, n) = Append(pre, e) /\ entries(items, T, n + 1) = Append(pre, Takes(e, items[n + 1]))
  BY <1>0, <1>9, <1>10, <1>11, <1>12, <1>13, <1>14, <1>15
<1> QED BY <1>16, <1>17 DEF Grown

\* An entry comes from a code.
LEMMA EntriesSome ==
  ASSUME NEW items, NEW T \in CodeTags, NEW n \in Nat, entries(items, T, n) # <<>>
  PROVE  \E h \in 1..n : h \in DOMAIN items /\ items[h].tag = T /\ items[h].v # 0
<1>1. PICK s : s = inOrder(CodesOf(items, T), n)
  OBVIOUS
<1>2. /\ s \in Seq(Nat) /\ s \in Seq(1..n) /\ \A k \in 1..Len(s) : s[k] \in CodesOf(items, T)
      /\ entries(items, T, n) = MapOf(EntriesAt(items, n), s)
  BY <1>1, EntriesIs
<1>3. s # <<>>
  <2>1. MapOf(EntriesAt(items, n), <<>>) = <<>>
    BY DEF MapOf
  <2> QED BY <1>2, <2>1
<1>4. 1 \in 1..Len(s)
  BY <1>2, <1>3
<1>5. s[1] \in 1..n /\ s[1] \in CodesOf(items, T)
  BY <1>2, <1>4
<1> QED BY <1>5 DEF CodesOf

LEMMA EntriesNone ==
  ASSUME NEW items, NEW T \in CodeTags, NEW n \in Nat, NoCode(items, 0, n)
  PROVE  entries(items, T, n) = <<>>
<1>1. SUFFICES ASSUME entries(items, T, n) # <<>> PROVE FALSE
  OBVIOUS
<1>2. PICK h \in 1..n : h \in DOMAIN items /\ items[h].tag = T /\ items[h].v # 0
  BY <1>1, EntriesSome
<1>3. h \in CodesOf(items, T)
  BY <1>2 DEF CodesOf
<1>4. h <= 0
  BY <1>3, CodesBefore
<1> QED BY <1>4

----------------------------------------------------------------------------
(* The parser *)

Parsed(E, V, cur, b) == [errors |-> E, warnings |-> V, cur |-> cur, isWarning |-> b]

\* Updates of a part of it.
Put(f, a, x) == [f EXCEPT ![a] = x]
OpenAt(f, a, x) == [f EXCEPT !.cur = a, ![a] = Append(@, x)]
ParamAt(f, a, i, x) == [f EXCEPT ![a][i].params = Append(@, x)]
StateAt(f, a, i, x) == [f EXCEPT ![a][i].state = x]

LEMMA Updates ==
  ASSUME NEW f, NEW a, a # "cur", NEW x
  PROVE  OpenAt(f, a, x) = Put(Put(f, "cur", a), a, Append(f[a], x))
BY DEF OpenAt, Put

LEMMA UpdatesParam ==
  ASSUME NEW f, NEW a, NEW i, NEW x
  PROVE  ParamAt(f, a, i, x) = Put(f, a, Put(f[a], i, WithParam(f[a][i], x)))
BY DEF Put, WithParam, ParamAt

LEMMA UpdatesState ==
  ASSUME NEW f, NEW a, NEW i, NEW x
  PROVE  StateAt(f, a, i, x) = Put(f, a, Put(f[a], i, WithState(f[a][i], x)))
BY DEF Put, WithState, StateAt

LEMMA Puts ==
  ASSUME NEW E, NEW V, NEW cur, NEW b, NEW p, p = Parsed(E, V, cur, b), NEW x
  PROVE  /\ Put(p, "errors", x) = Parsed(x, V, cur, b)
         /\ Put(p, "warnings", x) = Parsed(E, x, cur, b)
         /\ Put(p, "cur", x) = Parsed(E, V, x, b)
         /\ Put(p, "isWarning", x) = Parsed(E, V, cur, x)
<1>1. Put(p, "errors", x) = Parsed(x, V, cur, b)
  BY DEF Put, Parsed
<1>2. Put(p, "warnings", x) = Parsed(E, x, cur, b)
  BY DEF Put, Parsed
<1>3. Put(p, "cur", x) = Parsed(E, V, x, b)
  BY DEF Put, Parsed
<1>4. Put(p, "isWarning", x) = Parsed(E, V, cur, x)
  BY DEF Put, Parsed
<1> QED BY <1>1, <1>2, <1>3, <1>4

LEMMA Parts ==
  ASSUME NEW E, NEW V, NEW cur, NEW b, NEW p, p = Parsed(E, V, cur, b)
  PROVE  p["errors"] = E /\ p["warnings"] = V /\ p.cur = cur /\ p.isWarning = b
BY DEF Parsed

CodeAt(q, list, v) ==
  IF v = 0 THEN Put(q, "cur", "none") ELSE OpenAt(q, list, Entry(v))

LEMMA ParsesCode ==
  ASSUME NEW E, NEW V, NEW cur, NEW b, NEW q, q = Parsed(E, V, cur, b), NEW v
  PROVE  /\ v = 0 => \A list : CodeAt(q, list, v) = Parsed(E, V, "none", b)
         /\ v # 0 => CodeAt(q, "errors", v) = Parsed(Append(E, Entry(v)), V, "errors", b)
         /\ v # 0 => CodeAt(q, "warnings", v) = Parsed(E, Append(V, Entry(v)), "warnings", b)
<1>1. PICK z : z = Entry(v)
  OBVIOUS
<1>2. q["errors"] = E /\ q["warnings"] = V
  BY Parts
<1>3. PICK x, y : x = Append(E, z) /\ y = Append(V, z)
  OBVIOUS
<1>4. "errors" # "cur" /\ "warnings" # "cur"
  OBVIOUS
<1>5. OpenAt(q, "errors", z) = Put(Put(q, "cur", "errors"), "errors", x)
  BY <1>2, <1>3, <1>4, Updates
<1>6. OpenAt(q, "warnings", z) = Put(Put(q, "cur", "warnings"), "warnings", y)
  BY <1>2, <1>3, <1>4, Updates
<1>7. PICK r : r = Put(q, "cur", "errors") /\ r = Parsed(E, V, "errors", b)
  BY Puts
<1>8. PICK s : s = Put(q, "cur", "warnings") /\ s = Parsed(E, V, "warnings", b)
  BY Puts
<1>9. Put(r, "errors", x) = Parsed(x, V, "errors", b)
  BY <1>7, Puts
<1>10. Put(s, "warnings", y) = Parsed(E, y, "warnings", b)
  BY <1>8, Puts
<1>11. Put(q, "cur", "none") = Parsed(E, V, "none", b)
  BY Puts
<1>12. v = 0 => \A list : CodeAt(q, list, v) = Parsed(E, V, "none", b)
  BY <1>11 DEF CodeAt
<1>13. v # 0 => CodeAt(q, "errors", v) = Parsed(Append(E, Entry(v)), V, "errors", b)
  BY <1>1, <1>3, <1>5, <1>7, <1>9 DEF CodeAt
<1>14. v # 0 => CodeAt(q, "warnings", v) = Parsed(E, Append(V, Entry(v)), "warnings", b)
  BY <1>1, <1>3, <1>6, <1>8, <1>10 DEF CodeAt
<1> QED BY <1>12, <1>13, <1>14

EndsIn(s, e, y, t) == s # <<>> /\ s[Len(s)] = e /\ Put(s, Len(s), y) = t

LEMMA LastOf ==
  ASSUME NEW R, NEW pre \in Seq(R), NEW e \in R, NEW s, s = Append(pre, e), NEW y
  PROVE  EndsIn(s, e, y, Append(pre, y))
<1>1. PICK n \in Nat : n = Len(pre) /\ pre \in [1..n -> R]
  OBVIOUS
<1>2. s \in Seq(R) /\ Len(s) = n + 1 /\ (\A k \in 1..n : s[k] = pre[k]) /\ s[n + 1] = e
  BY <1>1, AppendProperties
<1>3. s # <<>>
  BY <1>1, <1>2
<1>4. PICK Q : Q = R \cup {y}
  OBVIOUS
<1>5. PICK t : t = Append(pre, y)
  OBVIOUS
<1>6. pre \in Seq(Q) /\ y \in Q
  BY <1>4
<1>7. t \in Seq(Q) /\ Len(t) = n + 1 /\ (\A k \in 1..n : t[k] = pre[k]) /\ t[n + 1] = y
  BY <1>1, <1>5, <1>6, AppendProperties
<1>8. PICK u : u = Put(s, n + 1, y)
  OBVIOUS
<1>9. DOMAIN s = 1..n + 1
  <2>1. DOMAIN s = 1..Len(s)
    BY <1>2, LenProperties
  <2> QED BY <1>2, <2>1
<1>10. u = [k \in 1..n + 1 |-> IF k = n + 1 THEN y ELSE s[k]]
  BY <1>8, <1>9 DEF Put
<1>11. t \in [1..n + 1 -> Q]
  <2>1. t \in [1..Len(t) -> Q]
    BY <1>7, LenProperties
  <2> QED BY <1>7, <2>1
<1>12. ASSUME NEW k \in 1..n + 1 PROVE (IF k = n + 1 THEN y ELSE s[k]) = t[k]
  <2>1. k # n + 1 => k \in 1..n
    BY <1>1
  <2> QED BY <1>2, <1>7, <2>1
<1>13. u = t
  BY <1>10, <1>11, <1>12
<1> QED BY <1>2, <1>3, <1>5, <1>8, <1>13 DEF EndsIn

\* An argument and an SQLSTATE go to the last entry of a list.
LastParam(p, list, v) == ParamAt(p, list, Len(p[list]), v)
LastState(p, list, v) == StateAt(p, list, Len(p[list]), v)

ToErrors(p, v, pre, e, V, cur, b) ==
  /\ LastParam(p, "errors", v) = Parsed(Append(pre, WithParam(e, v)), V, cur, b)
  /\ LastState(p, "errors", v) = Parsed(Append(pre, WithState(e, v)), V, cur, b)
ToWarnings(p, v, pre, e, E, cur, b) ==
  /\ LastParam(p, "warnings", v) = Parsed(E, Append(pre, WithParam(e, v)), cur, b)
  /\ LastState(p, "warnings", v) = Parsed(E, Append(pre, WithState(e, v)), cur, b)

LEMMA ParsesArgument ==
  ASSUME NEW E, NEW V, NEW cur, NEW b, NEW p, p = Parsed(E, V, cur, b), NEW v,
         NEW R, NEW pre \in Seq(R), NEW e \in R
  PROVE  /\ E = Append(pre, e) => ToErrors(p, v, pre, e, V, cur, b)
         /\ V = Append(pre, e) => ToWarnings(p, v, pre, e, E, cur, b)
<1>1. p["errors"] = E /\ p["warnings"] = V
  BY Parts
<1>2. PICK y, z : y = WithParam(e, v) /\ z = WithState(e, v)
  OBVIOUS
<1>3. PICK s : s = Append(pre, e)
  OBVIOUS
<1>4. s[Len(s)] = e /\ Put(s, Len(s), y) = Append(pre, y)
  <2>1. EndsIn(s, e, y, Append(pre, y))
    BY <1>3, LastOf
  <2> QED BY <2>1 DEF EndsIn
<1>5. Put(s, Len(s), z) = Append(pre, z)
  <2>1. EndsIn(s, e, z, Append(pre, z))
    BY <1>3, LastOf
  <2> QED BY <2>1 DEF EndsIn
<1>6. PICK n : n = Len(s)
  OBVIOUS
<1>7. ASSUME E = s
      PROVE  /\ LastParam(p, "errors", v) = Parsed(Append(pre, y), V, cur, b)
             /\ LastState(p, "errors", v) = Parsed(Append(pre, z), V, cur, b)
  <2>1. ParamAt(p, "errors", n, v) = Put(p, "errors", Append(pre, y))
    BY <1>1, <1>2, <1>4, <1>6, <1>7, UpdatesParam
  <2>2. StateAt(p, "errors", n, v) = Put(p, "errors", Append(pre, z))
    BY <1>1, <1>2, <1>4, <1>5, <1>6, <1>7, UpdatesState
  <2> QED BY <1>1, <1>6, <1>7, <2>1, <2>2, Puts DEF LastParam, LastState
<1>8. ASSUME V = s
      PROVE  /\ LastParam(p, "warnings", v) = Parsed(E, Append(pre, y), cur, b)
             /\ LastState(p, "warnings", v) = Parsed(E, Append(pre, z), cur, b)
  <2>1. ParamAt(p, "warnings", n, v) = Put(p, "warnings", Append(pre, y))
    BY <1>1, <1>2, <1>4, <1>6, <1>8, UpdatesParam
  <2>2. StateAt(p, "warnings", n, v) = Put(p, "warnings", Append(pre, z))
    BY <1>1, <1>2, <1>4, <1>5, <1>6, <1>8, UpdatesState
  <2> QED BY <1>1, <1>6, <1>8, <2>1, <2>2, Puts DEF LastParam, LastState
<1> QED BY <1>2, <1>3, <1>7, <1>8 DEF ToErrors, ToWarnings

\* What the parser makes of an item.
ItemRead(p, x) ==
  IF x.tag \in StringTag THEN stringItem(p, x.tag, Bytes(x.s)) ELSE wordItem(p, x.tag, x.v)

NameOf(b) == IF b THEN "warnings" ELSE "errors"
ListFor(x) == IF x.tag = IscArgWarning THEN "warnings" ELSE "errors"

LEMMA ReadKinds ==
  ASSUME NEW p, NEW x
  PROVE  /\ isArg(x) => ItemRead(p, x) = argument(p, valueOf(x))
         /\ x.tag = IscArgSQLState => ItemRead(p, x) = sqlStateItem(p, Bytes(x.s))
         /\ ~isCode(x) /\ ~isArg(x) /\ x.tag # IscArgSQLState => ItemRead(p, x) = p
         /\ isCode(x) => ItemRead(p, x) = gdsItem(p, ListFor(x), x.v)
BY DEF isArg, isCode, ItemRead, stringItem, wordItem, valueOf, StringTag, ListFor,
       IscArgString, IscArgNumber, IscArgSQLState, IscArgGds, IscArgWarning

LEMMA ReadArgument ==
  ASSUME NEW p, NEW v
  PROVE  /\ p.cur = "none" => argument(p, v) = p
         /\ p.cur # "none" => argument(p, v) = LastParam(p, p.cur, v)
BY Zenon DEF argument, LastParam, ParamAt

LEMMA ReadState ==
  ASSUME NEW p, NEW v, NEW list, list = NameOf(p.isWarning)
  PROVE  /\ p[list] = <<>> => sqlStateItem(p, v) = p
         /\ p[list] # <<>> => sqlStateItem(p, v) = LastState(p, list, v)
BY Zenon DEF sqlStateItem, LastState, StateAt, NameOf

LEMMA ReadCode ==
  ASSUME NEW p, NEW list \in {"errors", "warnings"}, NEW v
  PROVE  \E w : gdsItem(p, list, v) = CodeAt(Put(p, "isWarning", w), list, v) /\ NameOf(w) = list
<1>1. PICK w : w = (list = "warnings")
  OBVIOUS
<1>2. PICK q : q = Put(p, "isWarning", w)
  OBVIOUS
<1>3. [p EXCEPT !.isWarning = (list = "warnings")] = q
  BY <1>1, <1>2, Zenon DEF Put
<1>4. gdsItem(p, list, v) = CodeAt(q, list, v)
  BY <1>3, Zenon DEF gdsItem, CodeAt, Put, OpenAt
<1>5. NameOf(w) = list
  BY <1>1 DEF NameOf
<1> QED BY <1>2, <1>4, <1>5

\* What the next item will belong to.
Pending(items, n, cur, b) ==
  \/ NoCode(items, 0, n) /\ cur = "none" /\ NameOf(b) = "errors"
  \/ \E c : /\ Last(items, c, n) /\ NameOf(b) = ListFor(items[c])
            /\ cur = IF items[c].v = 0 THEN "none" ELSE NameOf(b)

\* The parser has understood the first n items.
Understood(p, items, n) ==
  \E cur, b : /\ p = Parsed(entries(items, IscArgGds, n), entries(items, IscArgWarning, n), cur, b)
              /\ Pending(items, n, cur, b)

LEMMA TagsAre ==
  /\ IscArgGds \in CodeTags /\ IscArgWarning \in CodeTags /\ IscArgGds # IscArgWarning
  /\ \A x : isCode(x) <=> x.tag \in CodeTags
BY DEF CodeTags, IscArgGds, IscArgWarning, isCode

LEMMA UnderstoodStart ==
  ASSUME NEW items
  PROVE  Understood(StartVector, items, 0)
<1>1. NoCode(items, 0, 0)
  BY DEF NoCode
<1>2. entries(items, IscArgGds, 0) = <<>> /\ entries(items, IscArgWarning, 0) = <<>>
  BY <1>1, TagsAre, EntriesNone
<1>3. PICK b : b = FALSE
  OBVIOUS
<1>4. StartVector = Parsed(<<>>, <<>>, "none", b)
  BY <1>3, Zenon DEF StartVector, Parsed
<1>5. NameOf(b) = "errors"
  BY <1>3 DEF NameOf
<1>6. Pending(items, 0, "none", b)
  BY <1>1, <1>5 DEF Pending
<1> QED BY <1>2, <1>4, <1>6 DEF Understood

\* A code is understood.
LEMMA CodeUnderstood ==
  ASSUME NEW items, NEW n \in Nat, n + 1 \in DOMAIN items, NEW x, x = items[n + 1], isCode(x),
         NEW p, Understood(p, items, n)
  PROVE  Understood(ItemRead(p, x), items, n + 1)
<1>0. PICK m \in Nat : m = n + 1
  OBVIOUS
<1>1. PICK cur, b : p = Parsed(entries(items, IscArgGds, n), entries(items, IscArgWarning, n), cur, b)
  BY DEF Understood
<1>2. PICK E, V, E2, V2 : /\ E = entries(items, IscArgGds, n) /\ V = entries(items, IscArgWarning, n)
                          /\ E2 = entries(items, IscArgGds, m) /\ V2 = entries(items, IscArgWarning, m)
  OBVIOUS
<1>3. PICK list \in {"errors", "warnings"} : list = ListFor(x)
  BY DEF ListFor
<1>4. PICK v : v = x.v
  OBVIOUS
<1>5. PICK w : gdsItem(p, list, v) = CodeAt(Put(p, "isWarning", w), list, v) /\ NameOf(w) = list
  BY ReadCode
<1>6. PICK q : q = Put(p, "isWarning", w) /\ q = Parsed(E, V, cur, w)
  BY <1>1, <1>2, Puts
<1>7. ItemRead(p, x) = CodeAt(q, list, v)
  BY <1>3, <1>4, <1>5, <1>6, ReadKinds
<1>8. /\ x.tag = IscArgGds /\ v # 0 => E2 = Append(E, Entry(v))
      /\ x.tag # IscArgGds \/ v = 0 => E2 = E
  BY <1>0, <1>2, <1>4, EntriesNew
<1>9. /\ x.tag = IscArgWarning /\ v # 0 => V2 = Append(V, Entry(v))
      /\ x.tag # IscArgWarning \/ v = 0 => V2 = V
  BY <1>0, <1>2, <1>4, EntriesNew
<1>10. PICK d : d = IF v = 0 THEN "none" ELSE list
  OBVIOUS
<1>11. CodeAt(q, list, v) = Parsed(E2, V2, d, w)
  <2>1. CASE v = 0
    <3>1. CodeAt(q, list, v) = Parsed(E, V, "none", w)
      BY <1>6, <2>1, ParsesCode
    <3> QED BY <1>8, <1>9, <1>10, <2>1, <3>1
  <2>2. CASE v # 0 /\ x.tag = IscArgGds
    <3>1. list = "errors" /\ E2 = Append(E, Entry(v)) /\ V2 = V /\ d = "errors"
      BY <1>3, <1>8, <1>9, <1>10, <2>2, TagsAre DEF ListFor
    <3>2. CodeAt(q, "errors", v) = Parsed(Append(E, Entry(v)), V, "errors", w)
      BY <1>6, <2>2, ParsesCode
    <3> QED BY <3>1, <3>2
  <2>3. CASE v # 0 /\ x.tag = IscArgWarning
    <3>1. list = "warnings" /\ V2 = Append(V, Entry(v)) /\ E2 = E /\ d = "warnings"
      BY <1>3, <1>8, <1>9, <1>10, <2>3, TagsAre DEF ListFor
    <3>2. CodeAt(q, "warnings", v) = Parsed(E, Append(V, Entry(v)), "warnings", w)
      BY <1>6, <2>3, ParsesCode
    <3> QED BY <3>1, <3>2
  <2> QED BY <2>1, <2>2, <2>3 DEF isCode
<1>12. Last(items, m, m)
  <2>1. m \in 1..m /\ NoCode(items, m, m)
    BY <1>0 DEF NoCode
  <2> QED BY <1>0, <2>1 DEF Last
<1>13. Pending(items, m, d, w)
  BY <1>0, <1>3, <1>4, <1>5, <1>10, <1>12 DEF Pending
<1> QED BY <1>0, <1>2, <1>7, <1>11, <1>13 DEF Understood

LEMMA PendingStays ==
  ASSUME NEW items, NEW n \in Nat, ~isCode(items[n + 1]), NEW c \in Nat, NoCode(items, c, n)
  PROVE  NoCode(items, c, n + 1)
<1>1. \A k \in c+1..n + 1 : k \in c+1..n \/ k = n + 1
  OBVIOUS
<1> QED BY <1>1 DEF NoCode

LEMMA LastStays ==
  ASSUME NEW items, NEW n \in Nat, ~isCode(items[n + 1]), NEW c, Last(items, c, n)
  PROVE  Last(items, c, n + 1)
<1>1. c \in 1..n /\ c \in 1..n + 1 /\ c \in Nat /\ isCode(items[c]) /\ NoCode(items, c, n)
  BY DEF Last
<1>2. NoCode(items, c, n + 1)
  BY <1>1, PendingStays
<1> QED BY <1>1, <1>2 DEF Last

\* Without a current entry an item is read over, and so is it in the lists.
LEMMA NothingOpen ==
  ASSUME NEW items, DOMAIN items = 1..Len(items), Len(items) \in Nat, Regular(items),
         NEW n \in Nat, n + 1 \in DOMAIN items, NEW x, x = items[n + 1], ~isCode(x),
         NEW E, NEW V, E = entries(items, IscArgGds, n), V = entries(items, IscArgWarning, n),
         NEW b, NEW p, p = Parsed(E, V, "none", b), Pending(items, n, "none", b)
  PROVE  Understood(ItemRead(p, x), items, n + 1)
<1>0. PICK m \in Nat : m = n + 1
  OBVIOUS
<1>1. PICK list \in {"errors", "warnings"} : list = NameOf(b)
  BY DEF NameOf
<1>2. p.cur = "none" /\ p["errors"] = E /\ p["warnings"] = V /\ p.isWarning = b
  BY Parts
<1>3. \/ NoCode(items, 0, n) /\ list = "errors"
      \/ \E c : Last(items, c, n) /\ list = ListFor(items[c]) /\ items[c].v = 0
  <2>1. list # "none"
    OBVIOUS
  <2> QED BY <1>1, <2>1 DEF Pending
<1>4. E = entries(items, IscArgGds, m) /\ V = entries(items, IscArgWarning, m) /\ Pending(items, m, "none", b)
  <2>1. CASE NoCode(items, 0, n) /\ list = "errors"
    <3>1. NoCode(items, 0, m)
      BY <1>0, <2>1, PendingStays
    <3>2. E = <<>> /\ V = <<>>
      BY <2>1, TagsAre, EntriesNone
    <3>3. entries(items, IscArgGds, m) = <<>> /\ entries(items, IscArgWarning, m) = <<>>
      BY <3>1, TagsAre, EntriesNone
    <3> QED BY <1>1, <2>1, <3>1, <3>2, <3>3 DEF Pending
  <2>2. CASE \E c : Last(items, c, n) /\ list = ListFor(items[c]) /\ items[c].v = 0
    <3>1. PICK c : Last(items, c, n) /\ list = ListFor(items[c]) /\ items[c].v = 0
      BY <2>2
    <3>2. Last(items, c, m)
      BY <1>0, <3>1, LastStays
    <3>3. entries(items, IscArgGds, n + 1) = E
      BY <3>1, TagsAre, EntriesOther
    <3>4. entries(items, IscArgWarning, n + 1) = V
      BY <3>1, TagsAre, EntriesOther
    <3> QED BY <1>0, <1>1, <3>1, <3>2, <3>3, <3>4 DEF Pending
  <2> QED BY <1>3, <2>1, <2>2
<1>5. ItemRead(p, x) = p
  <2>1. CASE isArg(x)
    BY <1>2, <2>1, ReadKinds, ReadArgument
  <2>2. CASE x.tag = IscArgSQLState
    <3>1. p[list] = <<>>
      <4>1. CASE NoCode(items, 0, n) /\ list = "errors"
        BY <1>2, <4>1, TagsAre, EntriesNone
      <4>2. CASE \E c : Last(items, c, n) /\ list = ListFor(items[c]) /\ items[c].v = 0
        <5>1. PICK c : Last(items, c, n) /\ list = ListFor(items[c]) /\ items[c].v = 0
          BY <4>2
        <5>2. c \in 1..n /\ c \in Nat /\ isCode(items[c]) /\ NoCode(items, c, n)
          BY <5>1 DEF Last
        <5>3. PICK T \in CodeTags : T = items[c].tag /\ p[list] = entries(items, T, n)
          BY <1>2, <5>1, <5>2, TagsAre DEF ListFor, isCode
        <5>4. SUFFICES ASSUME p[list] # <<>> PROVE FALSE
          OBVIOUS
        <5>5. PICK h \in 1..n : h \in DOMAIN items /\ items[h].tag = T /\ items[h].v # 0
          BY <5>3, <5>4, EntriesSome
        <5>6. h <= c /\ h # c
          <6>1. h \in CodesOf(items, T)
            BY <5>5 DEF CodesOf
          <6> QED BY <5>1, <5>2, <5>5, <6>1, CodesBefore
        <5>7. c \in DOMAIN items /\ h < c /\ c < m /\ m \in DOMAIN items
          BY <1>0, <5>2, <5>5, <5>6
        <5>8. items[c].tag \in {IscArgGds, IscArgWarning}
          BY <5>2 DEF isCode
        <5>9. \E k \in c+1..m : items[k].tag \in {IscArgGds, IscArgWarning}
          BY <1>0, <2>2, <5>1, <5>3, <5>5, <5>7, <5>8 DEF Regular
        <5>10. NoCode(items, c, m)
          BY <1>0, <5>2, PendingStays
        <5> QED BY <5>9, <5>10 DEF NoCode, isCode
      <4> QED BY <1>3, <4>1, <4>2
    <3>2. list = NameOf(p.isWarning)
      BY <1>1, <1>2
    <3> QED BY <2>2, <3>1, <3>2, ReadKinds, ReadState
  <2>3. CASE ~isArg(x) /\ x.tag # IscArgSQLState
    BY <2>3, ReadKinds
  <2> QED BY <2>1, <2>2, <2>3
<1> QED BY <1>0, <1>4, <1>5 DEF Understood

\* An item goes to the current entry.
LEMMA EntryOpen ==
  ASSUME NEW items, DOMAIN items = 1..Len(items), Len(items) \in Nat,
         NEW n \in Nat, n + 1 \in DOMAIN items, NEW x, x = items[n + 1], ~isCode(x),
         NEW E, NEW V, E = entries(items, IscArgGds, n), V = entries(items, IscArgWarning, n),
         NEW b, NEW list, list = NameOf(b), NEW p, p = Parsed(E, V, list, b),
         NEW c, Last(items, c, n), list = ListFor(items[c]), items[c].v # 0
  PROVE  Understood(ItemRead(p, x), items, n + 1)
<1>0. PICK m \in Nat : m = n + 1
  OBVIOUS
<1>1. p.cur = list /\ p["errors"] = E /\ p["warnings"] = V /\ p.isWarning = b
  BY Parts
<1>2. c \in 1..n /\ c \in DOMAIN items /\ isCode(items[c])
  BY DEF Last
<1>3. PICK T \in CodeTags, U \in CodeTags : /\ T = items[c].tag /\ U # T
  BY <1>2, TagsAre DEF isCode, CodeTags
<1>4. PICK R : \E pre \in Seq(R), e \in R :
        entries(items, T, n) = Append(pre, e) /\ entries(items, T, n + 1) = Append(pre, Takes(e, x))
  <2>1. Grown(entries(items, T, n), entries(items, T, n + 1), x)
    BY <1>2, <1>3, EntriesGrow
  <2> QED BY <2>1 DEF Grown
<1>5. PICK pre \in Seq(R), e \in R :
        entries(items, T, n) = Append(pre, e) /\ entries(items, T, m) = Append(pre, Takes(e, x))
  BY <1>0, <1>4
<1>6. entries(items, U, m) = entries(items, U, n)
  BY <1>0, <1>3, EntriesOther
<1>7. PICK E2, V2 : E2 = entries(items, IscArgGds, m) /\ V2 = entries(items, IscArgWarning, m)
  OBVIOUS
<1>8. Pending(items, m, list, b)
  <2>1. Last(items, c, m)
    BY <1>0, LastStays
  <2> QED BY <2>1 DEF Pending
<1>9. /\ isArg(x) => Takes(e, x) = WithParam(e, valueOf(x))
      /\ x.tag = IscArgSQLState => Takes(e, x) = WithState(e, Bytes(x.s))
      /\ ~isArg(x) /\ x.tag # IscArgSQLState => Takes(e, x) = e
  BY DEF Takes, isArg, IscArgSQLState, IscArgString, IscArgNumber
<1>10. Append(pre, e) # <<>>
  <2>1. PICK s : s = Append(pre, e)
    OBVIOUS
  <2>2. EndsIn(s, e, e, Append(pre, e))
    BY <2>1, LastOf
  <2> QED BY <2>1, <2>2 DEF EndsIn
<1>11. PICK v, w : v = valueOf(x) /\ w = Bytes(x.s)
  OBVIOUS
<1>12. list # "none" /\ list \in {"errors", "warnings"}
  BY DEF NameOf
<1>13. isArg(x) => ItemRead(p, x) = LastParam(p, list, v)
  BY <1>1, <1>11, <1>12, ReadKinds, ReadArgument
<1>14. p[list] # <<>> /\ x.tag = IscArgSQLState => ItemRead(p, x) = LastState(p, list, w)
  <2>1. list = NameOf(p.isWarning)
    BY <1>1
  <2> QED BY <1>11, <2>1, ReadKinds, ReadState
<1>15. ItemRead(p, x) = Parsed(E2, V2, list, b)
  <2>1. CASE list = "errors"
    <3>1. T = IscArgGds /\ U = IscArgWarning
      BY <1>3, <2>1 DEF ListFor, CodeTags
    <3>2. E = Append(pre, e) /\ E2 = Append(pre, Takes(e, x)) /\ V2 = V
      BY <1>5, <1>6, <1>7, <3>1
    <3>3. LastParam(p, "errors", v) = Parsed(Append(pre, WithParam(e, v)), V, list, b)
      <4>1. ToErrors(p, v, pre, e, V, list, b)
        BY <3>2, ParsesArgument
      <4> QED BY <4>1 DEF ToErrors
    <3>4. LastState(p, "errors", w) = Parsed(Append(pre, WithState(e, w)), V, list, b)
      <4>1. ToErrors(p, w, pre, e, V, list, b)
        BY <3>2, ParsesArgument
      <4> QED BY <4>1 DEF ToErrors
    <3>5. CASE isArg(x)
      BY <1>9, <1>11, <1>13, <2>1, <3>2, <3>3, <3>5
    <3>6. CASE x.tag = IscArgSQLState
      BY <1>1, <1>9, <1>10, <1>11, <1>14, <2>1, <3>2, <3>4, <3>6
    <3>7. CASE ~isArg(x) /\ x.tag # IscArgSQLState
      BY <1>9, <3>2, <3>7, ReadKinds
    <3> QED BY <3>5, <3>6, <3>7
  <2>2. CASE list = "warnings"
    <3>1. T = IscArgWarning /\ U = IscArgGds
      BY <1>3, <2>2 DEF ListFor, CodeTags
    <3>2. V = Append(pre, e) /\ V2 = Append(pre, Takes(e, x)) /\ E2 = E
      BY <1>5, <1>6, <1>7, <3>1
    <3>3. LastParam(p, "warnings", v) = Parsed(E, Append(pre, WithParam(e, v)), list, b)
      <4>1. ToWarnings(p, v, pre, e, E, list, b)
        BY <3>2, ParsesArgument
      <4> QED BY <4>1 DEF ToWarnings
    <3>4. LastState(p, "warnings", w) = Parsed(E, Append(pre, WithState(e, w)), list, b)
      <4>1. ToWarnings(p, w, pre, e, E, list, b)
        BY <3>2, ParsesArgument
      <4> QED BY <4>1 DEF ToWarnings
    <3>5. CASE isArg(x)
      BY <1>9, <1>11, <1>13, <2>2, <3>2, <3>3, <3>5
    <3>6. CASE x.tag = IscArgSQLState
      BY <1>1, <1>9, <1>10, <1>11, <1>14, <2>2, <3>2, <3>4, <3>6
    <3>7. CASE ~isArg(x) /\ x.tag # IscArgSQLState
      BY <1>9, <3>2, <3>7, ReadKinds
    <3> QED BY <3>5, <3>6, <3>7
  <2> QED BY <1>12, <2>1, <2>2
<1> QED BY <1>0, <1>7, <1>8, <1>15 DEF Understood

\* One item more is understood.
LEMMA ItemUnderstood ==
  ASSUME NEW items \in Seq(Items), Regular(items), NEW k \in 1..Len(items), NEW p, Understood(p, items, k - 1)
  PROVE  Understood(ItemRead(p, items[k]), items, k)
<1>1. DOMAIN items = 1..Len(items) /\ Len(items) \in Nat
  OBVIOUS
<1>2. PICK n \in Nat : k = n + 1 /\ k - 1 = n /\ n + 1 \in DOMAIN items
  <2>1. k - 1 \in Nat /\ k = (k - 1) + 1
    OBVIOUS
  <2> QED BY <1>1, <2>1
<1>3. PICK x : x = items[n + 1]
  OBVIOUS
<1>4. PICK cur, b : /\ p = Parsed(entries(items, IscArgGds, n), entries(items, IscArgWarning, n), cur, b)
                    /\ Pending(items, n, cur, b)
  BY <1>2 DEF Understood
<1>5. PICK E, V : E = entries(items, IscArgGds, n) /\ V = entries(items, IscArgWarning, n) /\ p = Parsed(E, V, cur, b)
  BY <1>4
<1>6. CASE isCode(x)
  BY <1>2, <1>3, <1>6, CodeUnderstood
<1>7. CASE ~isCode(x) /\ cur = "none"
  BY <1>1, <1>2, <1>3, <1>4, <1>5, <1>7, NothingOpen
<1>8. CASE ~isCode(x) /\ cur # "none"
  <2>1. PICK c : Last(items, c, n) /\ NameOf(b) = ListFor(items[c]) /\ items[c].v # 0 /\ cur = NameOf(b)
    BY <1>4, <1>8 DEF Pending
  <2> QED BY <1>1, <1>2, <1>3, <1>5, <1>8, <2>1, EntryOpen
<1> QED BY <1>6, <1>7, <1>8

----------------------------------------------------------------------------
(* The inductive invariant: where in the answer a the reader is, with F    *)
(* still to come after it                                                  *)

Fielded(r) == DOMAIN r = {"op", "ints", "len", "tag", "data", "sv"}

\* What has been read of the answer a, before its status vector.
Holds(r, a, ints, data) == r.op = a.op /\ r.ints = ints /\ r.data = data

InVector(items, F) ==
  \/ at = "peek" /\ stream = Vector(items, 0, F) /\ resp.sv = StartVector
  \/ at = "tag" /\ \E k \in 0..Len(items) : stream = Vector(items, k, F) /\ Understood(resp.sv, items, k)
  \/ \E k \in 1..Len(items) :
       /\ Understood(resp.sv, items, k - 1) /\ resp.tag = items[k].tag
       /\ \/ /\ at = "word" /\ items[k].tag \notin StringTag
             /\ stream = Word(items[k].v) \o Vector(items, k, F)
          \/ /\ at = "strlen" /\ items[k].tag \in StringTag
             /\ stream = Buffer(items[k].s) \o Vector(items, k, F)
          \/ /\ at = "string" /\ items[k].tag \in StringTag /\ resp.len = items[k].s.len
             /\ stream = (Bytes(items[k].s) \o Padding(pad(items[k].s.len))) \o Vector(items, k, F)

InResponse(a, F) ==
  \/ /\ at = "int" /\ plan = <<"int", "int64", "data", "status">>
     /\ Holds(resp, a, <<>>, 0) /\ resp.sv = StartVector
     /\ stream = Word(a.handle) \o (Int64(a.blob) \o (Buffer(a.data) \o Vector(a.items, 0, F)))
  \/ /\ at = "int64" /\ plan = <<"int64", "data", "status">>
     /\ Holds(resp, a, <<a.handle>>, 0) /\ resp.sv = StartVector
     /\ stream = Int64(a.blob) \o (Buffer(a.data) \o Vector(a.items, 0, F))
  \/ /\ at = "length" /\ plan = <<"data", "status">>
     /\ Holds(resp, a, <<a.handle, a.blob>>, 0) /\ resp.sv = StartVector
     /\ stream = Buffer(a.data) \o Vector(a.items, 0, F)
  \/ /\ at = "data" /\ plan = <<"data", "status">> /\ resp.len = a.data.len
     /\ Holds(resp, a, <<a.handle, a.blob>>, 0) /\ resp.sv = StartVector
     /\ stream = (Bytes(a.data) \o Padding(pad(a.data.len))) \o Vector(a.items, 0, F)
  \/ /\ plan = <<"status">> /\ InVector(a.items, F)
     /\ Holds(resp, a, <<a.handle, a.blob>>, a.data.len)
     /\ SubSeq(auxBuf, 1, a.data.len) = Bytes(a.data)

Position(a, F) ==
  \/ at = "opcode" /\ resp = Empty /\ \E d \in 0..a.dummies : stream = FromOpcode(a, d, F)
  \/ a.op = opResponse /\ InResponse(a, F)
  \/ /\ a.op = opFetchResponse /\ at = "int" /\ plan = <<"int", "int">>
     /\ Holds(resp, a, <<>>, 0) /\ resp.sv = StartVector
     /\ stream = Word(a.status) \o (Word(a.messages) \o F)
  \/ /\ a.op \in {opFetchResponse, opSQLResponse} /\ at = "int" /\ plan = <<"int">>
     /\ Holds(resp, a, IF a.op = opFetchResponse THEN <<a.status>> ELSE <<>>, 0) /\ resp.sv = StartVector
     /\ stream = Word(a.messages) \o F

\* The stream is at the right place of the answer whose turn it is.
PlaceInv ==
  err = "none" =>
    IF at = "idle" THEN stream = Follow(answers, Len(got))
    ELSE /\ Len(got) < Len(answers)
         /\ \E a \in {answers[Len(got) + 1]}, F \in {Follow(answers, Len(got) + 1)} : Position(a, F)

\* The message and the copy of its data are in shape.
Held == Fielded(resp) /\ auxBuf \in Seq(Byte)

CountInv ==
  /\ answers \in Scripts /\ Len(got) \in 0..Len(answers)
  /\ got = [i \in 1..Len(got) |-> got[i]]
  /\ Held

ReaderInv == WindowInv /\ CountInv /\ PlaceInv

LEMMA ScriptType ==
  ASSUME CountInv
  PROVE  /\ answers \in Seq(Answer) /\ Len(answers) \in Nat /\ Len(got) \in Nat /\ Len(got) <= Len(answers)
         /\ \A j \in Nat : j <= Len(answers) => Follow(answers, j) \in Seq(Byte)
         /\ \A j \in 1..Len(answers) : answers[j] \in Answer
<1>1. answers \in Seq(Answer)
  BY ScriptsAssumption DEF CountInv
<1>2. Len(answers) \in Nat
  BY <1>1
<1>3. Len(got) \in Nat /\ Len(got) <= Len(answers)
  BY <1>2 DEF CountInv
<1>4. \A j \in Nat : j <= Len(answers) => Follow(answers, j) \in Seq(Byte)
  BY <1>1, FollowStep
<1>5. \A j \in 1..Len(answers) : answers[j] \in Answer
  BY <1>1, ElementOfSeq
<1> QED BY <1>1, <1>2, <1>3, <1>4, <1>5

LEMMA InitReader ==
  ASSUME Init
  PROVE  ReaderInv
<1>1. got = <<>> /\ Len(got) = 0 /\ answers \in Seq(Answer) /\ answers \in Scripts /\ Len(answers) \in Nat
  <2>1. answers \in Scripts /\ answers \in Seq(Answer) /\ got = <<>>
    BY ScriptsAssumption DEF Init
  <2> QED BY <2>1
<1>2. CountInv
  <2>1. Held
    BY DEF Init, Empty, Held, Fielded
  <2>2. got = [i \in 1..Len(got) |-> got[i]]
    BY <1>1
  <2>3. Len(got) \in 0..Len(answers)
    BY <1>1
  <2> QED BY <1>1, <2>1, <2>2, <2>3 DEF CountInv
<1>3. net = Follow(answers, 0)
  <2>1. PICK n \in Nat : n = Len(answers) /\ DOMAIN answers = 1..n /\ n - 0 = n /\ \A i \in 1..n : 0 + i = i
    BY <1>1
  <2>2. [i \in DOMAIN answers |-> answerBytes(answers[i])]
          = [i \in 1..Len(answers) - 0 |-> answerBytes(answers[0 + i])]
    BY <2>1
  <2>3. net = Concat([i \in DOMAIN answers |-> answerBytes(answers[i])])
    BY DEF Init
  <2> QED BY <2>2, <2>3 DEF Follow
<1>4. net \in Seq(Byte)
  <2>1. 0 \in Nat /\ 0 <= Len(answers)
    BY <1>1
  <2> QED BY <1>2, <1>3, <2>1, ScriptType
<1>5. buf \in Seq(Byte) /\ Len(buf) = BufSize /\ BufSize \in Nat \ {0}
  <2>1. BufSize \in Nat \ {0}
    BY ReaderAssumption
  <2>2. <<3, 0, 0>> \in Byte
    BY DEF Byte
  <2>3. Padding(BufSize) \in [1..BufSize -> Byte]
    BY <2>1, <2>2 DEF Padding
  <2>4. buf = Padding(BufSize)
    BY DEF Init
  <2> QED BY <2>1, <2>3, <2>4
<1>6. start = 0 /\ end = 0 /\ at = "idle"
  BY DEF Init
<1>7. WindowInv
  BY <1>4, <1>5, <1>6 DEF WindowInv
<1>8. stream = net
  <2>1. view(unread) = SubSeq(buf, 0 + 1, 0 + 0)
    BY <1>6 DEF view, unread
  <2>2. 0 + 0 <= Len(buf) /\ 0 \in Nat
    BY <1>5
  <2>3. Len(SubSeq(buf, 0 + 1, 0 + 0)) = 0 /\ SubSeq(buf, 0 + 1, 0 + 0) \in Seq(Byte)
    BY <1>5, <2>2, SubBytes
  <2>4. view(unread) = <<>>
    BY <2>1, <2>3
  <2>5. <<>> \o net = net
    BY <1>4, Empty0
  <2> QED BY <2>4, <2>5 DEF stream
<1>9. PlaceInv
  BY <1>1, <1>3, <1>6, <1>8 DEF PlaceInv
<1> QED BY <1>2, <1>7, <1>9 DEF ReaderInv

\* A step that keeps the invariant and gives its caller nothing, or the next
\* answer with its meaning.
GoodStep ==
  /\ ReaderInv' /\ answers' = answers
  /\ \/ got' = got /\ (err = "none" \/ err' = err)
     \/ /\ err = "none" /\ err' = "none" /\ Len(got) < Len(answers)
        /\ got' = Append(got, Meaning(answers[Len(got) + 1]))

\* The state of a reader inside an answer.
Inside(a, F) ==
  /\ WindowInv /\ CountInv /\ err = "none" /\ at # "idle" /\ Len(got) < Len(answers)
  /\ a = answers[Len(got) + 1] /\ F = Follow(answers, Len(got) + 1)
  /\ a \in Answer /\ F \in Seq(Byte) /\ Position(a, F)

LEMMA InsideIs ==
  ASSUME ReaderInv, err = "none", at # "idle"
  PROVE  \E a, F : Inside(a, F)
<1>1. WindowInv /\ CountInv /\ Len(got) < Len(answers)
  BY DEF ReaderInv, PlaceInv
<1>2. PICK a, F : a = answers[Len(got) + 1] /\ F = Follow(answers, Len(got) + 1)
  OBVIOUS
<1>3. Position(a, F)
  BY <1>2 DEF ReaderInv, PlaceInv
<1>4. Len(got) + 1 \in Nat /\ Len(got) + 1 <= Len(answers) /\ Len(got) + 1 \in 1..Len(answers)
  BY <1>1, ScriptType
<1>5. a \in Answer /\ F \in Seq(Byte)
  BY <1>1, <1>2, <1>4, ScriptType
<1> QED BY <1>1, <1>2, <1>3, <1>5 DEF Inside

\* The answer is read: it was the turn of the next one.
LEMMA Finished ==
  ASSUME NEW a, NEW F, Inside(a, F), WindowInv', stream' = F, answers' = answers, at' = "idle",
         err' = err, NEW x, got' = Append(got, x), x = Meaning(a), Held'
  PROVE  GoodStep
<1>1. CountInv /\ Len(got) < Len(answers) /\ F = Follow(answers, Len(got) + 1)
  BY DEF Inside
<1>2. PICK n \in Nat : n = Len(got) /\ n < Len(answers) /\ n + 1 \in 0..Len(answers)
  BY <1>1, ScriptType
<1>3. got = [i \in 1..n |-> got[i]]
  BY <1>1, <1>2 DEF CountInv
<1>4. PICK S : S = {got[i] : i \in 1..n} \cup {x}
  OBVIOUS
<1>5. got \in Seq(S) /\ x \in S
  <2>1. \A i \in 1..n : got[i] \in S
    BY <1>4
  <2>2. got \in [1..n -> S]
    BY <1>3, <2>1
  <2> QED BY <1>2, <1>4, <2>2
<1>6. Len(got') = n + 1 /\ got' \in Seq(S)
  BY <1>2, <1>5, AppendProperties
<1>7. got' = [i \in 1..Len(got') |-> got'[i]]
  <2>1. PICK g : g = got'
    OBVIOUS
  <2>2. g \in Seq(S)
    BY <1>6, <2>1
  <2>3. g = [i \in 1..Len(g) |-> g[i]]
    BY <2>2
  <2> QED BY <2>1, <2>3
<1>8. CountInv'
  BY <1>1, <1>2, <1>6, <1>7 DEF CountInv
<1>9. PlaceInv'
  BY <1>1, <1>2, <1>6 DEF PlaceInv
<1>10. ReaderInv'
  BY <1>8, <1>9 DEF ReaderInv
<1>11. a = answers[Len(got) + 1] /\ err = "none"
  BY DEF Inside
<1> QED BY <1>1, <1>10, <1>11 DEF GoodStep

\* The reader goes on in the answer.
LEMMA Continued ==
  ASSUME NEW a, NEW F, Inside(a, F), WindowInv', Position(a, F)', answers' = answers, at' # "idle",
         got' = got, Held'
  PROVE  GoodStep
<1>1. /\ CountInv /\ Len(got) < Len(answers) /\ err = "none"
      /\ a = answers[Len(got) + 1] /\ F = Follow(answers, Len(got) + 1)
  BY DEF Inside
<1>2. CountInv'
  BY <1>1 DEF CountInv
<1>3. a \in {answers'[Len(got') + 1]} /\ F \in {Follow(answers', Len(got') + 1)}
  BY <1>1
<1>4. PlaceInv'
  BY <1>1, <1>3 DEF PlaceInv
<1> QED BY <1>1, <1>2, <1>4 DEF ReaderInv, GoodStep

\* After an error nothing is promised but the window.
LEMMA Broken ==
  ASSUME CountInv, WindowInv', answers' = answers, got' = got, Held', err = "none", err' # "none"
  PROVE  GoodStep
<1>1. CountInv'
  BY DEF CountInv
<1> QED BY <1>1 DEF ReaderInv, PlaceInv, GoodStep

----------------------------------------------------------------------------
(* What the callers are told *)

Plain(op, ints, data, warnings) ==
  [error |-> FALSE, op |-> op, ints |-> ints, data |-> data, warnings |-> warnings]
Failed(code, state, text) == [error |-> TRUE, code |-> code, state |-> state, text |-> text]

LEMMA ToldIs ==
  ASSUME NEW r
  PROVE  /\ HasError(r.sv) => told(r) = Failed(GDSCode(r.sv), SQLState(r.sv), Error(r.sv))
         /\ ~HasError(r.sv) => told(r) = Plain(r.op, r.ints, SubSeq(auxBuf, 1, r.data), r.sv.warnings)
BY Zenon DEF told, Plain, Failed

\* The two lists that a vector holds.
Lists(sv, E, V) == sv.errors = E /\ sv.warnings = V

LEMMA MeaningOfFetch ==
  ASSUME NEW a
  PROVE  /\ a.op = opFetchResponse => Meaning(a) = Plain(a.op, <<a.status, a.messages>>, <<>>, <<>>)
         /\ a.op = opSQLResponse => Meaning(a) = Plain(a.op, <<a.messages>>, <<>>, <<>>)
BY Opcodes DEF Meaning, Plain

LEMMA MeaningOfResponse ==
  ASSUME NEW a, a.op = opResponse, NEW E, NEW V, E = entries(a.items, IscArgGds, Len(a.items)),
         V = entries(a.items, IscArgWarning, Len(a.items)), NEW m, m = [errors |-> E, warnings |-> V]
  PROVE  /\ E # <<>> => Meaning(a) = Failed(E[1].code, SQLState(m), Error(m))
         /\ E = <<>> => Meaning(a) = Plain(a.op, <<a.handle, a.blob>>, Bytes(a.data), V)
<1>1. m.errors = E /\ m.warnings = V
  OBVIOUS
<1>2. a.op # opFetchResponse /\ a.op # opSQLResponse
  BY Opcodes
<1>3. Meaning(a) = IF m.errors # <<>>
                   THEN [error |-> TRUE, code |-> m.errors[1].code, state |-> SQLState(m), text |-> Error(m)]
                   ELSE [error |-> FALSE, op |-> a.op, ints |-> <<a.handle, a.blob>>,
                         data |-> Bytes(a.data), warnings |-> m.warnings]
  BY <1>2, Zenon DEF Meaning
<1> QED BY <1>1, <1>3, Zenon DEF Plain, Failed

\* The first entry has a code that is not zero.
LEMMA FirstCode ==
  ASSUME NEW items, NEW T, NEW n \in Nat, NEW E, E = entries(items, T, n), E # <<>>
  PROVE  E[1].code # 0
<1>1. PICK s : s = inOrder(CodesOf(items, T), n)
  OBVIOUS
<1>2. /\ s \in Seq(Nat) /\ \A k \in 1..Len(s) : s[k] \in CodesOf(items, T)
      /\ entries(items, T, n) = MapOf(EntriesAt(items, n), s)
  BY <1>1, EntriesIs
<1>3. s # <<>>
  <2>1. MapOf(EntriesAt(items, n), <<>>) = <<>>
    BY DEF MapOf
  <2> QED BY <1>2, <2>1
<1>4. 1 \in 1..Len(s) /\ 1 \in DOMAIN s
  BY <1>2, <1>3
<1>5. PICK i \in Nat : i = s[1] /\ items[i].v # 0
  BY <1>2, <1>4 DEF CodesOf
<1>6. E[1] = entryOf(items, i, n)
  BY <1>2, <1>4, <1>5 DEF MapOf, EntriesAt
<1>7. entryOf(items, i, n).code = items[i].v
  BY DEF entryOf
<1> QED BY <1>5, <1>6, <1>7

LEMMA ErrorsDecide ==
  ASSUME NEW E, NEW V, NEW sv, NEW m, Lists(sv, E, V), Lists(m, E, V), E # <<>> => E[1].code # 0
  PROVE  /\ HasError(sv) <=> E # <<>>
         /\ E # <<>> => GDSCode(sv) = E[1].code
         /\ SQLState(sv) = SQLState(m) /\ Error(sv) = Error(m)
BY DEF Lists, HasError, GDSCode, SQLState, Error

\* What was read is what the answer means.
LEMMA ToldResponse ==
  ASSUME NEW a \in Answer, a.op = opResponse, NEW r, Holds(r, a, <<a.handle, a.blob>>, a.data.len),
         SubSeq(auxBuf, 1, a.data.len) = Bytes(a.data),
         Lists(r.sv, entries(a.items, IscArgGds, Len(a.items)), entries(a.items, IscArgWarning, Len(a.items)))
  PROVE  told(r) = Meaning(a)
<1>1. Len(a.items) \in Nat
  BY AnswerFields
<1>2. PICK E, V : E = entries(a.items, IscArgGds, Len(a.items)) /\ V = entries(a.items, IscArgWarning, Len(a.items))
  OBVIOUS
<1>3. PICK m : m = [errors |-> E, warnings |-> V]
  OBVIOUS
<1>4. Lists(m, E, V) /\ Lists(r.sv, E, V)
  BY <1>2, <1>3 DEF Lists
<1>5. E # <<>> => E[1].code # 0
  BY <1>1, <1>2, FirstCode
<1>6. PICK sv : sv = r.sv
  OBVIOUS
<1>7. /\ HasError(sv) <=> E # <<>>
      /\ E # <<>> => GDSCode(sv) = E[1].code
      /\ SQLState(sv) = SQLState(m) /\ Error(sv) = Error(m)
  BY <1>4, <1>5, <1>6, ErrorsDecide
<1>8. CASE E # <<>>
  <2>1. told(r) = Failed(GDSCode(sv), SQLState(sv), Error(sv))
    BY <1>6, <1>7, <1>8, ToldIs
  <2>2. Meaning(a) = Failed(E[1].code, SQLState(m), Error(m))
    BY <1>2, <1>3, <1>8, MeaningOfResponse
  <2> QED BY <1>7, <1>8, <2>1, <2>2
<1>9. CASE E = <<>>
  <2>1. told(r) = Plain(r.op, r.ints, SubSeq(auxBuf, 1, r.data), r.sv.warnings)
    BY <1>6, <1>7, <1>9, ToldIs
  <2>2. Meaning(a) = Plain(a.op, <<a.handle, a.blob>>, Bytes(a.data), V)
    BY <1>2, <1>3, <1>9, MeaningOfResponse
  <2>3. r.op = a.op /\ r.ints = <<a.handle, a.blob>> /\ r.data = a.data.len /\ r.sv.warnings = V
    BY <1>4 DEF Holds, Lists
  <2> QED BY <2>1, <2>2, <2>3
<1> QED BY <1>8, <1>9

LEMMA ToldPlain ==
  ASSUME NEW a, NEW ints, NEW r, Holds(r, a, ints, 0), r.sv = StartVector, auxBuf \in Seq(Byte)
  PROVE  told(r) = Plain(a.op, ints, <<>>, <<>>)
<1>1. PICK sv : sv = StartVector
  OBVIOUS
<1>2. sv.errors = <<>> /\ sv.warnings = <<>>
  BY <1>1, Zenon DEF StartVector
<1>3. ~HasError(r.sv) /\ r.sv.warnings = <<>>
  BY <1>1, <1>2 DEF HasError
<1>4. SubSeq(auxBuf, 1, 0) = <<>>
  OBVIOUS
<1>5. r.op = a.op /\ r.ints = ints /\ r.data = 0
  BY DEF Holds
<1> QED BY <1>3, <1>4, <1>5, ToldIs

----------------------------------------------------------------------------
(* The steps *)

LEMMA SameWindow ==
  ASSUME WindowInv, net' = net, buf' = buf, start' = start, end' = end
  PROVE  WindowInv' /\ stream' = stream
<1>1. WindowInv'
  BY DEF WindowInv
<1>2. Stream(buf', start', end', net') = Stream(buf, start, end, net)
  OBVIOUS
<1> QED BY <1>1, <1>2, StreamDef

LEMMA NeedIs ==
  /\ at \notin {"data", "string", "peek", "int64"} => need = W
  /\ at = "int64" => need = 2 * W
  /\ at = "peek" => need = 3 * W
  /\ at \in {"data", "string"} => need = resp.len + pad(resp.len)
BY DEF need

\* A word, and a number of two words, that comes next.
LEMMA TakeWord ==
  ASSUME WindowInv, NEW v \in Int, NEW T \in Seq(Byte), stream = Word(v) \o T, unread >= W
  PROVE  wordOf(view(W)) = v /\ (advance(W) => WindowInv' /\ stream' = T)
<1>1. PICK x \in Seq(Byte) : x = Word(v) /\ Len(x) = W
  BY WordType
<1>2. W <= unread
  <2>1. unread \in Int /\ W \in Int
    BY ReaderAssumption DEF unread, WindowInv
  <2> QED BY <2>1
<1>3. view(W) = x /\ (advance(W) => WindowInv' /\ stream' = T)
  BY <1>1, <1>2, Take
<1> QED BY <1>1, <1>3, WordMeans

LEMMA TakeInt64 ==
  ASSUME WindowInv, NEW v \in Int, NEW T \in Seq(Byte), stream = Int64(v) \o T, unread >= 2 * W, advance(2 * W)
  PROVE  int64Of(view(2 * W)) = v /\ WindowInv' /\ stream' = T
<1>1. PICK x \in Seq(Byte) : x = Int64(v) /\ Len(x) = 2 * W
  BY WordType
<1>2. 2 * W <= unread
  <2>1. unread \in Int /\ 2 * W \in Int
    BY ReaderAssumption DEF unread, WindowInv
  <2> QED BY <2>1
<1>3. view(2 * W) = x /\ WindowInv' /\ stream' = T
  BY <1>1, <1>2, Take
<1> QED BY <1>1, <1>3, WordMeans

LEMMA BodySteps ==
  ASSUME NEW a \in Answer, NEW F \in Seq(Byte)
  PROVE  /\ a.op = opResponse =>
              /\ Body(a, F) = Word(a.handle) \o (Int64(a.blob) \o (Buffer(a.data) \o Vector(a.items, 0, F)))
              /\ Vector(a.items, 0, F) \in Seq(Byte)
              /\ Buffer(a.data) \o Vector(a.items, 0, F) \in Seq(Byte)
              /\ Int64(a.blob) \o (Buffer(a.data) \o Vector(a.items, 0, F)) \in Seq(Byte)
         /\ a.op = opFetchResponse =>
              Body(a, F) = Word(a.status) \o (Word(a.messages) \o F) /\ Word(a.messages) \o F \in Seq(Byte)
         /\ a.op = opSQLResponse => Body(a, F) = Word(a.messages) \o F
<1>1. CASE a.op = opResponse
  <2>1. Body(a, F) = Word(a.handle) \o (Int64(a.blob) \o (Buffer(a.data) \o Vector(a.items, 0, F)))
    BY <1>1, Opcodes DEF Body
  <2>2. a.handle \in Int /\ a.blob \in Int /\ a.data \in Str /\ a.items \in Seq(Items)
    BY <1>1, AnswerFields
  <2>3. Vector(a.items, 0, F) \in Seq(Byte)
    <3>1. 0 \in Nat /\ 0 <= Len(a.items)
      BY <2>2
    <3> QED BY <2>2, <3>1, VectorStep
  <2>4. Buffer(a.data) \o Vector(a.items, 0, F) \in Seq(Byte)
    BY <2>2, <2>3, BufferSeq, JoinType
  <2>5. Int64(a.blob) \o (Buffer(a.data) \o Vector(a.items, 0, F)) \in Seq(Byte)
    BY <2>2, <2>4, WordType, JoinType
  <2> QED BY <1>1, <2>1, <2>3, <2>4, <2>5, Opcodes, Zenon
<1>2. CASE a.op = opFetchResponse
  <2>1. Body(a, F) = Word(a.status) \o (Word(a.messages) \o F)
    BY <1>2, Opcodes DEF Body
  <2>2. Word(a.messages) \o F \in Seq(Byte)
    BY <1>2, AnswerFields, WordType, JoinType
  <2>3. a.op # opResponse /\ a.op # opSQLResponse
    BY <1>2, Opcodes
  <2> QED BY <2>1, <2>2, <2>3, Zenon
<1>3. CASE a.op = opSQLResponse
  <2>1. Body(a, F) = Word(a.messages) \o F
    BY <1>3, Opcodes DEF Body
  <2>2. a.op # opResponse /\ a.op # opFetchResponse
    BY <1>3, Opcodes
  <2> QED BY <2>1, <2>2, Zenon
<1> QED BY <1>1, <1>2, <1>3, AnswerFields

LEMMA ResponseStep ==
  ASSUME ReaderInv, ReadResponse
  PROVE  GoodStep
<1>1. /\ WindowInv /\ CountInv /\ stream = Follow(answers, Len(got)) /\ Len(got) < Len(answers)
      /\ answers' = answers /\ got' = got /\ at' = "opcode" /\ resp' = Empty
      /\ net' = net /\ buf' = buf /\ start' = start /\ end' = end
  BY DEF ReaderInv, PlaceInv, ReadResponse, window
<1>2. WindowInv' /\ stream' = stream
  BY <1>1, SameWindow
<1>3. CountInv'
  <2>1. Held'
    BY <1>1 DEF CountInv, Held, Empty, Fielded, ReadResponse
  <2> QED BY <1>1, <2>1 DEF CountInv
<1>4. PICK n \in Nat : n = Len(got) /\ n < Len(answers) /\ n + 1 <= Len(answers) /\ n + 1 \in 1..Len(answers)
  BY <1>1, ScriptType
<1>5. PICK a \in Answer, F \in Seq(Byte) : a = answers[n + 1] /\ F = Follow(answers, n + 1)
  BY <1>1, <1>4, ScriptType
<1>6. stream = answerBytes(a) \o F
  BY <1>1, <1>4, <1>5, ScriptType, FollowStep
<1>7. stream = FromOpcode(a, a.dummies, F)
  BY <1>6, AnswerIs
<1>8. a.dummies \in 0..a.dummies
  BY AnswerFields
<1>9. Position(a, F)'
  BY <1>1, <1>2, <1>7, <1>8 DEF Position
<1>10. a \in {answers'[Len(got') + 1]} /\ F \in {Follow(answers', Len(got') + 1)} /\ Len(got') < Len(answers')
  BY <1>1, <1>4, <1>5
<1>11. PlaceInv'
  BY <1>1, <1>9, <1>10 DEF PlaceInv
<1>12. err' = err
  BY DEF ReadResponse, window
<1> QED BY <1>1, <1>2, <1>3, <1>11, <1>12 DEF ReaderInv, GoodStep

\* The fields of the answers, one after the other.
LEMMA Plans ==
  /\ Fields(opResponse) = <<"int", "int64", "data", "status">> /\ Fields(opFetchResponse) = <<"int", "int">>
  /\ Fields(opSQLResponse) = <<"int">>
  /\ <<"int", "int64", "data", "status">>[1] = "int" /\ <<"int", "int">>[1] = "int" /\ <<"int">>[1] = "int"
  /\ Tail(<<"int">>) = <<>> /\ Tail(<<"status">>) = <<>>
  /\ Tail(<<"int", "int">>) = <<"int">> /\ <<"int">> # <<>> /\ <<"int", "int">>[2] = "int"
  /\ Tail(<<"int", "int64", "data", "status">>) = <<"int64", "data", "status">>
  /\ <<"int64", "data", "status">> # <<>> /\ <<"int", "int64", "data", "status">>[2] = "int64"
  /\ Tail(<<"int64", "data", "status">>) = <<"data", "status">>
  /\ <<"data", "status">> # <<>> /\ <<"int64", "data", "status">>[2] = "data"
  /\ Tail(<<"data", "status">>) = <<"status">> /\ <<"status">> # <<>> /\ <<"data", "status">>[2] = "status"
  /\ entry("int") = "int" /\ entry("int64") = "int64" /\ entry("data") = "length" /\ entry("status") = "peek"
<1>1. Fields(opResponse) = <<"int", "int64", "data", "status">> /\ Fields(opFetchResponse) = <<"int", "int">>
  BY Opcodes DEF Fields
<1>2. Fields(opSQLResponse) = <<"int">>
  BY Opcodes DEF Fields
<1>3. entry("int") = "int" /\ entry("int64") = "int64" /\ entry("data") = "length" /\ entry("status") = "peek"
  BY DEF entry
<1>4. Tail(<<"int">>) = <<>> /\ Tail(<<"status">>) = <<>> /\ Tail(<<"int", "int">>) = <<"int">>
  OBVIOUS
<1>5. /\ Tail(<<"int64", "data", "status">>) = <<"data", "status">> /\ Tail(<<"data", "status">>) = <<"status">>
  OBVIOUS
<1>6. Tail(<<"int", "int64", "data", "status">>) = <<"int64", "data", "status">>
  OBVIOUS
<1> QED BY <1>1, <1>2, <1>3, <1>4, <1>5, <1>6

LEMMA OpcodeStep ==
  ASSUME ReaderInv, ReadOpcode
  PROVE  GoodStep
<1>1. err = "none" /\ at = "opcode" /\ unread >= W /\ advance(W) /\ answers' = answers
  BY NeedIs DEF ReadOpcode, enough, advance
<1>2. PICK a, F : Inside(a, F)
  BY <1>1, InsideIs
<1>3. WindowInv /\ CountInv /\ a \in Answer /\ F \in Seq(Byte) /\ Position(a, F)
  BY <1>2 DEF Inside
<1>4. PICK d \in 0..a.dummies : stream = FromOpcode(a, d, F)
  BY <1>1, <1>3 DEF Position, InResponse, InVector
<1>8. resp = Empty /\ auxBuf' = auxBuf
  BY <1>1, <1>3 DEF Position, InResponse, InVector, ReadOpcode
<1>5. d \in Nat /\ a.op \in Int /\ opDummy \in Int
  BY <1>3, AnswerFields, Opcodes
<1>6. CASE d = 0
  <2>1. stream = Word(a.op) \o Body(a, F) /\ Body(a, F) \in Seq(Byte)
    BY <1>3, <1>4, <1>5, <1>6, FromOpcodeStep
  <2>2. wordOf(view(W)) = a.op /\ WindowInv' /\ stream' = Body(a, F)
    BY <1>1, <1>3, <1>5, <2>1, TakeWord
  <2>3. a.op \in {opResponse, opFetchResponse, opSQLResponse} /\ a.op # opDummy
    BY <1>3, AnswerFields, Opcodes
  <2>4. /\ plan' = Fields(a.op) /\ at' = entry(Fields(a.op)[1]) /\ resp' = [resp EXCEPT !.op = a.op] /\ got' = got
    BY <2>2, <2>3 DEF ReadOpcode
  <2>9. /\ Fielded(resp') /\ resp'.op = a.op /\ resp'.ints = <<>> /\ resp'.data = 0
        /\ resp'.sv = StartVector
    BY <1>8, <2>4 DEF Empty, Fielded
  <2>5. Held'
    BY <1>3, <1>8, <2>9 DEF CountInv, Held
  <2>10. Holds(resp, a, <<>>, 0)'
    BY <2>9 DEF Holds
  <2>6. CASE a.op = opResponse
    <3>1. plan' = <<"int", "int64", "data", "status">> /\ at' = "int"
      BY <2>4, <2>6, Plans
    <3>2. stream' = Word(a.handle) \o (Int64(a.blob) \o (Buffer(a.data) \o Vector(a.items, 0, F)))
      BY <1>3, <2>2, <2>6, BodySteps
    <3>3. Position(a, F)'
      BY <2>6, <2>9, <2>10, <3>1, <3>2 DEF Position, InResponse
    <3> QED BY <1>1, <1>2, <2>2, <2>4, <2>5, <3>1, <3>3, Continued
  <2>7. CASE a.op = opFetchResponse
    <3>1. plan' = <<"int", "int">> /\ at' = "int"
      BY <2>4, <2>7, Plans
    <3>2. stream' = Word(a.status) \o (Word(a.messages) \o F)
      BY <1>3, <2>2, <2>7, BodySteps
    <3>3. Position(a, F)'
      BY <2>7, <2>9, <2>10, <3>1, <3>2 DEF Position
    <3> QED BY <1>1, <1>2, <2>2, <2>4, <2>5, <3>1, <3>3, Continued
  <2>8. CASE a.op = opSQLResponse
    <3>1. plan' = <<"int">> /\ at' = "int"
      BY <2>4, <2>8, Plans
    <3>2. stream' = Word(a.messages) \o F
      BY <1>3, <2>2, <2>8, BodySteps
    <3>3. Position(a, F)'
      BY <2>8, <2>9, <2>10, <3>1, <3>2, Opcodes DEF Position
    <3> QED BY <1>1, <1>2, <2>2, <2>4, <2>5, <3>1, <3>3, Continued
  <2> QED BY <2>3, <2>6, <2>7, <2>8
<1>7. CASE d # 0
  <2>1. d > 0 /\ d - 1 \in Nat /\ d - 1 \in 0..a.dummies
    BY <1>3, <1>5, <1>7, AnswerFields
  <2>2. stream = Word(opDummy) \o FromOpcode(a, d - 1, F) /\ FromOpcode(a, d - 1, F) \in Seq(Byte)
    BY <1>3, <1>4, <1>5, <2>1, FromOpcodeStep
  <2>3. wordOf(view(W)) = opDummy /\ WindowInv' /\ stream' = FromOpcode(a, d - 1, F)
    BY <1>1, <1>3, <1>5, <2>2, TakeWord
  <2>4. at' = at /\ plan' = plan /\ resp' = resp /\ got' = got
    BY <2>3, Opcodes DEF ReadOpcode
  <2>5. Position(a, F)'
    BY <1>1, <1>8, <2>1, <2>3, <2>4 DEF Position
  <2>6. Held' /\ at' # "idle"
    BY <1>1, <1>3, <1>8, <2>4 DEF CountInv, Held
  <2> QED BY <1>1, <1>2, <2>3, <2>4, <2>5, <2>6, Continued
<1> QED BY <1>6, <1>7

\* The message r is q with another value of the field f.
Changed(r, q, f, v) ==
  /\ Fielded(r) /\ r[f] = v
  /\ \A g \in {"op", "ints", "len", "tag", "data", "sv"} \ {f} : r[g] = q[g]

LEMMA PutField ==
  ASSUME NEW q, Fielded(q), NEW f \in {"op", "ints", "len", "tag", "data", "sv"}, NEW v
  PROVE  Changed(Put(q, f, v), q, f, v)
BY DEF Changed, Fielded, Put

LEMMA Single ==
  ASSUME NEW S, NEW x \in S
  PROVE  <<x>> \in Seq(S) /\ Len(<<x>>) = 1 /\ <<x>>[1] = x
OBVIOUS

LEMMA Double ==
  ASSUME NEW S, NEW x \in S, NEW y \in S
  PROVE  <<x, y>> \in Seq(S) /\ Len(<<x, y>>) = 2 /\ <<x, y>>[1] = x /\ <<x, y>>[2] = y
OBVIOUS

LEMMA Pair ==
  ASSUME NEW x, NEW y
  PROVE  Append(<<x>>, y) = <<x, y>>
<1>1. PICK S : x \in S /\ y \in S
  <2>1. x \in {x, y} /\ y \in {x, y}
    OBVIOUS
  <2> QED BY <2>1
<1>2. PICK s : s = <<x>>
  OBVIOUS
<1>3. PICK u : u = <<x, y>>
  OBVIOUS
<1>4. s \in Seq(S) /\ Len(s) = 1 /\ s[1] = x
  <2>1. <<x>> \in Seq(S) /\ Len(<<x>>) = 1 /\ <<x>>[1] = x
    BY <1>1, Single
  <2> QED BY <1>2, <2>1
<1>5. u \in Seq(S) /\ Len(u) = 2 /\ u[1] = x /\ u[2] = y
  <2>1. <<x, y>> \in Seq(S) /\ Len(<<x, y>>) = 2 /\ <<x, y>>[1] = x /\ <<x, y>>[2] = y
    BY <1>1, Double
  <2> QED BY <1>3, <2>1
<1>6. PICK t : t = Append(s, y)
  OBVIOUS
<1>7. t \in Seq(S) /\ Len(t) = Len(s) + 1 /\ (\A i \in 1..Len(s) : t[i] = s[i]) /\ t[Len(s) + 1] = y
  <2>1. s \in Seq(S) /\ y \in S
    BY <1>1, <1>4
  <2>2. Append(s, y) \in Seq(S)
    BY ONLY <2>1, AppendProperties
  <2>3. Len(Append(s, y)) = Len(s) + 1
    BY ONLY <2>1, AppendProperties
  <2>4. \A i \in 1..Len(s) : Append(s, y)[i] = s[i]
    BY ONLY <2>1, AppendProperties
  <2>5. Append(s, y)[Len(s) + 1] = y
    BY ONLY <2>1, AppendProperties
  <2> QED BY ONLY <1>6, <2>2, <2>3, <2>4, <2>5
<1>8. Len(t) = 2 /\ t[1] = x /\ t[2] = y
  BY <1>4, <1>7
<1>9. t = u
  BY <1>5, <1>7, <1>8, SeqEqual
<1> QED BY <1>2, <1>3, <1>6, <1>9

LEMMA Int32Step ==
  ASSUME ReaderInv, ReadInt32
  PROVE  GoodStep
<1>1. err = "none" /\ at = "int" /\ unread >= W /\ advance(W) /\ answers' = answers
  BY NeedIs DEF ReadInt32, enough, advance
<1>2. PICK a, F : Inside(a, F)
  BY <1>1, InsideIs
<1>3. WindowInv /\ CountInv /\ a \in Answer /\ F \in Seq(Byte) /\ Position(a, F)
  BY <1>2 DEF Inside
<1>4. PICK v, r : v = wordOf(view(W)) /\ r = Put(resp, "ints", Append(resp.ints, v))
  OBVIOUS
<1>5. nextField(r) /\ resp' = r
  <2>1. [resp EXCEPT !.ints = Append(@, wordOf(view(W)))] = r
    BY <1>4 DEF Put
  <2>2. nextField(r)
    BY <2>1, Zenon DEF ReadInt32
  <2> QED BY <2>2 DEF nextField
<1>9. Changed(r, resp, "ints", Append(resp.ints, v)) /\ auxBuf \in Seq(Byte)
  BY <1>3, <1>4, PutField DEF CountInv, Held
<1>10. /\ Fielded(r) /\ r.ints = Append(resp.ints, v) /\ r.op = resp.op /\ r.data = resp.data
       /\ r.sv = resp.sv
  BY <1>9 DEF Changed
<1>11. Held' /\ err' = err
  BY <1>5, <1>9, <1>10 DEF Held, ReadInt32
<1>6. CASE /\ a.op \in {opFetchResponse, opSQLResponse} /\ plan = <<"int">> /\ stream = Word(a.messages) \o F
           /\ Holds(resp, a, IF a.op = opFetchResponse THEN <<a.status>> ELSE <<>>, 0) /\ resp.sv = StartVector
  <2>1. a.messages \in Int
    BY <1>3, <1>6, AnswerFields
  <2>2. v = a.messages /\ WindowInv' /\ stream' = F
    BY <1>1, <1>3, <1>4, <1>6, <2>1, TakeWord
  <2>4. told(r) = Meaning(a)
    <3>1. CASE a.op = opFetchResponse
      <4>1. resp.ints = <<a.status>> /\ r.op = a.op /\ r.data = 0
        BY <1>6, <1>10, <3>1 DEF Holds
      <4>2. r.ints = <<a.status, a.messages>>
        BY <1>10, <2>2, <4>1, Pair
      <4>3. Holds(r, a, <<a.status, a.messages>>, 0)
        BY <4>1, <4>2 DEF Holds
      <4>4. told(r) = Plain(a.op, <<a.status, a.messages>>, <<>>, <<>>)
        BY <1>6, <1>9, <1>10, <4>3, ToldPlain
      <4> QED BY <3>1, <4>4, MeaningOfFetch
    <3>2. CASE a.op = opSQLResponse
      <4>1. resp.ints = <<>> /\ r.op = a.op /\ r.data = 0
        BY <1>6, <1>10, <3>2, Opcodes DEF Holds
      <4>2. r.ints = <<a.messages>>
        BY <1>10, <2>2, <4>1
      <4>3. Holds(r, a, <<a.messages>>, 0)
        BY <4>1, <4>2 DEF Holds
      <4>4. told(r) = Plain(a.op, <<a.messages>>, <<>>, <<>>)
        BY <1>6, <1>9, <1>10, <4>3, ToldPlain
      <4> QED BY <3>2, <4>4, MeaningOfFetch
    <3> QED BY <1>6, <3>1, <3>2
  <2>3. at' = "idle" /\ got' = Append(got, told(r))
    BY <1>5, <1>6, Plans DEF nextField
  <2> QED BY <1>1, <1>2, <1>11, <2>2, <2>3, <2>4, Finished
<1>7. CASE /\ a.op = opFetchResponse /\ plan = <<"int", "int">>
           /\ Holds(resp, a, <<>>, 0) /\ resp.sv = StartVector
           /\ stream = Word(a.status) \o (Word(a.messages) \o F)
  <2>1. a.status \in Int /\ Word(a.messages) \o F \in Seq(Byte)
    BY <1>3, <1>7, AnswerFields, BodySteps
  <2>2. v = a.status /\ WindowInv' /\ stream' = Word(a.messages) \o F
    BY <1>1, <1>3, <1>4, <1>7, <2>1, TakeWord
  <2>3. plan' = <<"int">> /\ at' = "int" /\ got' = got
    BY <1>5, <1>7, Plans DEF nextField
  <2>5. Holds(resp, a, <<a.status>>, 0)' /\ resp'.sv = StartVector
    <3>1. resp.ints = <<>> /\ resp.op = a.op /\ resp.data = 0
      BY <1>7 DEF Holds
    <3>2. r.ints = <<a.status>>
      BY <1>10, <2>2, <3>1
    <3> QED BY <1>5, <1>7, <1>10, <3>1, <3>2 DEF Holds
  <2>4. Position(a, F)'
    BY <1>7, <2>2, <2>3, <2>5 DEF Position
  <2> QED BY <1>1, <1>2, <1>11, <2>2, <2>3, <2>4, Continued
<1>8. CASE /\ a.op = opResponse /\ plan = <<"int", "int64", "data", "status">>
           /\ Holds(resp, a, <<>>, 0) /\ resp.sv = StartVector
           /\ stream = Word(a.handle) \o (Int64(a.blob) \o (Buffer(a.data) \o Vector(a.items, 0, F)))
  <2>1. PICK T \in Seq(Byte) : T = Int64(a.blob) \o (Buffer(a.data) \o Vector(a.items, 0, F))
    BY <1>3, <1>8, BodySteps
  <2>2. a.handle \in Int /\ stream = Word(a.handle) \o T
    BY <1>3, <1>8, <2>1, AnswerFields
  <2>3. v = a.handle /\ WindowInv' /\ stream' = T
    BY <1>1, <1>3, <1>4, <2>2, TakeWord
  <2>4. plan' = <<"int64", "data", "status">> /\ at' = "int64" /\ got' = got
    BY <1>5, <1>8, Plans DEF nextField
  <2>6. Holds(resp, a, <<a.handle>>, 0)' /\ resp'.sv = StartVector
    <3>1. resp.ints = <<>> /\ resp.op = a.op /\ resp.data = 0
      BY <1>8 DEF Holds
    <3>2. r.ints = <<a.handle>>
      BY <1>10, <2>3, <3>1
    <3> QED BY <1>5, <1>8, <1>10, <3>1, <3>2 DEF Holds
  <2>5. Position(a, F)'
    BY <1>8, <2>1, <2>3, <2>4, <2>6 DEF Position, InResponse
  <2> QED BY <1>1, <1>2, <1>11, <2>3, <2>4, <2>5, Continued
<1> QED BY <1>1, <1>3, <1>6, <1>7, <1>8 DEF Position, InResponse, InVector

LEMMA Int64Step ==
  ASSUME ReaderInv, ReadInt64
  PROVE  GoodStep
<1>1. err = "none" /\ at = "int64" /\ unread >= 2 * W /\ advance(2 * W) /\ answers' = answers
  BY NeedIs DEF ReadInt64, enough, advance
<1>2. PICK a, F : Inside(a, F)
  BY <1>1, InsideIs
<1>3. WindowInv /\ CountInv /\ a \in Answer /\ F \in Seq(Byte) /\ Position(a, F)
  BY <1>2 DEF Inside
<1>4. PICK v, r : v = int64Of(view(2 * W)) /\ r = Put(resp, "ints", Append(resp.ints, v))
  OBVIOUS
<1>5. nextField(r) /\ resp' = r
  <2>1. [resp EXCEPT !.ints = Append(@, int64Of(view(2 * W)))] = r
    BY <1>4 DEF Put
  <2>2. nextField(r)
    BY <2>1, Zenon DEF ReadInt64
  <2> QED BY <2>2 DEF nextField
<1>12. Changed(r, resp, "ints", Append(resp.ints, v)) /\ auxBuf \in Seq(Byte)
  BY <1>3, <1>4, PutField DEF CountInv, Held
<1>13. /\ Fielded(r) /\ r.ints = Append(resp.ints, v) /\ r.op = resp.op /\ r.data = resp.data
       /\ r.sv = resp.sv
  BY <1>12 DEF Changed
<1>14. Held'
  BY <1>5, <1>12, <1>13 DEF Held, ReadInt64
<1>6. /\ a.op = opResponse /\ plan = <<"int64", "data", "status">>
      /\ Holds(resp, a, <<a.handle>>, 0) /\ resp.sv = StartVector
      /\ stream = Int64(a.blob) \o (Buffer(a.data) \o Vector(a.items, 0, F))
  BY <1>1, <1>3 DEF Position, InResponse, InVector
<1>7. PICK T \in Seq(Byte) : T = Buffer(a.data) \o Vector(a.items, 0, F)
  BY <1>3, <1>6, BodySteps
<1>8. a.blob \in Int /\ stream = Int64(a.blob) \o T
  BY <1>3, <1>6, <1>7, AnswerFields
<1>9. v = a.blob /\ WindowInv' /\ stream' = T
  BY <1>1, <1>3, <1>4, <1>8, TakeInt64
<1>15. Holds(resp, a, <<a.handle, a.blob>>, 0)' /\ resp'.sv = StartVector
  <2>1. resp.ints = <<a.handle>> /\ resp.op = a.op /\ resp.data = 0
    BY <1>6 DEF Holds
  <2>2. r.ints = <<a.handle, a.blob>>
    BY <1>9, <1>13, <2>1, Pair
  <2> QED BY <1>5, <1>6, <1>13, <2>1, <2>2 DEF Holds
<1>10. plan' = <<"data", "status">> /\ at' = "length" /\ got' = got
  BY <1>5, <1>6, Plans DEF nextField
<1>11. Position(a, F)'
  BY <1>6, <1>7, <1>9, <1>10, <1>15 DEF Position, InResponse
<1> QED BY <1>1, <1>2, <1>9, <1>10, <1>11, <1>14, Continued

\* The length of a buffer that comes next, and its bytes.
LEMMA TakeLength ==
  ASSUME WindowInv, NEW s \in Str, NEW V \in Seq(Byte), stream = Buffer(s) \o V, unread >= W, advance(W)
  PROVE  /\ fixup(wordOf(view(W))) = s.len
         /\ WindowInv' /\ stream' = (Bytes(s) \o Padding(pad(s.len))) \o V
<1>1. PICK w \in Seq(Byte), t \in Seq(Byte) : w = Word(WireLength(s)) /\ t = Bytes(s) \o Padding(pad(s.len))
  BY BufferType, WordType, JoinType
<1>2. WireLength(s) \in Int /\ Buffer(s) = w \o t
  BY <1>1, BufferType
<1>3. PICK T \in Seq(Byte) : T = t \o V
  BY JoinType
<1>4. Regroups3(w, t, V)
  BY Assoc
<1>5. stream = Word(WireLength(s)) \o T
  BY <1>1, <1>2, <1>3, <1>4 DEF Regroups3
<1>6. wordOf(view(W)) = WireLength(s) /\ WindowInv' /\ stream' = T
  BY <1>2, <1>5, TakeWord
<1> QED BY <1>1, <1>3, <1>6, FixupMeans

LEMMA TakeBuffer ==
  ASSUME WindowInv, NEW s \in Str, NEW V \in Seq(Byte), stream = (Bytes(s) \o Padding(pad(s.len))) \o V,
         NEW n, n = s.len + pad(s.len), unread >= n, advance(n)
  PROVE  view(s.len) = Bytes(s) /\ WindowInv' /\ stream' = V
<1>1. PICK b \in Seq(Byte), p \in Seq(Byte) :
        b = Bytes(s) /\ p = Padding(pad(s.len)) /\ Len(b) = s.len /\ Len(p) = pad(s.len)
  BY BufferType
<1>2. PICK l \in Nat : l = s.len /\ pad(l) \in Nat
  BY BufferType, PadType
<1>3. PICK x \in Seq(Byte) : x = b \o p
  BY JoinType
<1>4. Len(x) = n /\ n \in Nat
  <2>1. Len(b \o p) = Len(b) + Len(p)
    BY ConcatProperties
  <2> QED BY <1>1, <1>2, <1>3, <2>1
<1>5. stream = x \o V /\ n <= unread
  <2>1. unread \in Int
    BY DEF unread, WindowInv
  <2> QED BY <1>1, <1>3, <1>4, <2>1
<1>6. WindowInv' /\ stream' = V
  BY <1>4, <1>5, Take
<1>7. view(l) = b
  <2>1. PICK T \in Seq(Byte) : T = p \o V
    BY JoinType
  <2>2. Regroups3(b, p, V)
    BY Assoc
  <2>3. stream = b \o T
    BY <1>3, <1>5, <2>1, <2>2 DEF Regroups3
  <2>4. l <= unread
    <3>1. unread \in Int
      BY DEF unread, WindowInv
    <3> QED BY <1>2, <1>4, <1>5, <3>1
  <2> QED BY <1>1, <1>2, <2>3, <2>4, Take
<1> QED BY <1>1, <1>2, <1>6, <1>7

LEMMA VectorType ==
  ASSUME NEW a \in Answer, a.op = opResponse, NEW F \in Seq(Byte), NEW k \in 0..Len(a.items)
  PROVE  Vector(a.items, k, F) \in Seq(Byte)
<1>1. a.items \in Seq(Items)
  BY AnswerFields
<1>2. k \in Nat /\ k <= Len(a.items)
  BY <1>1
<1> QED BY <1>1, <1>2, VectorStep

\* The fields before the status vector are read.
DataHeld(a) == Holds(resp, a, <<a.handle, a.blob>>, a.data.len) /\ SubSeq(auxBuf, 1, a.data.len) = Bytes(a.data)

LEMMA LengthStep ==
  ASSUME ReaderInv, ReadLength
  PROVE  GoodStep
<1>1. err = "none" /\ at \in {"length", "strlen"} /\ unread >= W /\ advance(W) /\ answers' = answers /\ plan' = plan /\ got' = got
  BY NeedIs DEF ReadLength, enough, advance
<1>2. PICK a, F : Inside(a, F)
  BY <1>1, InsideIs
<1>3. WindowInv /\ CountInv /\ a \in Answer /\ F \in Seq(Byte) /\ Position(a, F)
  BY <1>2 DEF Inside
<1>4. PICK l : l = fixup(wordOf(view(W)))
  OBVIOUS
<1>5. IF l \in 0..MaxLength
      THEN resp' = Put(resp, "len", l) /\ at' = (IF at = "length" THEN "data" ELSE "string")
      ELSE err' = "length" /\ resp' = resp
  BY <1>4 DEF ReadLength, Put
<1>9. Fielded(resp) /\ auxBuf \in Seq(Byte) /\ auxBuf' = auxBuf
  BY <1>3 DEF CountInv, Held, ReadLength
<1>10. Held' /\ (l \in 0..MaxLength => Changed(resp', resp, "len", l))
  <2>1. CASE l \in 0..MaxLength
    <3>1. Changed(resp', resp, "len", l)
      BY <1>5, <1>9, <2>1, PutField
    <3>2. Fielded(resp')
      BY <3>1 DEF Changed
    <3> QED BY <1>9, <3>1, <3>2 DEF Held
  <2>2. CASE l \notin 0..MaxLength
    BY <1>5, <1>9, <2>2 DEF Held
  <2> QED BY <2>1, <2>2
<1>11. ASSUME l \in 0..MaxLength
       PROVE  /\ resp'.len = l /\ resp'.op = resp.op /\ resp'.ints = resp.ints /\ resp'.data = resp.data
              /\ resp'.sv = resp.sv /\ resp'.tag = resp.tag
  BY <1>10, <1>11 DEF Changed
<1>6. ASSUME NEW s \in Str, NEW V \in Seq(Byte), stream = Buffer(s) \o V
      PROVE  l = s.len /\ WindowInv' /\ stream' = (Bytes(s) \o Padding(pad(s.len))) \o V
  BY <1>1, <1>3, <1>4, <1>6, TakeLength
<1>7. CASE at = "length"
  <2>1. /\ a.op = opResponse /\ plan = <<"data", "status">>
        /\ Holds(resp, a, <<a.handle, a.blob>>, 0) /\ resp.sv = StartVector
        /\ stream = Buffer(a.data) \o Vector(a.items, 0, F)
    BY <1>3, <1>7 DEF Position, InResponse, InVector
  <2>2. a.data \in Str /\ Vector(a.items, 0, F) \in Seq(Byte)
    BY <1>3, <2>1, AnswerFields, BodySteps
  <2>3. PICK V \in Seq(Byte) : V = Vector(a.items, 0, F)
    BY <2>2
  <2>4. l = a.data.len /\ WindowInv' /\ stream' = (Bytes(a.data) \o Padding(pad(a.data.len))) \o V
    BY <1>6, <2>1, <2>2, <2>3
  <2>5. CASE l \in 0..MaxLength
    <3>1. at' = "data" /\ resp'.len = l
      BY <1>5, <1>7, <1>11, <2>5
    <3>3. Holds(resp, a, <<a.handle, a.blob>>, 0)' /\ resp'.sv = StartVector
      BY <1>11, <2>1, <2>5 DEF Holds
    <3>2. Position(a, F)'
      BY <1>1, <2>1, <2>3, <2>4, <3>1, <3>3 DEF Position, InResponse
    <3> QED BY <1>1, <1>2, <1>10, <2>4, <3>1, <3>2, Continued
  <2>6. CASE l \notin 0..MaxLength
    <3>1. err' # "none"
      BY <1>5, <2>6
    <3> QED BY <1>1, <1>3, <1>10, <2>4, <3>1, Broken
  <2> QED BY <2>5, <2>6
<1>8. CASE at = "strlen"
  <2>1. a.op = opResponse /\ plan = <<"status">> /\ DataHeld(a)
    BY <1>3, <1>8 DEF Position, InResponse, InVector, DataHeld
  <2>2. PICK k \in 1..Len(a.items) :
          /\ a.items[k].tag \in StringTag /\ stream = Buffer(a.items[k].s) \o Vector(a.items, k, F)
          /\ Understood(resp.sv, a.items, k - 1) /\ resp.tag = a.items[k].tag
    BY <1>3, <1>8 DEF Position, InResponse, InVector
  <2>3. PICK s \in Str : s = a.items[k].s
    <3>1. a.items[k] \in Items
      BY <1>3, <2>1, AnswerFields, ElementOfSeq
    <3> QED BY <2>2, <3>1, ItemType
  <2>4. PICK V \in Seq(Byte) : V = Vector(a.items, k, F)
    <3>1. k \in 0..Len(a.items)
      OBVIOUS
    <3> QED BY <1>3, <2>1, <3>1, VectorType
  <2>5. l = s.len /\ WindowInv' /\ stream' = (Bytes(s) \o Padding(pad(s.len))) \o V
    BY <1>6, <2>2, <2>3, <2>4
  <2>6. CASE l \in 0..MaxLength
    <3>1. at' = "string" /\ resp'.len = l
      BY <1>5, <1>8, <1>11, <2>6
    <3>4. Understood(resp'.sv, a.items, k - 1) /\ resp'.tag = a.items[k].tag
      BY <1>11, <2>2, <2>6
    <3>2. InVector(a.items, F)'
      BY <2>2, <2>3, <2>4, <2>5, <3>1, <3>4 DEF InVector
    <3>5. DataHeld(a)'
      BY <1>9, <1>11, <2>1, <2>6 DEF DataHeld, Holds
    <3>3. Position(a, F)'
      BY <1>1, <2>1, <3>2, <3>5 DEF Position, InResponse, DataHeld
    <3> QED BY <1>1, <1>2, <1>10, <2>5, <3>1, <3>3, Continued
  <2>7. CASE l \notin 0..MaxLength
    <3>1. err' # "none"
      BY <1>5, <2>7
    <3> QED BY <1>1, <1>3, <1>10, <2>5, <3>1, Broken
  <2> QED BY <2>6, <2>7
<1> QED BY <1>1, <1>7, <1>8

\* The copy into auxBuf, which may be longer.
LEMMA CopyOver ==
  ASSUME NEW x \in Seq(Byte), NEW d \in Seq(Byte), NEW l \in Nat, Len(d) = l,
         NEW y, y = (IF l > Len(x) THEN d ELSE [k \in DOMAIN x |-> IF k <= l THEN d[k] ELSE x[k]])
  PROVE  y \in Seq(Byte) /\ SubSeq(y, 1, l) = d
<1>1. PICK n \in Nat : n = Len(x) /\ DOMAIN x = 1..n
  OBVIOUS
<1>2. \A k \in 1..l : d[k] \in Byte
  OBVIOUS
<1>3. \A k \in 1..n : x[k] \in Byte
  BY <1>1
<1>4. y \in Seq(Byte) /\ l <= Len(y) /\ \A k \in 1..l : y[k] = d[k]
  <2>1. CASE l > n
    BY <1>1, <2>1
  <2>2. CASE ~(l > n)
    <3>1. y = [k \in 1..n |-> IF k <= l THEN d[k] ELSE x[k]]
      BY <1>1, <2>2
    <3>2. ASSUME NEW k \in 1..n PROVE (IF k <= l THEN d[k] ELSE x[k]) \in Byte
      <4>1. k <= l => k \in 1..l
        OBVIOUS
      <4> QED BY <1>2, <1>3, <4>1
    <3>3. y \in [1..n -> Byte]
      BY <3>1, <3>2
    <3>4. y \in Seq(Byte) /\ Len(y) = n
      BY <1>1, <3>3
    <3>5. ASSUME NEW k \in 1..l PROVE y[k] = d[k]
      <4>1. k \in 1..n /\ k <= l
        BY <1>1, <2>2
      <4> QED BY <3>1, <4>1
    <3> QED BY <1>1, <2>2, <3>4, <3>5
  <2> QED BY <2>1, <2>2
<1>5. PICK v : v = SubSeq(y, 0 + 1, 0 + l)
  OBVIOUS
<1>6. v \in Seq(Byte) /\ Len(v) = l /\ \A i \in 1..l : v[i] = y[0 + i]
  <2>1. 0 \in Nat /\ 0 + l <= Len(y)
    BY <1>4
  <2> QED BY <1>4, <1>5, <2>1, SubBytes
<1>7. \A i \in 1..l : v[i] = d[i]
  <2>1. \A i \in 1..l : 0 + i = i
    OBVIOUS
  <2> QED BY <1>4, <1>6, <2>1
<1>8. v = d
  BY <1>6, <1>7, SameBytes
<1>9. 0 + 1 = 1 /\ 0 + l = l
  OBVIOUS
<1> QED BY <1>4, <1>5, <1>8, <1>9

LEMMA DataStep ==
  ASSUME ReaderInv, ReadData
  PROVE  GoodStep
<1>1. err = "none" /\ at = "data" /\ unread >= need /\ advance(need) /\ answers' = answers
  BY DEF ReadData, enough, advance
<1>2. PICK a, F : Inside(a, F)
  BY <1>1, InsideIs
<1>3. WindowInv /\ CountInv /\ a \in Answer /\ F \in Seq(Byte) /\ Position(a, F)
  BY <1>2 DEF Inside
<1>4. PICK l, r, d : l = resp.len /\ r = Put(resp, "data", l) /\ d = view(l)
  OBVIOUS
<1>5. nextField(r) /\ resp' = r
  <2>1. nextField(r)
    BY <1>4 DEF ReadData, Put
  <2> QED BY <2>1 DEF nextField
<1>13. Changed(r, resp, "data", l) /\ auxBuf \in Seq(Byte)
  BY <1>3, <1>4, PutField DEF CountInv, Held
<1>14. Fielded(r) /\ r.data = l /\ r.op = resp.op /\ r.ints = resp.ints /\ r.sv = resp.sv
  BY <1>13 DEF Changed
<1>15. auxBuf' = (IF l > Len(auxBuf) THEN d
                  ELSE [k \in DOMAIN auxBuf |-> IF k <= l THEN d[k] ELSE auxBuf[k]])
  BY <1>4 DEF ReadData
<1>6. /\ a.op = opResponse /\ plan = <<"data", "status">> /\ resp.len = a.data.len
      /\ Holds(resp, a, <<a.handle, a.blob>>, 0) /\ resp.sv = StartVector
      /\ stream = (Bytes(a.data) \o Padding(pad(a.data.len))) \o Vector(a.items, 0, F)
  BY <1>1, <1>3 DEF Position, InResponse, InVector
<1>7. PICK V \in Seq(Byte) : V = Vector(a.items, 0, F)
  BY <1>3, <1>6, BodySteps
<1>8. a.data \in Str
  BY <1>3, <1>6, AnswerFields
<1>9. need = a.data.len + pad(a.data.len)
  BY <1>1, <1>6, NeedIs
<1>10. view(a.data.len) = Bytes(a.data) /\ WindowInv' /\ stream' = V
  BY <1>1, <1>3, <1>6, <1>7, <1>8, <1>9, TakeBuffer
<1>11. plan' = <<"status">> /\ at' = "peek" /\ got' = got
  BY <1>5, <1>6, Plans DEF nextField
<1>16. d = Bytes(a.data) /\ d \in Seq(Byte) /\ Len(d) = l /\ l = a.data.len /\ l \in Nat
  BY <1>4, <1>6, <1>8, <1>10, BufferType
<1>17. auxBuf' \in Seq(Byte) /\ SubSeq(auxBuf', 1, l) = d
  <2>1. PICK x \in Seq(Byte) : x = auxBuf
    BY <1>13
  <2>2. PICK y : y = auxBuf'
    OBVIOUS
  <2>3. y = (IF l > Len(x) THEN d ELSE [k \in DOMAIN x |-> IF k <= l THEN d[k] ELSE x[k]])
    BY <1>15, <2>1, <2>2
  <2>4. y \in Seq(Byte) /\ SubSeq(y, 1, l) = d
    BY ONLY <1>16, <2>3, x \in Seq(Byte), CopyOver
  <2> QED BY <2>2, <2>4
<1>18. Held'
  BY <1>5, <1>14, <1>17 DEF Held
<1>19. DataHeld(a)' /\ resp'.sv = StartVector
  BY <1>5, <1>6, <1>14, <1>16, <1>17 DEF DataHeld, Holds
<1>12. Position(a, F)'
  BY <1>6, <1>7, <1>10, <1>11, <1>19 DEF Position, InResponse, InVector, DataHeld
<1> QED BY <1>1, <1>2, <1>10, <1>11, <1>12, <1>18, Continued

Cancels(x, T, y, U) == x = y /\ T = U

IsJoin(z, x, T) ==
  /\ z \in Seq(Byte) /\ Len(z) = Len(x) + Len(T)
  /\ \A i \in 1..Len(x) : z[i] = x[i]
  /\ \A i \in 1..Len(T) : z[Len(x) + i] = T[i]

LEMMA JoinIs ==
  ASSUME NEW x \in Seq(Byte), NEW T \in Seq(Byte), NEW z, z = x \o T
  PROVE  IsJoin(z, x, T)
<1>1. Len(x) \in Nat /\ Len(T) \in Nat
  OBVIOUS
<1>2. z \in Seq(Byte)
  BY JoinType
<1>3. Len(z) = Len(x) + Len(T) /\ \A i \in 1..Len(x) + Len(T) : z[i] = IF i <= Len(x) THEN x[i] ELSE T[i - Len(x)]
  BY ConcatProperties
<1>4. \A i \in 1..Len(x) : z[i] = x[i]
  <2>1. ASSUME NEW i \in 1..Len(x) PROVE z[i] = x[i]
    <3>1. i \in 1..Len(x) + Len(T) /\ i <= Len(x)
      BY <1>1
    <3> QED BY <1>3, <3>1
  <2> QED BY <2>1
<1>5. \A i \in 1..Len(T) : z[Len(x) + i] = T[i]
  <2>1. ASSUME NEW i \in 1..Len(T) PROVE z[Len(x) + i] = T[i]
    <3>1. PICK j \in 1..Len(x) + Len(T) : j = Len(x) + i
      BY <1>1
    <3>2. ~(j <= Len(x)) /\ j - Len(x) = i
      BY <1>1, <3>1
    <3>3. z[j] = T[i]
      BY <1>3, <3>2
    <3> QED BY <3>1, <3>3
  <2> QED BY <2>1
<1> QED BY <1>2, <1>3, <1>4, <1>5 DEF IsJoin

\* What begins with sequences of the same length is the same behind them.
LEMMA Cancel ==
  ASSUME NEW x \in Seq(Byte), NEW T \in Seq(Byte), NEW y \in Seq(Byte), NEW U \in Seq(Byte),
         NEW s, s = x \o T, s = y \o U, Len(x) = Len(y)
  PROVE  Cancels(x, T, y, U)
<1>1. IsJoin(s, x, T) /\ IsJoin(s, y, U)
  BY JoinIs
<1>2. PICK n \in Nat : n = Len(x) /\ n = Len(y)
  OBVIOUS
<1>3. /\ Len(s) = n + Len(T) /\ \A i \in 1..n : s[i] = x[i]
      /\ \A i \in 1..Len(T) : s[n + i] = T[i]
  BY <1>1, <1>2 DEF IsJoin
<1>4. /\ Len(s) = n + Len(U) /\ \A i \in 1..n : s[i] = y[i]
      /\ \A i \in 1..Len(U) : s[n + i] = U[i]
  BY <1>1, <1>2 DEF IsJoin
<1>5. x = y
  BY <1>2, <1>3, <1>4, SameBytes
<1>6. Len(T) = Len(U)
  <2>1. Len(T) \in Nat /\ Len(U) \in Nat
    OBVIOUS
  <2> QED BY <1>3, <1>4, <2>1
<1>7. T = U
  <2>1. \A i \in 1..Len(T) : T[i] = U[i]
    BY <1>3, <1>4, <1>6
  <2> QED BY <1>6, <2>1, SameBytes
<1> QED BY <1>5, <1>7 DEF Cancels

Starts(s, v, T) == s = Word(v) \o T

LEMMA CancelWord ==
  ASSUME NEW v \in Int, NEW w \in Int, NEW T \in Seq(Byte), NEW U \in Seq(Byte),
         NEW s, Starts(s, v, T), Starts(s, w, U)
  PROVE  v = w /\ T = U
<1>1. PICK x \in Seq(Byte), y \in Seq(Byte) : x = Word(v) /\ y = Word(w) /\ Len(x) = Len(y)
  BY WordType
<1>2. s = x \o T /\ s = y \o U
  BY <1>1 DEF Starts
<1>3. Cancels(x, T, y, U)
  BY <1>1, <1>2, Cancel
<1> QED BY <1>1, <1>3, WordsDiffer DEF Cancels

LEMMA VectorEnds ==
  ASSUME NEW items \in Seq(Items), NEW F \in Seq(Byte), NEW k \in Nat, k = Len(items)
  PROVE  Starts(Vector(items, k, F), IscArgEnd, F)
<1>1. k <= Len(items)
  OBVIOUS
<1>2. PICK V : V = Vector(items, k, F)
  OBVIOUS
<1>3. V = Word(IscArgEnd) \o F
  BY <1>1, <1>2, VectorStep
<1> QED BY <1>2, <1>3 DEF Starts

\* A vector that is not at its end: the tag and the value of an item come next.
Goes(s, it, x, V) ==
  it \in Items /\ x \in Seq(Byte) /\ V \in Seq(Byte) /\ Starts(s, it.tag, x) /\ x = ItemValue(it) \o V

LEMMA VectorGoes ==
  ASSUME NEW items \in Seq(Items), NEW F \in Seq(Byte), NEW k \in Nat, k < Len(items)
  PROVE  \E it, x, V : /\ Goes(Vector(items, k, F), it, x, V) /\ V = Vector(items, k + 1, F)
                       /\ it = items[k + 1]
<1>1. k <= Len(items) /\ k + 1 \in Nat /\ k + 1 <= Len(items) /\ k + 1 \in 1..Len(items)
  OBVIOUS
<1>2. PICK it \in Items : it = items[k + 1]
  BY <1>1, ElementOfSeq
<1>3. PICK V \in Seq(Byte) : V = Vector(items, k + 1, F)
  BY <1>1, VectorStep
<1>4. PICK u \in Seq(Byte) : u = ItemValue(it)
  BY <1>2, ItemType
<1>5. PICK x \in Seq(Byte) : x = u \o V
  BY <1>3, <1>4, JoinType
<1>6. PICK s : s = Vector(items, k, F)
  OBVIOUS
<1>7. s = Word(items[k + 1].tag) \o (ItemValue(items[k + 1]) \o Vector(items, k + 1, F))
  BY <1>1, <1>6, VectorStep
<1>8. Starts(s, it.tag, x)
  BY <1>2, <1>3, <1>4, <1>5, <1>7 DEF Starts
<1>9. Goes(s, it, x, V)
  BY <1>4, <1>5, <1>8 DEF Goes
<1> QED BY <1>2, <1>3, <1>6, <1>9

\* What the window shows is the beginning of the stream.
LEMMA Peeked ==
  ASSUME WindowInv, NEW n \in Nat, n <= unread
  PROVE  \E x \in Seq(Byte), T \in Seq(Byte) : x = view(n) /\ Len(x) = n /\ stream = x \o T
<1>1. /\ net \in Seq(Byte) /\ buf \in Seq(Byte) /\ start \in Nat /\ end \in Nat /\ start <= end /\ end <= Len(buf)
  BY DEF WindowInv
<1>2. n <= end - start
  BY DEF unread
<1>3. PICK y : y = Stream(buf, start, end, net) /\ IsStream(y, buf, start, end, net)
  BY <1>1, StreamIs
<1>4. y \in Seq(Byte) /\ Len(y) = (end - start) + Len(net) /\ \A i \in 1..end - start : y[i] = buf[start + i]
  BY <1>3 DEF IsStream
<1>5. PICK x : x = view(n)
  OBVIOUS
<1>6. x \in Seq(Byte) /\ Len(x) = n /\ \A i \in 1..n : x[i] = buf[start + i]
  <2>1. x = SubSeq(buf, start + 1, start + n) /\ start + n <= Len(buf)
    BY <1>1, <1>2, <1>5 DEF view
  <2> QED BY <1>1, <2>1, SubBytes
<1>7. PICK l \in Nat : l = Len(y) - n /\ n + l = Len(y)
  <2>1. PICK r \in Nat, u \in Nat : r = Len(net) /\ u = end - start
    <3>1. Len(net) \in Nat
      BY <1>1
    <3>2. end - start \in Nat
      BY <1>1
    <3> QED BY <3>1, <3>2, Zenon
  <2>2. PICK j : j = Len(y)
    OBVIOUS
  <2>3. n <= u /\ j = u + r
    BY <1>2, <1>4, <2>1, <2>2
  <2>4. j - n \in Nat /\ n + (j - n) = j
    BY ONLY <2>3, n \in Nat, u \in Nat, r \in Nat
  <2> QED BY <2>2, <2>4
<1>8. PICK T : T = SubSeq(y, n + 1, n + l)
  OBVIOUS
<1>9. T \in Seq(Byte) /\ Len(T) = l /\ \A i \in 1..l : T[i] = y[n + i]
  <2>1. n + l <= Len(y)
    BY <1>4, <1>7
  <2> QED BY <1>4, <1>8, <2>1, SubBytes
<1>10. PICK z : z = x \o T
  OBVIOUS
<1>11. IsJoin(z, x, T)
  BY <1>6, <1>9, <1>10, JoinIs
<1>12. /\ z \in Seq(Byte) /\ Len(z) = n + l /\ (\A i \in 1..n : z[i] = x[i])
       /\ (\A i \in 1..l : z[n + i] = T[i])
  BY <1>6, <1>9, <1>11 DEF IsJoin
<1>13. ASSUME NEW i \in 1..n + l PROVE y[i] = z[i]
  <2>1. CASE i <= n
    <3>1. i \in 1..n /\ i \in 1..end - start
      BY <1>1, <1>2, <2>1
    <3> QED BY <1>4, <1>6, <1>12, <3>1
  <2>2. CASE i > n
    <3>1. PICK k \in 1..l : i = n + k
      <4>1. i - n \in 1..l /\ i = n + (i - n)
        BY <2>2
      <4> QED BY <4>1
    <3> QED BY <1>9, <1>12, <3>1
  <2> QED BY <2>1, <2>2
<1>14. y = z
  BY <1>4, <1>7, <1>12, <1>13, SameBytes
<1>15. stream = x \o T
  BY <1>3, <1>10, <1>14, StreamDef
<1> QED BY <1>5, <1>6, <1>9, <1>15

\* The vector of success: a code of zero and nothing else.
OnlyZero(items) == Len(items) = 1 /\ items[1].v = 0

\* A vector that begins with the three words of success is that vector.
LEMMA SuccessIsWhole ==
  ASSUME NEW items \in Seq(Items), NEW F \in Seq(Byte), NEW T \in Seq(Byte),
         NEW t1 \in Seq(Byte), NEW t2 \in Seq(Byte),
         Starts(Vector(items, 0, F), IscArgGds, t1), Starts(t1, 0, t2), Starts(t2, IscArgEnd, T)
  PROVE  T = F /\ OnlyZero(items)
<1>1. IscArgGds \in Int /\ IscArgEnd \in Int /\ IscArgGds # IscArgEnd /\ IscArgGds \notin StringTag
  BY DEF IscArgGds, IscArgEnd, StringTag, IscArgString, IscArgSQLState
<1>2. PICK n \in Nat : n = Len(items)
  OBVIOUS
<1>3. PICK s : s = Vector(items, 0, F)
  OBVIOUS
<1>4. n # 0
  <2>1. SUFFICES ASSUME n = 0 PROVE FALSE
    OBVIOUS
  <2>2. Starts(s, IscArgEnd, F) /\ Starts(s, IscArgGds, t1)
    BY <1>2, <1>3, <2>1, VectorEnds
  <2> QED BY <1>1, <2>2, CancelWord
<1>5. PICK it, x, V : Goes(s, it, x, V) /\ V = Vector(items, 0 + 1, F) /\ it = items[0 + 1]
  BY <1>2, <1>3, <1>4, VectorGoes
<1>6. it \in Items /\ it.tag \in Int /\ x \in Seq(Byte) /\ V \in Seq(Byte) /\ Starts(s, it.tag, x)
  BY <1>5, ItemType DEF Goes
<1>7. it.tag = IscArgGds /\ x = t1
  <2>1. PICK g \in Int : g = it.tag
    BY <1>6
  <2>2. Starts(s, g, x) /\ Starts(s, IscArgGds, t1)
    BY <1>3, <1>6, <2>1
  <2>3. g = IscArgGds /\ x = t1
    BY ONLY <1>1, <1>6, <2>2, CancelWord, t1 \in Seq(Byte)
  <2> QED BY <2>1, <2>3
<1>8. it.v \in Int /\ x = Word(it.v) \o V
  BY <1>1, <1>5, <1>6, <1>7, ItemType DEF Goes, ItemValue
<1>9. V = t2 /\ it.v = 0
  <2>1. PICK g \in Int : g = it.v
    BY <1>8
  <2>2. t1 = Word(g) \o V
    BY <1>7, <1>8, <2>1
  <2>3. Starts(t1, g, V)
    BY <2>2 DEF Starts
  <2>4. Starts(t1, 0, t2) /\ 0 \in Int
    OBVIOUS
  <2>5. g = 0 /\ V = t2
    BY <1>6, <2>3, <2>4, CancelWord
  <2> QED BY <2>1, <2>5
<1>10. PICK k \in Nat : k = 0 + 1 /\ k <= n
  BY <1>2, <1>4
<1>11. n = k
  <2>1. SUFFICES ASSUME k < n PROVE FALSE
    BY <1>10
  <2>2. PICK j, y, U : Goes(V, j, y, U)
    BY <1>2, <1>5, <1>10, <2>1, VectorGoes
  <2>3. j.tag \in Int /\ j.tag # IscArgEnd /\ y \in Seq(Byte) /\ Starts(V, j.tag, y)
    BY <2>2, ItemType DEF Goes
  <2>4. PICK g \in Int : g = j.tag
    BY <2>3
  <2>5. Starts(V, g, y) /\ Starts(V, IscArgEnd, T)
    BY <1>9, <2>3, <2>4
  <2> QED BY <1>1, <2>3, <2>4, <2>5, CancelWord
<1>12. Starts(V, IscArgEnd, F) /\ Starts(V, IscArgEnd, T)
  BY <1>2, <1>5, <1>9, <1>10, <1>11, VectorEnds
<1>13. T = F
  BY <1>1, <1>12, CancelWord
<1>14. OnlyZero(items)
  BY <1>2, <1>5, <1>9, <1>10, <1>11 DEF OnlyZero
<1> QED BY <1>13, <1>14

\* It says nothing.
LEMMA NothingSaid ==
  ASSUME NEW items \in Seq(Items), OnlyZero(items)
  PROVE  entries(items, IscArgGds, Len(items)) = <<>> /\ entries(items, IscArgWarning, Len(items)) = <<>>
<1>1. ASSUME NEW T \in CodeTags PROVE entries(items, T, 1) = <<>>
  <2>1. SUFFICES ASSUME entries(items, T, 1) # <<>> PROVE FALSE
    OBVIOUS
  <2>2. PICK h \in 1..1 : items[h].v # 0
    BY <2>1, EntriesSome
  <2>3. h = 1
    OBVIOUS
  <2> QED BY <2>2, <2>3 DEF OnlyZero
<1> QED BY <1>1, TagsAre DEF OnlyZero

Success == Word(IscArgGds) \o Word(0) \o Word(IscArgEnd)

\* The window shows the success vector: it is there, and F behind it.
LEMMA SuccessNext ==
  ASSUME NEW items \in Seq(Items), NEW F \in Seq(Byte), NEW x \in Seq(Byte), NEW T \in Seq(Byte),
         Vector(items, 0, F) = x \o T, x = Success
  PROVE  T = F /\ OnlyZero(items)
<1>1. IscArgGds \in Int /\ IscArgEnd \in Int /\ 0 \in Int
  BY DEF IscArgGds, IscArgEnd
<1>2. PICK g \in Seq(Byte), o \in Seq(Byte), e \in Seq(Byte) :
        g = Word(IscArgGds) /\ o = Word(0) /\ e = Word(IscArgEnd)
  BY <1>1, WordType
<1>3. x = (g \o o) \o e
  BY <1>2 DEF Success
<1>4. PICK t2 \in Seq(Byte) : t2 = e \o T
  BY JoinType
<1>5. PICK t1 \in Seq(Byte) : t1 = o \o t2
  BY JoinType
<1>6. Regroups4(g, o, e, T)
  BY Assoc4
<1>7. x \o T = g \o t1
  BY <1>3, <1>4, <1>5, <1>6 DEF Regroups4
<1>8. PICK s : s = Vector(items, 0, F)
  OBVIOUS
<1>9. s = Word(IscArgGds) \o t1
  BY <1>2, <1>7, <1>8
<1>10. Starts(s, IscArgGds, t1)
  BY <1>9 DEF Starts
<1>11. Starts(t1, 0, t2)
  BY <1>2, <1>5 DEF Starts
<1>12. Starts(t2, IscArgEnd, T)
  BY <1>2, <1>4 DEF Starts
<1>13. Starts(Vector(items, 0, F), IscArgGds, t1)
  BY <1>8, <1>10
<1> QED BY <1>11, <1>12, <1>13, SuccessIsWhole

LEMMA PeekStep ==
  ASSUME ReaderInv, PeekStatus
  PROVE  GoodStep
<1>1. err = "none" /\ at = "peek" /\ unread >= 3 * W /\ answers' = answers /\ err' = err /\ auxBuf' = auxBuf
  BY NeedIs DEF PeekStatus, enough, advance
<1>2. PICK a, F : Inside(a, F)
  BY <1>1, InsideIs
<1>3. WindowInv /\ CountInv /\ a \in Answer /\ F \in Seq(Byte) /\ Position(a, F)
  BY <1>2 DEF Inside
<1>4. a.op = opResponse /\ plan = <<"status">> /\ stream = Vector(a.items, 0, F) /\ resp.sv = StartVector
  BY <1>1, <1>3 DEF Position, InResponse, InVector
<1>5. a.items \in Seq(Items) /\ Held
  BY <1>3, <1>4, AnswerFields DEF CountInv
<1>8. DataHeld(a)
  BY <1>1, <1>3 DEF Position, InResponse, InVector, DataHeld
<1>6. CASE fastPath(view(3 * W))
  <2>1. advance(3 * W) /\ nextField(resp)
    BY <1>6 DEF PeekStatus
  <2>2. PICK n \in Nat : n = 3 * W /\ n <= unread
    <3>1. 3 * W \in Nat /\ unread \in Int
      BY <1>3, ReaderAssumption DEF unread, WindowInv
    <3> QED BY <1>1, <3>1
  <2>3. PICK x \in Seq(Byte), T \in Seq(Byte) : x = view(n) /\ Len(x) = n /\ stream = x \o T
    BY <1>3, <2>2, Peeked
  <2>4. x = Success
    BY <1>6, <2>2, <2>3 DEF fastPath, Success
  <2>5. Vector(a.items, 0, F) = x \o T
    BY <1>4, <2>3
  <2>6. T = F /\ OnlyZero(a.items)
    BY <1>3, <1>5, <2>3, <2>4, <2>5, SuccessNext
  <2>7. WindowInv' /\ stream' = T
    BY <1>3, <2>1, <2>2, <2>3, Take
  <2>8. at' = "idle" /\ got' = Append(got, told(resp)) /\ resp' = resp
    BY <1>4, <2>1, Plans DEF nextField
  <2>9. Held'
    BY <1>1, <1>5, <2>8 DEF Held
  <2>10. resp.sv.errors = <<>> /\ resp.sv.warnings = <<>>
    <3>1. PICK sv : sv = StartVector
      OBVIOUS
    <3>2. sv.errors = <<>> /\ sv.warnings = <<>>
      BY <3>1, Zenon DEF StartVector
    <3> QED BY <1>4, <3>1, <3>2
  <2>11. Lists(resp.sv, entries(a.items, IscArgGds, Len(a.items)), entries(a.items, IscArgWarning, Len(a.items)))
    BY <1>5, <2>6, <2>10, NothingSaid DEF Lists
  <2>12. told(resp) = Meaning(a)
    BY <1>3, <1>4, <1>8, <2>11, ToldResponse DEF DataHeld
  <2> QED BY <1>1, <1>2, <2>6, <2>7, <2>8, <2>9, <2>12, Finished
<1>7. CASE ~fastPath(view(3 * W))
  <2>1. advance(0) /\ at' = "tag" /\ plan' = plan /\ resp' = resp /\ got' = got
    BY <1>7 DEF PeekStatus
  <2>2. net' = net /\ buf' = buf /\ start' = start /\ end' = end
    <3>1. start \in Nat
      BY <1>3 DEF WindowInv
    <3> QED BY <2>1, <3>1 DEF advance
  <2>3. WindowInv' /\ stream' = stream
    BY <1>3, <2>2, SameWindow
  <2>4. 0 \in 0..Len(a.items)
    BY <1>5
  <2>7. Understood(resp'.sv, a.items, 0)
    BY <1>4, <2>1, UnderstoodStart
  <2>5. InVector(a.items, F)'
    BY <1>4, <2>1, <2>3, <2>4, <2>7 DEF InVector
  <2>8. DataHeld(a)' /\ Held'
    BY <1>1, <1>5, <1>8, <2>1 DEF DataHeld, Held
  <2>6. Position(a, F)'
    BY <1>4, <2>1, <2>5, <2>8 DEF Position, InResponse, DataHeld
  <2> QED BY <1>1, <1>2, <2>1, <2>3, <2>6, <2>8, Continued
<1> QED BY <1>6, <1>7

\* A vector that is understood to its end is what the caller should be told.
LEMMA WholeVector ==
  ASSUME NEW a \in Answer, a.op = opResponse, DataHeld(a), Understood(resp.sv, a.items, Len(a.items))
  PROVE  told(resp) = Meaning(a)
<1>1. PICK E, V : E = entries(a.items, IscArgGds, Len(a.items)) /\ V = entries(a.items, IscArgWarning, Len(a.items))
  OBVIOUS
<1>2. PICK p : p = resp.sv
  OBVIOUS
<1>3. PICK cur, b : p = Parsed(E, V, cur, b)
  BY <1>1, <1>2 DEF Understood
<1>4. p["errors"] = E /\ p["warnings"] = V
  BY <1>3, Parts
<1>5. Lists(resp.sv, E, V)
  BY <1>2, <1>4 DEF Lists
<1> QED BY <1>1, <1>5, ToldResponse DEF DataHeld

LEMMA TagStep ==
  ASSUME ReaderInv, ReadTag
  PROVE  GoodStep
<1>1. /\ err = "none" /\ at = "tag" /\ unread >= W /\ advance(W) /\ answers' = answers
      /\ err' = err /\ auxBuf' = auxBuf
  BY NeedIs DEF ReadTag, enough, advance
<1>2. PICK a, F : Inside(a, F)
  BY <1>1, InsideIs
<1>3. WindowInv /\ CountInv /\ a \in Answer /\ F \in Seq(Byte) /\ Position(a, F)
  BY <1>2 DEF Inside
<1>4. a.op = opResponse /\ plan = <<"status">> /\ DataHeld(a)
  BY <1>1, <1>3 DEF Position, InResponse, InVector, DataHeld
<1>5. PICK items \in Seq(Items) : items = a.items
  BY <1>3, <1>4, AnswerFields
<1>6. PICK k \in 0..Len(items) : stream = Vector(items, k, F) /\ Understood(resp.sv, items, k)
  BY <1>1, <1>3, <1>5 DEF Position, InResponse, InVector
<1>7. PICK n \in Nat : n = Len(items) /\ k \in Nat /\ k <= n
  OBVIOUS
<1>8. PICK tag : tag = wordOf(view(W))
  OBVIOUS
<1>9. IF tag = IscArgEnd THEN nextField(resp)
      ELSE /\ resp' = Put(resp, "tag", tag) /\ at' = (IF tag \in StringTag THEN "strlen" ELSE "word")
           /\ plan' = plan /\ got' = got
  BY <1>8 DEF ReadTag, Put
<1>12. Held /\ Fielded(resp)
  BY <1>3 DEF CountInv, Held
<1>10. CASE k = n
  <2>1. Starts(stream, IscArgEnd, F) /\ IscArgEnd \in Int
    BY <1>3, <1>6, <1>7, <1>10, VectorEnds DEF IscArgEnd
  <2>2. stream = Word(IscArgEnd) \o F
    BY <2>1 DEF Starts
  <2>3. tag = IscArgEnd /\ WindowInv' /\ stream' = F
    BY <1>1, <1>3, <1>8, <2>1, <2>2, TakeWord
  <2>4. nextField(resp)
    BY <1>9, <2>3
  <2>5. at' = "idle" /\ got' = Append(got, told(resp)) /\ resp' = resp
    BY <1>4, <2>4, Plans DEF nextField
  <2>6. Held'
    BY <1>1, <1>12, <2>5 DEF Held
  <2>7. told(resp) = Meaning(a)
    BY <1>3, <1>4, <1>5, <1>6, <1>7, <1>10, WholeVector
  <2> QED BY <1>1, <1>2, <2>3, <2>5, <2>6, <2>7, Finished
<1>11. CASE k # n
  <2>1. k < Len(items) /\ k + 1 \in 1..Len(items)
    BY <1>7, <1>11
  <2>2. PICK it, x, V : /\ Goes(stream, it, x, V) /\ V = Vector(items, k + 1, F)
                        /\ it = items[k + 1]
    BY <1>3, <1>6, <1>7, <2>1, VectorGoes
  <2>3. it.tag \in Int /\ it.tag # IscArgEnd /\ x \in Seq(Byte) /\ Starts(stream, it.tag, x)
    BY <2>2, ItemType DEF Goes
  <2>4. PICK g \in Int : g = it.tag
    BY <2>3
  <2>5. stream = Word(g) \o x
    BY <2>3, <2>4 DEF Starts
  <2>6. tag = g /\ WindowInv' /\ stream' = x
    BY <1>1, <1>3, <1>8, <2>3, <2>5, TakeWord
  <2>7. /\ resp' = Put(resp, "tag", tag) /\ at' = (IF tag \in StringTag THEN "strlen" ELSE "word")
        /\ plan' = plan /\ got' = got
    BY <1>9, <2>3, <2>4, <2>6
  <2>13. Changed(resp', resp, "tag", tag)
    BY <1>12, <2>7, PutField
  <2>14. Fielded(resp') /\ resp'.tag = tag /\ resp'.op = resp.op /\ resp'.ints = resp.ints
    BY <2>13 DEF Changed
  <2>18. resp'.data = resp.data /\ resp'.sv = resp.sv
    BY <2>13 DEF Changed
  <2>8. Held' /\ at' # "idle"
    BY <1>1, <1>12, <2>7, <2>14 DEF Held
  <2>15. DataHeld(a)'
    BY <1>1, <1>4, <2>14, <2>18 DEF DataHeld, Holds
  <2>9. stream' = ItemValue(it) \o V
    BY <2>2, <2>6 DEF Goes
  <2>10. PICK j \in 1..Len(items) : j = k + 1 /\ j - 1 = k
    BY <1>7, <2>1
  <2>16. Understood(resp'.sv, items, j - 1) /\ resp'.tag = items[j].tag
    BY <1>6, <2>2, <2>4, <2>6, <2>10, <2>14, <2>18
  <2>11. InVector(items, F)'
    <3>1. CASE it.tag \in StringTag
      <4>1. at' = "strlen" /\ stream' = Buffer(it.s) \o V
        BY <2>4, <2>6, <2>7, <2>9, <3>1 DEF ItemValue
      <4>2. items[j].tag \in StringTag /\ stream' = Buffer(items[j].s) \o Vector(items, j, F)
        BY <2>2, <2>10, <3>1, <4>1
      <4> QED BY <2>16, <4>1, <4>2 DEF InVector
    <3>2. CASE it.tag \notin StringTag
      <4>1. at' = "word" /\ stream' = Word(it.v) \o V
        BY <2>4, <2>6, <2>7, <2>9, <3>2 DEF ItemValue
      <4>2. items[j].tag \notin StringTag /\ stream' = Word(items[j].v) \o Vector(items, j, F)
        BY <2>2, <2>10, <3>2, <4>1
      <4> QED BY <2>16, <4>1, <4>2 DEF InVector
    <3> QED BY <3>1, <3>2
  <2>12. Position(a, F)'
    BY <1>4, <1>5, <2>7, <2>11, <2>15 DEF Position, InResponse, DataHeld
  <2> QED BY <1>1, <1>2, <2>6, <2>7, <2>8, <2>12, Continued
<1> QED BY <1>10, <1>11

\* The server's vectors are regular.
LEMMA RegularVector ==
  ASSUME NEW a, NEW F, Inside(a, F), a.op = opResponse
  PROVE  Regular(a.items)
<1>1. CountInv /\ Len(got) < Len(answers) /\ a = answers[Len(got) + 1]
  BY DEF Inside
<1>2. answers \in Scripts /\ answers \in Seq(Answer) /\ Len(got) \in Nat
  BY <1>1, ScriptType DEF CountInv
<1>3. Len(got) + 1 \in DOMAIN answers
  BY <1>1, <1>2
<1> QED BY <1>1, <1>2, <1>3, RegularAssumption

\* Behind the k-th item of the vector the reader is at a tag again, and has
\* understood one item more.
LEMMA NextItem ==
  ASSUME NEW a, NEW F, Inside(a, F), a.op = opResponse, plan' = <<"status">>, NEW k \in 1..Len(a.items),
         WindowInv', stream' = Vector(a.items, k, F), at' = "tag", answers' = answers, got' = got,
         auxBuf' = auxBuf, DataHeld(a), Understood(resp.sv, a.items, k - 1),
         resp' = Put(resp, "sv", ItemRead(resp.sv, a.items[k]))
  PROVE  GoodStep
<1>1. a.items \in Seq(Items)
  BY AnswerFields DEF Inside
<1>2. k \in 0..Len(a.items)
  BY <1>1
<1>3. Fielded(resp) /\ auxBuf \in Seq(Byte)
  BY DEF Inside, CountInv, Held
<1>4. PICK p : p = ItemRead(resp.sv, a.items[k])
  OBVIOUS
<1>5. Changed(resp', resp, "sv", p)
  BY <1>3, <1>4, PutField
<1>6. Fielded(resp') /\ resp'.sv = p /\ resp'.op = resp.op /\ resp'.ints = resp.ints /\ resp'.data = resp.data
  BY <1>5 DEF Changed
<1>7. Held' /\ DataHeld(a)'
  BY <1>3, <1>6 DEF Held, DataHeld, Holds
<1>8. Understood(p, a.items, k)
  BY <1>1, <1>4, RegularVector, ItemUnderstood
<1>9. Understood(resp'.sv, a.items, k)
  BY <1>6, <1>8
<1>10. InVector(a.items, F)'
  BY <1>2, <1>9 DEF InVector
<1>11. Position(a, F)'
  BY <1>7, <1>10 DEF Position, InResponse, DataHeld
<1> QED BY <1>7, <1>11, Continued

LEMMA WordItemStep ==
  ASSUME ReaderInv, ReadWordItem
  PROVE  GoodStep
<1>1. err = "none" /\ at = "word" /\ unread >= W /\ advance(W) /\ answers' = answers
  BY NeedIs DEF ReadWordItem, enough, advance
<1>2. PICK a, F : Inside(a, F)
  BY <1>1, InsideIs
<1>3. WindowInv /\ CountInv /\ a \in Answer /\ F \in Seq(Byte) /\ Position(a, F)
  BY <1>2 DEF Inside
<1>4. a.op = opResponse /\ plan = <<"status">> /\ DataHeld(a)
  BY <1>1, <1>3 DEF Position, InResponse, InVector, DataHeld
<1>5. PICK k \in 1..Len(a.items) :
        /\ a.items[k].tag \notin StringTag /\ stream = Word(a.items[k].v) \o Vector(a.items, k, F)
        /\ Understood(resp.sv, a.items, k - 1) /\ resp.tag = a.items[k].tag
  BY <1>1, <1>3 DEF Position, InResponse, InVector
<1>6. PICK v \in Int : v = a.items[k].v
  <2>1. a.items[k] \in Items
    BY <1>3, <1>4, AnswerFields, ElementOfSeq
  <2> QED BY <1>5, <2>1, ItemType
<1>7. PICK V \in Seq(Byte) : V = Vector(a.items, k, F)
  <2>1. k \in 0..Len(a.items)
    OBVIOUS
  <2> QED BY <1>3, <1>4, <2>1, VectorType
<1>8. stream = Word(v) \o V
  BY <1>5, <1>6, <1>7
<1>9. wordOf(view(W)) = v /\ WindowInv' /\ stream' = V
  BY <1>1, <1>3, <1>8, TakeWord
<1>10. at' = "tag" /\ plan' = plan /\ got' = got /\ auxBuf' = auxBuf
  BY DEF ReadWordItem
<1>11. resp' = Put(resp, "sv", wordItem(resp.sv, resp.tag, v))
  BY <1>9, Zenon DEF ReadWordItem, Put
<1>12. wordItem(resp.sv, resp.tag, v) = ItemRead(resp.sv, a.items[k])
  BY <1>5, <1>6, Zenon DEF ItemRead
<1>13. resp' = Put(resp, "sv", ItemRead(resp.sv, a.items[k]))
  BY <1>11, <1>12, Zenon
<1> QED BY <1>1, <1>2, <1>4, <1>5, <1>7, <1>9, <1>10, <1>13, NextItem

LEMMA StringItemStep ==
  ASSUME ReaderInv, ReadStringItem
  PROVE  GoodStep
<1>1. err = "none" /\ at = "string" /\ unread >= need /\ advance(need) /\ answers' = answers
  BY DEF ReadStringItem, enough, advance
<1>2. PICK a, F : Inside(a, F)
  BY <1>1, InsideIs
<1>3. WindowInv /\ CountInv /\ a \in Answer /\ F \in Seq(Byte) /\ Position(a, F)
  BY <1>2 DEF Inside
<1>4. a.op = opResponse /\ plan = <<"status">> /\ DataHeld(a)
  BY <1>1, <1>3 DEF Position, InResponse, InVector, DataHeld
<1>5. PICK k \in 1..Len(a.items) :
        /\ a.items[k].tag \in StringTag /\ resp.len = a.items[k].s.len
        /\ stream = (Bytes(a.items[k].s) \o Padding(pad(a.items[k].s.len))) \o Vector(a.items, k, F)
        /\ Understood(resp.sv, a.items, k - 1) /\ resp.tag = a.items[k].tag
  BY <1>1, <1>3 DEF Position, InResponse, InVector
<1>6. PICK s \in Str : s = a.items[k].s
  <2>1. a.items[k] \in Items
    BY <1>3, <1>4, AnswerFields, ElementOfSeq
  <2> QED BY <1>5, <2>1, ItemType
<1>7. PICK V \in Seq(Byte) : V = Vector(a.items, k, F)
  <2>1. k \in 0..Len(a.items)
    OBVIOUS
  <2> QED BY <1>3, <1>4, <2>1, VectorType
<1>8. stream = (Bytes(s) \o Padding(pad(s.len))) \o V /\ need = s.len + pad(s.len) /\ resp.len = s.len
  BY <1>1, <1>5, <1>6, <1>7, NeedIs
<1>9. view(s.len) = Bytes(s) /\ WindowInv' /\ stream' = V
  BY <1>1, <1>3, <1>8, TakeBuffer
<1>10. at' = "tag" /\ plan' = plan /\ got' = got /\ auxBuf' = auxBuf
  BY DEF ReadStringItem
<1>11. view(resp.len) = Bytes(a.items[k].s)
  BY <1>6, <1>8, <1>9, Zenon
<1>12. resp' = Put(resp, "sv", stringItem(resp.sv, resp.tag, view(resp.len)))
  BY Zenon DEF ReadStringItem, Put
<1>13. stringItem(resp.sv, resp.tag, view(resp.len)) = ItemRead(resp.sv, a.items[k])
  BY <1>5, <1>11, Zenon DEF ItemRead
<1>14. resp' = Put(resp, "sv", ItemRead(resp.sv, a.items[k]))
  BY <1>12, <1>13, Zenon
<1> QED BY <1>1, <1>2, <1>4, <1>5, <1>7, <1>9, <1>10, <1>14, NextItem

\* How many bytes a method asks for is a number.
LEMMA NeedType ==
  ASSUME ReaderInv, err = "none", at # "idle"
  PROVE  need \in Nat
<1>1. CASE at \notin {"data", "string"}
  <2>1. W \in Nat /\ 2 * W \in Nat /\ 3 * W \in Nat
    BY ReaderAssumption
  <2> QED BY <1>1, <2>1, NeedIs
<1>2. CASE at \in {"data", "string"}
  <2>1. PICK a, F : Inside(a, F)
    BY InsideIs
  <2>2. a \in Answer /\ Position(a, F)
    BY <2>1 DEF Inside
  <2>3. a.op = opResponse
    BY <1>2, <2>2 DEF Position, InResponse, InVector
  <2>4. \E s \in Str : resp.len = s.len
    <3>1. CASE at = "data"
      <4>1. resp.len = a.data.len
        BY <2>2, <3>1 DEF Position, InResponse, InVector
      <4> QED BY <2>2, <2>3, <4>1, AnswerFields
    <3>2. CASE at = "string"
      <4>1. PICK k \in 1..Len(a.items) : a.items[k].tag \in StringTag /\ resp.len = a.items[k].s.len
        BY <2>2, <3>2 DEF Position, InResponse, InVector
      <4>2. a.items[k] \in Items
        BY <2>2, <2>3, AnswerFields, ElementOfSeq
      <4> QED BY <4>1, <4>2, ItemType
    <3> QED BY <1>2, <3>1, <3>2
  <2>5. resp.len \in Nat
    BY <2>4, BufferType
  <2>6. pad(resp.len) \in Nat
    BY <2>5, PadType
  <2> QED BY <1>2, <2>5, <2>6, NeedIs
<1> QED BY <1>1, <1>2

\* The place in the stream is the same: only the window moved.
LEMMA SamePlace ==
  ASSUME ReaderInv, WindowInv', stream' = stream, auxBuf' = auxBuf,
         answers' = answers, at' = at, plan' = plan, resp' = resp, got' = got, err' = err
  PROVE  GoodStep
<1>1. CountInv'
  BY DEF ReaderInv, CountInv, Held
<1>2. PlaceInv'
  <2>1. CASE err # "none"
    BY <2>1 DEF PlaceInv
  <2>2. CASE err = "none" /\ at = "idle"
    BY <2>2 DEF ReaderInv, PlaceInv
  <2>3. CASE err = "none" /\ at # "idle"
    <3>1. PICK a, F : Inside(a, F)
      BY <2>3, InsideIs
    <3>2. Position(a, F)
      BY <3>1 DEF Inside
    <3>3. \A items : InVector(items, F) => InVector(items, F)'
      BY DEF InVector
    <3>4. InResponse(a, F) => InResponse(a, F)'
      BY <3>3 DEF InResponse
    <3>5. Position(a, F)'
      BY <3>2, <3>4 DEF Position
    <3>6. GoodStep
      BY <2>3, <3>1, <3>5, <1>1, Continued DEF CountInv
    <3> QED BY <3>6 DEF GoodStep, ReaderInv
  <2> QED BY <2>1, <2>2, <2>3
<1>3. ReaderInv'
  BY <1>1, <1>2 DEF ReaderInv
<1> QED BY <1>3 DEF GoodStep

LEMMA EnsureStep ==
  ASSUME ReaderInv, ensure
  PROVE  GoodStep
<1>1. err = "none" /\ at # "idle" /\ WindowInv
  BY DEF ensure, ReaderInv
<1>2. WindowInv' /\ stream' = stream
  BY <1>1, NeedType, EnsureKeeps
<1>3. /\ answers' = answers /\ at' = at /\ plan' = plan /\ resp' = resp /\ got' = got /\ err' = err
      /\ auxBuf' = auxBuf
  BY DEF ensure
<1> QED BY <1>2, <1>3, SamePlace

LEMMA NetworkStep ==
  ASSUME ReaderInv, Network
  PROVE  GoodStep
<1>1. WindowInv' /\ stream' = stream
  BY SocketKeeps DEF ReaderInv
<1>2. /\ answers' = answers /\ at' = at /\ plan' = plan /\ resp' = resp /\ got' = got /\ err' = err
      /\ auxBuf' = auxBuf
  BY DEF Network, readSocket
<1> QED BY <1>1, <1>2, SamePlace

LEMMA FailsStep ==
  ASSUME ReaderInv, socketFails
  PROVE  GoodStep
<1>1. WindowInv /\ CountInv
  BY DEF ReaderInv
<1>2. net' = net /\ buf' = buf /\ start' = start /\ end' = end
  BY DEF socketFails
<1>3. WindowInv'
  BY <1>1, <1>2, SameWindow
<1>4. /\ answers' = answers /\ got' = got /\ resp' = resp /\ err = "none" /\ err' # "none"
      /\ auxBuf' = auxBuf
  BY DEF socketFails
<1>5. Held'
  BY <1>1, <1>4 DEF CountInv, Held
<1> QED BY <1>1, <1>3, <1>4, <1>5, Broken

LEMMA StutterReader ==
  ASSUME ReaderInv, UNCHANGED vars
  PROVE  GoodStep
<1>1. /\ net' = net /\ buf' = buf /\ start' = start /\ end' = end
      /\ answers' = answers /\ at' = at /\ plan' = plan /\ resp' = resp /\ got' = got /\ err' = err
      /\ auxBuf' = auxBuf
  BY DEF vars, window
<1>2. WindowInv' /\ stream' = stream
  BY <1>1, SameWindow DEF ReaderInv
<1> QED BY <1>1, <1>2, SamePlace

\* Every step is good.
LEMMA NextReader ==
  ASSUME ReaderInv, [Next]_vars
  PROVE  GoodStep
<1>1. CASE ReadResponse
  BY <1>1, ResponseStep
<1>2. CASE ensure
  BY <1>2, EnsureStep
<1>3. CASE ReadOpcode
  BY <1>3, OpcodeStep
<1>4. CASE ReadInt32
  BY <1>4, Int32Step
<1>5. CASE ReadInt64
  BY <1>5, Int64Step
<1>6. CASE ReadLength
  BY <1>6, LengthStep
<1>7. CASE ReadData
  BY <1>7, DataStep
<1>8. CASE PeekStatus
  BY <1>8, PeekStep
<1>9. CASE ReadTag
  BY <1>9, TagStep
<1>10. CASE ReadWordItem
  BY <1>10, WordItemStep
<1>11. CASE ReadStringItem
  BY <1>11, StringItemStep
<1>12. CASE Network
  BY <1>12, NetworkStep
<1>13. CASE socketFails
  BY <1>13, FailsStep
<1>14. CASE UNCHANGED vars
  BY <1>14, StutterReader
<1> QED BY <1>1, <1>2, <1>3, <1>4, <1>5, <1>6, <1>7, <1>8, <1>9, <1>10, <1>11, <1>12, <1>13, <1>14
     DEF Next, Driver

----------------------------------------------------------------------------
(* The theorems *)

\* The window, the count of the answers, the place in the stream and what has
\* been read of the answer at hand keep in step through every method of the
\* reader and every read of the socket.
THEOREM ReaderInvariant == Spec => []ReaderInv
<1>1. Init => ReaderInv
  BY InitReader
<1>2. ReaderInv /\ [Next]_vars => ReaderInv'
  BY NextReader DEF GoodStep
<1> QED BY <1>1, <1>2, PTL DEF Spec

LEMMA FramedFollows == ReaderInv => Framed
<1>1. SUFFICES ASSUME ReaderInv PROVE Framed
  OBVIOUS
<1>2. 0 <= start /\ start <= end /\ end <= Len(buf)
  BY <1>1 DEF ReaderInv, WindowInv
<1>3. ASSUME at = "idle", err = "none"
      PROVE  view(unread) \o net = Concat([i \in 1..Len(answers) - Len(got) |-> answerBytes(answers[Len(got) + i])])
  <2>1. stream = Follow(answers, Len(got))
    BY <1>1, <1>3 DEF ReaderInv, PlaceInv
  <2> QED BY <2>1 DEF stream, Follow
<1> QED BY <1>2, <1>3 DEF Framed

\* However the socket cuts the stream, whatever the window moves or grows, and
\* whatever vectors the server sends, the reader stands at the beginning of an
\* answer between two of them: no method leaves bytes over or takes too many
\* (reader.go, response.go, status.go).
THEOREM AnswersAreFramed == Spec => []Framed
BY ReaderInvariant, FramedFollows, PTL

\* The meanings are tabulated for the answers that occur.
LEMMA MeaningIs ==
  ASSUME NEW s \in Scripts, NEW i \in DOMAIN s
  PROVE  MeaningOf(s[i]) = Meaning(s[i])
<1>1. PICK T : T = UNION {{t[j] : j \in DOMAIN t} : t \in Scripts}
  OBVIOUS
<1>2. s[i] \in T
  BY <1>1
<1>3. meanings = [a \in T |-> Meaning(a)]
  BY <1>1 DEF meanings
<1> QED BY <1>2, <1>3 DEF MeaningOf

LEMMA GoodStepDelivers ==
  ASSUME ReaderInv, GoodStep
  PROVE  [Abs!Next]_(Abs!vars)
<1>1. answers' = answers
  BY DEF GoodStep
<1>2. CASE got' = got /\ err' = err
  <2>1. (err # "none")' = (err # "none")
    BY <1>2
  <2> QED BY <1>1, <1>2, <2>1 DEF Abs!vars
<1>3. CASE got' = got /\ err = "none" /\ err' # "none"
  <2>1. Abs!Break
    BY <1>1, <1>3 DEF Abs!Break
  <2> QED BY <2>1 DEF Abs!Next
<1>4. CASE got' = got /\ err = "none" /\ err' = "none"
  BY <1>2, <1>4
<1>5. CASE /\ err = "none" /\ err' = "none" /\ Len(got) < Len(answers)
           /\ got' = Append(got, Meaning(answers[Len(got) + 1]))
  <2>1. CountInv
    BY DEF ReaderInv
  <2>2. answers \in Scripts /\ answers \in Seq(Answer) /\ Len(got) \in Nat
    BY <2>1, ScriptType DEF CountInv
  <2>3. Len(got) + 1 \in DOMAIN answers
    BY <1>5, <2>2
  <2>4. MeaningOf(answers[Len(got) + 1]) = Meaning(answers[Len(got) + 1])
    BY <2>2, <2>3, MeaningIs
  <2>5. Abs!Deliver
    BY <1>1, <1>5, <2>4 DEF Abs!Deliver
  <2> QED BY <2>5 DEF Abs!Next
<1> QED BY <1>2, <1>3, <1>4, <1>5 DEF GoodStep

\* However the socket cuts the stream, the callers get the server's answers in
\* order, each as the server meant it, its errors, warnings, arguments and
\* SQLSTATEs included, until the connection breaks, and then none: the safety of
\* DeliversAnswers (reader.go, response.go, status.go).
THEOREM AnswersAreDelivered == Spec => Abs!Safety
<1>1. Init => Abs!Init
  BY DEF Init, Abs!Init
<1>2. ReaderInv /\ [Next]_vars => [Abs!Next]_(Abs!vars)
  BY NextReader, GoodStepDelivers
<1> QED BY <1>1, <1>2, ReaderInvariant, PTL DEF Spec, Abs!Safety

=============================================================================
