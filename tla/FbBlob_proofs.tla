--------------------------- MODULE FbBlob_proofs ---------------------------
(***************************************************************************)
(* Proofs about FbBlob: blobs are whole and closed, for any length of      *)
(* value and segment, any buffer, any packing of the segments and any      *)
(* refusals of the server.                                                 *)
(***************************************************************************)
EXTENDS FbBlob, SequenceTheorems, WellFoundedInduction, TLAPS

Bytes == Seq(Nat)

----------------------------------------------------------------------------
(* Parts of sequences *)

LEMMA Part ==
  ASSUME NEW S, NEW s \in Seq(S), NEW m \in 1..Len(s) + 1, NEW n \in m - 1..Len(s)
  PROVE  /\ SubSeq(s, m, n) \in Seq(S) /\ Len(SubSeq(s, m, n)) = n + 1 - m
         /\ \A i \in 1..n + 1 - m : SubSeq(s, m, n)[i] = s[m + i - 1]
OBVIOUS

LEMMA Joined ==
  ASSUME NEW S, NEW a \in Seq(S), NEW b \in Seq(S)
  PROVE  /\ a \o b \in Seq(S) /\ Len(a \o b) = Len(a) + Len(b)
         /\ \A i \in 1..Len(a) : (a \o b)[i] = a[i]
         /\ \A i \in 1..Len(b) : (a \o b)[Len(a) + i] = b[i]
OBVIOUS

\* A sequence is its first n elements and the rest.
LEMMA Split ==
  ASSUME NEW S, NEW s \in Seq(S), NEW n \in 0..Len(s)
  PROVE  /\ SubSeq(s, 1, n) \in Seq(S) /\ Len(SubSeq(s, 1, n)) = n
         /\ SubSeq(s, n + 1, Len(s)) \in Seq(S) /\ Len(SubSeq(s, n + 1, Len(s))) = Len(s) - n
         /\ SubSeq(s, 1, n) \o SubSeq(s, n + 1, Len(s)) = s
<1>1. PICK a, b : a = SubSeq(s, 1, n) /\ b = SubSeq(s, n + 1, Len(s))
  OBVIOUS
<1>2. a \in Seq(S) /\ Len(a) = n /\ \A i \in 1..n : a[i] = s[i]
  BY <1>1
<1>3. b \in Seq(S) /\ Len(b) = Len(s) - n /\ \A i \in 1..Len(s) - n : b[i] = s[n + i]
  BY <1>1
<1>4. a \o b \in Seq(S) /\ Len(a \o b) = Len(s) /\ \A i \in 1..Len(s) : (a \o b)[i] = s[i]
  BY <1>2, <1>3
<1>5. a \o b = s
  BY <1>4, SeqEqual
<1> QED BY <1>1, <1>2, <1>3, <1>5

\* The rest of a sequence begins with a and goes on with b.
LEMMA RestIs ==
  ASSUME NEW S, NEW w \in Seq(S), NEW off \in 0..Len(w), NEW a \in Seq(S), NEW b \in Seq(S),
         SubSeq(w, off + 1, Len(w)) = a \o b
  PROVE  /\ Len(w) = off + Len(a) + Len(b)
         /\ \A i \in 1..Len(a) : w[off + i] = a[i]
         /\ \A i \in 1..Len(b) : w[off + Len(a) + i] = b[i]
<1>1. PICK r : r = SubSeq(w, off + 1, Len(w))
  OBVIOUS
<1>2. r \in Seq(S) /\ Len(r) = Len(w) - off /\ \A i \in 1..Len(w) - off : r[i] = w[off + i]
  <2>1. r \in Seq(S)
    BY <1>1
  <2>2. Len(r) = Len(w) - off
    BY <1>1
  <2>3. \A i \in 1..Len(w) - off : r[i] = w[off + i]
    BY <1>1
  <2> QED BY <2>1, <2>2, <2>3
<1>3. r = a \o b
  BY <1>1
<1>4. /\ Len(r) = Len(a) + Len(b)
      /\ \A i \in 1..Len(a) : r[i] = a[i]
      /\ \A i \in 1..Len(b) : r[Len(a) + i] = b[i]
  BY <1>3, Joined
<1>5. Len(w) \in Nat /\ Len(a) \in Nat /\ Len(b) \in Nat /\ off \in Nat
  OBVIOUS
<1>6. Len(w) = off + Len(a) + Len(b)
  BY <1>2, <1>4, <1>5
<1>7. \A i \in 1..Len(a) : w[off + i] = a[i]
  BY <1>2, <1>4, <1>5, <1>6
<1>8. ASSUME NEW i \in 1..Len(b) PROVE w[off + Len(a) + i] = b[i]
  <2>1. Len(a) + i \in 1..Len(w) - off /\ off + Len(a) + i = off + (Len(a) + i)
    BY <1>5, <1>6
  <2> QED BY <1>2, <1>4, <2>1
<1> QED BY <1>6, <1>7, <1>8

\* A part of a sequence that holds the elements of s is s.
LEMMA PartIs ==
  ASSUME NEW S, NEW w \in Seq(S), NEW s \in Seq(S), NEW off \in Nat, off + Len(s) <= Len(w),
         \A i \in 1..Len(s) : w[off + i] = s[i]
  PROVE  SubSeq(w, off + 1, off + Len(s)) = s
<1>1. PICK r : r = SubSeq(w, off + 1, off + Len(s))
  OBVIOUS
<1>2. r \in Seq(S) /\ Len(r) = Len(s) /\ \A i \in 1..Len(s) : r[i] = w[off + i]
  BY <1>1
<1>3. r = s
  BY <1>2, SeqEqual
<1> QED BY <1>1, <1>3

----------------------------------------------------------------------------
(* The contents of segments *)

\* Every non-empty set of natural numbers has a least element.
LEMMA LeastNat ==
  ASSUME NEW T \in SUBSET Nat, T # {}
  PROVE  \E m \in T : \A k \in T : m <= k
<1>1. IsWellFoundedOn(OpToRel(<, Nat), Nat)
  BY NatLessThanWellFounded
<1>2. PICK m \in T : \A k \in T : <<k, m>> \notin OpToRel(<, Nat)
  BY <1>1, WFMin
<1>3. \A k \in T : ~(k < m)
  BY <1>2 DEF OpToRel
<1> QED BY <1>3

\* c gives the contents of the first i segments, for every i up to n.
IsContent(c, segs, n) == c = [i \in 0..n |-> IF i = 0 THEN <<>> ELSE c[i - 1] \o segs[i]]

LEMMA ContentExists ==
  ASSUME NEW segs, NEW n \in Nat
  PROVE  \E c : IsContent(c, segs, n)
<1> DEFINE T == {k \in Nat : ~ \E c : IsContent(c, segs, k)}
<1>1. SUFFICES ASSUME T # {} PROVE FALSE
  OBVIOUS
<1>2. PICK m \in T : \A k \in T : m <= k
  BY <1>1, LeastNat
<1>3. CASE m = 0
  <2>1. IsContent([i \in 0..0 |-> <<>>], segs, 0)
    BY DEF IsContent
  <2> QED BY <1>3, <2>1
<1>4. CASE m # 0
  <2>1. m - 1 \in Nat /\ m - 1 \notin T
    BY <1>2, <1>4
  <2>2. PICK c : IsContent(c, segs, m - 1)
    BY <2>1
  <2>3. IsContent([i \in 0..m |-> IF i = m THEN c[m - 1] \o segs[m] ELSE c[i]], segs, m)
    BY <2>1, <2>2, <1>4 DEF IsContent
  <2> QED BY <2>3
<1> QED BY <1>3, <1>4

\* Content follows its recursion.
LEMMA ContentDef ==
  ASSUME NEW segs, Len(segs) \in Nat
  PROVE  \E c : IsContent(c, segs, Len(segs)) /\ Content(segs) = c[Len(segs)]
<1>1. PICK d : IsContent(d, segs, Len(segs))
  BY ContentExists
<1> DEFINE c == CHOOSE c : c = [i \in 0..Len(segs) |-> IF i = 0 THEN <<>> ELSE c[i - 1] \o segs[i]]
<1>2. IsContent(c, segs, Len(segs))
  BY <1>1 DEF IsContent
<1>3. Content(segs) = c[Len(segs)]
  BY DEF Content
<1> QED BY <1>2, <1>3

LEMMA ContentAt ==
  ASSUME NEW c, NEW segs, NEW n \in Nat, IsContent(c, segs, n)
  PROVE  c[0] = <<>> /\ \A i \in 1..n : c[i] = c[i - 1] \o segs[i]
BY DEF IsContent

\* Segments that agree up to n have the same contents up to n.
LEMMA ContentUnique ==
  ASSUME NEW n \in Nat, NEW c, NEW d, NEW s, NEW t, NEW k \in Nat, NEW l \in Nat, n <= k, n <= l,
         IsContent(c, s, k), IsContent(d, t, l), \A i \in 1..n : s[i] = t[i]
  PROVE  c[n] = d[n]
<1> DEFINE T == {m \in 0..n : c[m] # d[m]}
<1>0. /\ c[0] = <<>> /\ \A i \in 1..k : c[i] = c[i - 1] \o s[i]
      /\ d[0] = <<>> /\ \A i \in 1..l : d[i] = d[i - 1] \o t[i]
  <2>1. c[0] = <<>> /\ \A i \in 1..k : c[i] = c[i - 1] \o s[i]
    BY DEF IsContent
  <2>2. d[0] = <<>> /\ \A i \in 1..l : d[i] = d[i - 1] \o t[i]
    BY DEF IsContent
  <2> QED BY <2>1, <2>2
<1>1. SUFFICES ASSUME T # {} PROVE FALSE
  OBVIOUS
<1>2. PICK m \in T : \A j \in T : m <= j
  <2> HIDE DEF T
  <2>1. T \in SUBSET Nat
    BY DEF T
  <2> QED BY <1>1, <2>1, LeastNat
<1>3. CASE m = 0
  BY <1>0, <1>2, <1>3
<1>4. CASE m # 0
  <2>1. m - 1 \in 0..n /\ m - 1 \notin T
    BY <1>2, <1>4
  <2>2. m \in 1..k /\ m \in 1..l /\ m \in 1..n
    BY <1>4
  <2>3. c[m] = c[m - 1] \o s[m] /\ d[m] = d[m - 1] \o t[m] /\ s[m] = t[m]
    BY <1>0, <2>2
  <2>4. c[m - 1] = d[m - 1]
    BY <2>1
  <2> QED BY <1>2, <2>3, <2>4
<1> QED BY <1>3, <1>4

LEMMA ContentEmpty == Content(<<>>) = <<>>
<1>1. Len(<<>>) = 0
  OBVIOUS
<1>2. PICK c : IsContent(c, <<>>, 0) /\ Content(<<>>) = c[0]
  BY <1>1, ContentDef
<1> QED BY <1>2 DEF IsContent

\* One segment more.
LEMMA ContentAppend ==
  ASSUME NEW S, NEW segs \in Seq(S), NEW seg \in S
  PROVE  Content(Append(segs, seg)) = Content(segs) \o seg
<1> DEFINE n == Len(segs)
           w == Append(segs, seg)
<1>0. n \in Nat /\ Len(w) = n + 1 /\ (\A i \in 1..n : segs[i] = w[i]) /\ w[n + 1] = seg
  OBVIOUS
<1> HIDE DEF w, n
<1>1. PICK c : IsContent(c, segs, n) /\ Content(segs) = c[n]
  BY <1>0, ContentDef DEF n
<1>2. PICK d : IsContent(d, w, n + 1) /\ Content(w) = d[n + 1]
  BY <1>0, ContentDef
<1>3. c[n] = d[n]
  BY <1>0, <1>1, <1>2, ContentUnique
<1>4. d[n + 1] = d[n] \o seg
  <2>1. n + 1 \in 1..n + 1 /\ (n + 1) - 1 = n /\ n + 1 \in Nat
    BY <1>0
  <2>2. d[n + 1] = d[(n + 1) - 1] \o w[n + 1]
    BY <1>2, <2>1, ContentAt
  <2> QED BY <1>0, <2>1, <2>2
<1> QED BY <1>1, <1>2, <1>3, <1>4 DEF w

\* The contents of segments of bytes are bytes.
LEMMA ContentBytes ==
  ASSUME NEW segs \in Seq(Bytes)
  PROVE  Content(segs) \in Bytes
<1>1. PICK c : IsContent(c, segs, Len(segs)) /\ Content(segs) = c[Len(segs)]
  BY ContentDef
<1> DEFINE T == {m \in 0..Len(segs) : c[m] \notin Bytes}
<1>2. SUFFICES ASSUME T # {} PROVE FALSE
  BY <1>1
<1>3. PICK m \in T : \A j \in T : m <= j
  <2> HIDE DEF T
  <2>1. T \in SUBSET Nat
    BY DEF T
  <2> QED BY <1>2, <2>1, LeastNat
<1>4. CASE m = 0
  BY <1>1, <1>3, <1>4 DEF IsContent, Bytes
<1>5. CASE m # 0
  <2>1. m - 1 \in 0..Len(segs) /\ m - 1 \notin T
    BY <1>3, <1>5
  <2>2. c[m] = c[m - 1] \o segs[m]
    BY <1>1, <1>5, <2>1 DEF IsContent
  <2>3. segs[m] \in Seq(Nat) /\ c[m - 1] \in Seq(Nat)
    BY <1>5, <2>1 DEF Bytes
  <2>4. c[m] \in Seq(Nat)
    BY <2>2, <2>3, ConcatProperties
  <2> QED BY <1>3, <2>4 DEF Bytes
<1> QED BY <1>4, <1>5

LEMMA Associative ==
  ASSUME NEW x \in Bytes, NEW y \in Bytes, NEW z \in Bytes
  PROVE  (x \o y) \o z = x \o (y \o z)
BY DEF Bytes

\* The contents of segments followed by others.
LEMMA ContentConcat ==
  ASSUME NEW s \in Seq(Bytes), NEW t \in Seq(Bytes)
  PROVE  Content(s \o t) = Content(s) \o Content(t)
<1> DEFINE u(n) == SubSeq(t, 1, n)
           T == {n \in 0..Len(t) : Content(s \o u(n)) # Content(s) \o Content(u(n))}
<1>1. \A n \in 0..Len(t) : u(n) \in Seq(Bytes) /\ Len(u(n)) = n
  OBVIOUS
<1>2. u(Len(t)) = t
  OBVIOUS
<1>3. SUFFICES ASSUME T # {} PROVE FALSE
  <2>1. SUFFICES ASSUME Content(s \o t) # Content(s) \o Content(t) PROVE Len(t) \in T
    OBVIOUS
  <2>2. Content(s \o u(Len(t))) # Content(s) \o Content(u(Len(t)))
    BY <1>2, <2>1
  <2>3. Len(t) \in 0..Len(t)
    OBVIOUS
  <2> HIDE DEF u
  <2> QED BY <2>2, <2>3
<1>4. PICK m \in T : \A j \in T : m <= j
  <2> HIDE DEF T
  <2>1. T \in SUBSET Nat
    BY DEF T
  <2> QED BY <1>3, <2>1, LeastNat
<1>5. CASE m = 0
  <2>1. u(0) = <<>>
    OBVIOUS
  <2>2. s \o <<>> = s /\ Content(s) \o <<>> = Content(s)
    BY ContentBytes, ConcatEmptySeq DEF Bytes
  <2> QED BY <1>4, <1>5, <2>1, <2>2, ContentEmpty
<1>6. CASE m # 0
  <2>1. m - 1 \in 0..Len(t) /\ m - 1 \notin T /\ t[m] \in Bytes
    BY <1>4, <1>6
  <2>2. u(m) = Append(u(m - 1), t[m])
    BY <1>4, <1>6, <2>1
  <2>3. s \o u(m) = Append(s \o u(m - 1), t[m])
    BY <1>1, <2>1, <2>2
  <2>4. u(m - 1) \in Seq(Bytes) /\ s \o u(m - 1) \in Seq(Bytes)
    BY <1>1, <2>1
  <2>5. Content(s \o u(m)) = Content(s \o u(m - 1)) \o t[m]
    BY <2>1, <2>3, <2>4, ContentAppend
  <2>6. Content(u(m)) = Content(u(m - 1)) \o t[m]
    BY <2>1, <2>2, <2>4, ContentAppend
  <2>7. Content(s \o u(m - 1)) = Content(s) \o Content(u(m - 1))
    BY <2>1
  <2>8. Content(s) \in Bytes /\ Content(u(m - 1)) \in Bytes
    BY <2>4, ContentBytes
  <2> HIDE DEF u
  <2>9. (Content(s) \o Content(u(m - 1))) \o t[m] = Content(s) \o (Content(u(m - 1)) \o t[m])
    BY <2>1, <2>8, Associative
  <2> QED BY <1>4, <2>1, <2>5, <2>6, <2>7, <2>9
<1> QED BY <1>5, <1>6

LEMMA ContentOne == ASSUME NEW x \in Bytes PROVE Content(<<x>>) = x
<1>1. <<>> \in Seq(Bytes) /\ <<x>> = Append(<<>>, x)
  OBVIOUS
<1>2. <<>> \o x = x
  BY DEF Bytes
<1> QED BY <1>1, <1>2, ContentAppend, ContentEmpty

\* The first segment and the others.
LEMMA ContentHead ==
  ASSUME NEW p \in Seq(Bytes), p # <<>>
  PROVE  /\ p[1] \in Bytes /\ Tail(p) \in Seq(Bytes) /\ Len(Tail(p)) = Len(p) - 1
         /\ Content(p) = p[1] \o Content(Tail(p))
<1>1. p[1] \in Bytes /\ Tail(p) \in Seq(Bytes) /\ Len(Tail(p)) = Len(p) - 1
  OBVIOUS
<1>2. p = <<p[1]>> \o Tail(p) /\ <<p[1]>> \in Seq(Bytes)
  BY <1>1
<1>3. Content(p) = Content(<<p[1]>>) \o Content(Tail(p))
  BY <1>1, <1>2, ContentConcat
<1> QED BY <1>1, <1>3, ContentOne

----------------------------------------------------------------------------
(* Packing and unpacking *)

LEMMA LengthBytes ==
  ASSUME NEW n \in Nat
  PROVE  n % 256 \in Nat /\ n \div 256 \in Nat /\ (n % 256) + 256 * (n \div 256) = n
OBVIOUS

LEMMA PackedSegment ==
  ASSUME NEW seg \in Bytes
  PROVE  /\ Packed(seg) \in Bytes /\ Len(Packed(seg)) = Len(seg) + 2
         /\ Packed(seg)[1] + 256 * Packed(seg)[2] = Len(seg)
         /\ \A i \in 1..Len(seg) : Packed(seg)[i + 2] = seg[i]
<1>1. Len(seg) \in Nat
  BY DEF Bytes
<1> DEFINE a == Len(seg) % 256
           b == Len(seg) \div 256
<1>2. a \in Nat /\ b \in Nat /\ a + 256 * b = Len(seg)
  BY <1>1, LengthBytes
<1>3. Packed(seg) = <<a, b>> \o seg
  BY DEF Packed
<1> HIDE DEF a, b
<1> QED BY <1>1, <1>2, <1>3 DEF Bytes

\* The first packed segment and the others.
LEMMA PackHead ==
  ASSUME NEW p \in Seq(Bytes), p # <<>>
  PROVE  Pack(p) = Packed(p[1]) \o Pack(Tail(p))
<1> DEFINE m(q) == [i \in DOMAIN q |-> Packed(q[i])]
<1>1. \A q \in Seq(Bytes) : m(q) \in Seq(Bytes) /\ Len(m(q)) = Len(q)
                          /\ \A i \in 1..Len(q) : m(q)[i] = Packed(q[i])
  <2>1. TAKE q \in Seq(Bytes)
  <2>2. \A i \in 1..Len(q) : Packed(q[i]) \in Bytes
    BY PackedSegment
  <2> QED BY <2>2
<1>2. m(p) # <<>> /\ m(p)[1] = Packed(p[1])
  BY <1>1
<1>3. Tail(p) \in Seq(Bytes) /\ Len(Tail(p)) = Len(p) - 1 /\ Len(p) \in Nat \ {0}
      /\ \A i \in 1..Len(Tail(p)) : Tail(p)[i] = p[i + 1]
  OBVIOUS
<1>4. Tail(m(p)) = m(Tail(p))
  <2>1. Tail(m(p)) \in Seq(Bytes) /\ Len(Tail(m(p))) = Len(p) - 1
        /\ \A i \in 1..Len(p) - 1 : Tail(m(p))[i] = m(p)[i + 1]
    <3> HIDE DEF m
    <3> QED BY <1>1, <1>2, <1>3
  <2>2. m(Tail(p)) \in Seq(Bytes) /\ Len(m(Tail(p))) = Len(p) - 1
        /\ \A i \in 1..Len(p) - 1 : m(Tail(p))[i] = Packed(p[i + 1])
    <3> HIDE DEF m
    <3> QED BY <1>1, <1>3
  <2>3. \A i \in 1..Len(p) - 1 : Tail(m(p))[i] = m(Tail(p))[i]
    <3> HIDE DEF m
    <3> QED BY <1>1, <1>3, <2>1, <2>2
  <2> HIDE DEF m
  <2> QED BY <2>1, <2>2, <2>3, SeqEqual
<1>5. Content(m(p)) = m(p)[1] \o Content(Tail(m(p)))
  <2> HIDE DEF m
  <2> QED BY <1>1, <1>2, ContentHead
<1>6. Pack(p) = Content(m(p)) /\ Pack(Tail(p)) = Content(m(Tail(p)))
  BY DEF Pack
<1> HIDE DEF m
<1> QED BY <1>2, <1>4, <1>5, <1>6

LEMMA PackBytes == ASSUME NEW p \in Seq(Bytes) PROVE Pack(p) \in Bytes
<1>1. \A i \in 1..Len(p) : Packed(p[i]) \in Bytes
  BY PackedSegment
<1>2. [i \in DOMAIN p |-> Packed(p[i])] \in Seq(Bytes)
  BY <1>1
<1> QED BY <1>2, ContentBytes DEF Pack

\* The number of bytes of the segment that begins after off.
LengthAt(packed, off) == packed[off + 1] + 256 * packed[off + 2]

\* u gives what unpackSegments finds after off, for every off from m on.
IsUnpacked(u, packed, m) ==
  u = [off \in m..Len(packed) |->
         IF off + 2 > Len(packed) THEN <<>>
         ELSE IF off + 2 + LengthAt(packed, off) > Len(packed) THEN <<>>
              ELSE SubSeq(packed, off + 3, off + 2 + LengthAt(packed, off))
                     \o u[off + 2 + LengthAt(packed, off)]]

LEMMA UnpackedExists ==
  ASSUME NEW packed \in Bytes, NEW m \in 0..Len(packed)
  PROVE  \E u : IsUnpacked(u, packed, m)
<1> DEFINE l == Len(packed)
           T == {k \in 0..l : ~ \E u : IsUnpacked(u, packed, l - k)}
<1>0. l \in Nat /\ \A off \in 0..l : off + 2 <= l => LengthAt(packed, off) \in Nat
  BY DEF Bytes, LengthAt
<1>1. SUFFICES ASSUME T # {} PROVE FALSE
  <2>1. SUFFICES ASSUME ~ \E u : IsUnpacked(u, packed, m) PROVE l - m \in T
    OBVIOUS
  <2>2. l - (l - m) = m /\ l - m \in 0..l
    BY <1>0
  <2> QED BY <2>1, <2>2
<1>2. PICK k \in T : \A j \in T : k <= j
  <2> HIDE DEF T
  <2>1. T \in SUBSET Nat
    BY <1>0 DEF T
  <2> QED BY <1>1, <2>1, LeastNat
<1>3. CASE k = 0
  <2>1. IsUnpacked([off \in l..l |-> <<>>], packed, l)
    BY <1>0 DEF IsUnpacked
  <2>2. l - k = l
    BY <1>0, <1>3
  <2> QED BY <1>2, <2>1, <2>2
<1>4. CASE k # 0
  <2> DEFINE e == l - k
             n == LengthAt(packed, e)
  <2>1. k - 1 \in 0..l /\ k - 1 \notin T /\ e \in 0..l - 1 /\ l - (k - 1) = e + 1
    <3>1. k \in 0..l /\ l \in Nat
      BY <1>0, <1>2
    <3>2. k - 1 \in 0..l /\ e \in 0..l - 1 /\ l - (k - 1) = e + 1 /\ ~(k <= k - 1)
      BY <1>4, <3>1
    <3> HIDE DEF T
    <3> QED BY <1>2, <3>2
  <2>2. PICK u : IsUnpacked(u, packed, e + 1)
    BY <2>1
  <2> DEFINE w == [off \in e..l |-> IF off # e THEN u[off]
                    ELSE IF e + 2 > l THEN <<>>
                    ELSE IF e + 2 + n > l THEN <<>>
                         ELSE SubSeq(packed, e + 3, e + 2 + n) \o u[e + 2 + n]]
  <2>3. \A off \in e..l : off + 2 <= l =>
           LET x == off + 2 + LengthAt(packed, off) IN x <= l => x \in e + 1..l /\ w[x] = u[x]
    BY <1>0, <2>1
  <2>4. IsUnpacked(w, packed, e)
    <3>1. \A off \in e..l :
            w[off] = IF off + 2 > l THEN <<>>
                     ELSE IF off + 2 + LengthAt(packed, off) > l THEN <<>>
                     ELSE SubSeq(packed, off + 3, off + 2 + LengthAt(packed, off))
                            \o w[off + 2 + LengthAt(packed, off)]
      <4>1. TAKE off \in e..l
      <4>2. CASE off = e
        <5>1. w[e] = IF e + 2 > l THEN <<>>
                     ELSE IF e + 2 + n > l THEN <<>>
                     ELSE SubSeq(packed, e + 3, e + 2 + n) \o u[e + 2 + n]
          BY <1>0, <2>1
        <5>2. e + 2 <= l /\ e + 2 + n <= l => w[e + 2 + n] = u[e + 2 + n]
          BY <1>0, <2>1, <2>3, SMTT(30)
        <5>3. e \in 0..l /\ (e + 2 <= l => n \in Nat)
          BY <1>0, <2>1
        <5> HIDE DEF w, e
        <5>4. CASE e + 2 > l
          BY <1>0, <4>2, <5>1, <5>4
        <5>5. CASE e + 2 <= l /\ e + 2 + n > l
          BY <1>0, <4>2, <5>1, <5>3, <5>5
        <5>6. CASE e + 2 <= l /\ e + 2 + n <= l
          BY <1>0, <4>2, <5>1, <5>2, <5>3, <5>6
        <5> QED BY <1>0, <5>3, <5>4, <5>5, <5>6
      <4>3. CASE off # e
        <5>1. off \in e + 1..l /\ w[off] = u[off]
          BY <2>1, <4>3
        <5>2. u[off] = IF off + 2 > l THEN <<>>
                     ELSE IF off + 2 + LengthAt(packed, off) > l THEN <<>>
                     ELSE SubSeq(packed, off + 3, off + 2 + LengthAt(packed, off))
                            \o u[off + 2 + LengthAt(packed, off)]
          BY <2>2, <5>1 DEF IsUnpacked
        <5> DEFINE x == off + 2 + LengthAt(packed, off)
        <5>3. off \in 0..l /\ (off + 2 <= l => LengthAt(packed, off) \in Nat)
          BY <1>0, <2>1
        <5>4. off + 2 <= l /\ x <= l => w[x] = u[x]
          BY <2>3
        <5> HIDE DEF w, e
        <5>5. CASE off + 2 > l
          BY <1>0, <5>1, <5>2, <5>5
        <5>6. CASE off + 2 <= l /\ x > l
          BY <1>0, <5>1, <5>2, <5>3, <5>6
        <5>7. CASE off + 2 <= l /\ x <= l
          BY <1>0, <5>1, <5>2, <5>3, <5>4, <5>7
        <5> QED BY <1>0, <5>3, <5>5, <5>6, <5>7
      <4> QED BY <4>2, <4>3
    <3>2. w = [off \in e..l |-> w[off]]
      OBVIOUS
    <3> HIDE DEF w
    <3> QED BY <3>1, <3>2 DEF IsUnpacked
  <2> QED BY <1>2, <2>4
<1> QED BY <1>3, <1>4

\* What unpackSegments finds follows its recursion.
LEMMA UnpackedDef ==
  ASSUME NEW dst, NEW packed \in Bytes
  PROVE  \E u : IsUnpacked(u, packed, 0) /\ unpackSegments(dst, packed) = dst \o u[0]
<1> DEFINE u == CHOOSE u : u =
             [off \in 0..Len(packed) |->
                IF off + 2 > Len(packed) THEN <<>>
                ELSE IF off + 2 + LengthAt(packed, off) > Len(packed) THEN <<>>
                     ELSE SubSeq(packed, off + 3, off + 2 + LengthAt(packed, off))
                            \o u[off + 2 + LengthAt(packed, off)]]
<1>1. 0 \in 0..Len(packed)
  BY DEF Bytes
<1>2. PICK v : IsUnpacked(v, packed, 0)
  BY <1>1, UnpackedExists
<1>3. IsUnpacked(u, packed, 0)
  BY <1>2 DEF IsUnpacked
<1>4. unpackSegments(dst, packed) = dst \o u[0]
  BY DEF unpackSegments, LengthAt
<1> QED BY <1>3, <1>4

LEMMA UnpackedAt ==
  ASSUME NEW u, NEW packed \in Bytes, IsUnpacked(u, packed, 0), NEW off \in 0..Len(packed)
  PROVE  /\ off + 2 > Len(packed) => u[off] = <<>>
         /\ off + 2 <= Len(packed) /\ off + 2 + LengthAt(packed, off) <= Len(packed) =>
              u[off] = SubSeq(packed, off + 3, off + 2 + LengthAt(packed, off))
                         \o u[off + 2 + LengthAt(packed, off)]
<1>1. Len(packed) \in Nat /\ (off + 2 <= Len(packed) => LengthAt(packed, off) \in Nat)
  BY DEF Bytes, LengthAt
<1>2. u[off] = IF off + 2 > Len(packed) THEN <<>>
               ELSE IF off + 2 + LengthAt(packed, off) > Len(packed) THEN <<>>
               ELSE SubSeq(packed, off + 3, off + 2 + LengthAt(packed, off))
                      \o u[off + 2 + LengthAt(packed, off)]
  BY DEF IsUnpacked
<1>3. CASE off + 2 > Len(packed)
  BY <1>1, <1>2, <1>3
<1>4. CASE off + 2 <= Len(packed) /\ off + 2 + LengthAt(packed, off) <= Len(packed)
  <2>1. ~(off + 2 > Len(packed)) /\ ~(off + 2 + LengthAt(packed, off) > Len(packed))
    BY <1>1, <1>4
  <2> QED BY <1>2, <1>4, <2>1, Zenon
<1> QED BY <1>1, <1>3, <1>4

LEMMA PackEmpty == Pack(<<>>) = <<>>
<1>1. [i \in DOMAIN <<>> |-> Packed(<<>>[i])] = <<>>
  OBVIOUS
<1> QED BY <1>1, ContentEmpty DEF Pack

\* The packed segment s at off.
RestAt(packed, off) == SubSeq(packed, off + 1, Len(packed))

SegmentAt(packed, off, s, b) ==
  /\ LengthAt(packed, off) = Len(s) /\ Len(packed) = off + 2 + Len(s) + Len(b)
  /\ SubSeq(packed, off + 3, off + 2 + Len(s)) = s
  /\ RestAt(packed, off + 2 + Len(s)) = b

LEMMA PackedAt ==
  ASSUME NEW packed \in Seq(Nat), NEW off \in 0..Len(packed), NEW s \in Seq(Nat), NEW b \in Seq(Nat),
         RestAt(packed, off) = Packed(s) \o b
  PROVE  SegmentAt(packed, off, s, b)
<1>1. PICK a : a = Packed(s)
  OBVIOUS
<1>2. /\ a \in Seq(Nat) /\ Len(a) = Len(s) + 2 /\ a[1] + 256 * a[2] = Len(s)
      /\ \A i \in 1..Len(s) : a[i + 2] = s[i]
  BY <1>1, PackedSegment DEF Bytes
<1>3. /\ Len(packed) = off + Len(a) + Len(b)
      /\ \A i \in 1..Len(a) : packed[off + i] = a[i]
      /\ \A i \in 1..Len(b) : packed[off + Len(a) + i] = b[i]
  <2>1. a \in Seq(Nat) /\ SubSeq(packed, off + 1, Len(packed)) = a \o b
    BY <1>1, <1>2 DEF RestAt
  <2> QED BY ONLY <2>1, RestIs, packed \in Seq(Nat), off \in 0..Len(packed), b \in Seq(Nat)
<1>4. Len(s) \in Nat /\ Len(a) \in Nat /\ Len(b) \in Nat /\ off \in Nat
  BY <1>2
<1>5. 1 \in 1..Len(a) /\ 2 \in 1..Len(a)
  BY <1>2, <1>4
<1>6. LengthAt(packed, off) = Len(s)
  BY <1>2, <1>3, <1>5 DEF LengthAt
<1>7. Len(packed) = off + 2 + Len(s) + Len(b) /\ off + 2 \in Nat /\ off + 2 + Len(s) <= Len(packed)
  BY <1>2, <1>3, <1>4
<1>8. ASSUME NEW i \in 1..Len(s) PROVE packed[(off + 2) + i] = s[i]
  <2>1. i + 2 \in 1..Len(a) /\ (off + 2) + i = off + (i + 2)
    BY <1>2, <1>4
  <2> QED BY <1>2, <1>3, <2>1
<1>9. SubSeq(packed, (off + 2) + 1, (off + 2) + Len(s)) = s
  BY <1>7, <1>8, PartIs
<1>10. (off + 2) + 1 = off + 3 /\ off + Len(a) = off + 2 + Len(s) /\ off + 2 + Len(s) \in Nat
  BY <1>2, <1>4
<1>11. \A i \in 1..Len(b) : packed[(off + 2 + Len(s)) + i] = b[i]
  BY <1>3, <1>10
<1>12. SubSeq(packed, (off + 2 + Len(s)) + 1, (off + 2 + Len(s)) + Len(b)) = b
  <2>1. (off + 2 + Len(s)) + Len(b) <= Len(packed)
    BY <1>7, <1>4
  <2> QED BY <1>10, <1>11, <2>1, PartIs
<1>13. SubSeq(packed, off + 3, off + 2 + Len(s)) = s /\ RestAt(packed, off + 2 + Len(s)) = b
  <2>1. (off + 2) + Len(s) = off + 2 + Len(s) /\ (off + 2 + Len(s)) + Len(b) = Len(packed)
    BY <1>4, <1>7
  <2> QED BY <1>9, <1>10, <1>12, <2>1, Zenon DEF RestAt
<1> QED BY <1>6, <1>7, <1>13 DEF SegmentAt

\* One round of unpackSegments: the segment s at off, and b behind it.
UnpacksAt(u, packed, off, s, b) ==
  \E next \in 0..Len(packed) : u[off] = s \o u[next] /\ RestAt(packed, next) = b

LEMMA UnpackStep ==
  ASSUME NEW packed \in Seq(Nat), NEW u, IsUnpacked(u, packed, 0),
         NEW off \in 0..Len(packed), NEW s \in Seq(Nat), NEW b \in Seq(Nat),
         RestAt(packed, off) = Packed(s) \o b
  PROVE  UnpacksAt(u, packed, off, s, b)
<1>0. SegmentAt(packed, off, s, b)
  BY PackedAt
<1>1. /\ LengthAt(packed, off) = Len(s) /\ Len(packed) = off + 2 + Len(s) + Len(b)
      /\ SubSeq(packed, off + 3, off + 2 + Len(s)) = s
      /\ RestAt(packed, off + 2 + Len(s)) = b
  BY <1>0 DEF SegmentAt
<1>2. Len(s) \in Nat /\ Len(b) \in Nat /\ off \in Nat /\ Len(packed) \in Nat
  OBVIOUS
<1>3. PICK next : next = off + 2 + Len(s)
  OBVIOUS
<1>4. next \in 0..Len(packed) /\ off + 2 <= Len(packed) /\ off + 2 + LengthAt(packed, off) <= Len(packed)
  BY <1>1, <1>2, <1>3
<1>5. packed \in Bytes
  BY DEF Bytes
<1>6. u[off] = SubSeq(packed, off + 3, off + 2 + LengthAt(packed, off)) \o u[off + 2 + LengthAt(packed, off)]
  BY <1>4, <1>5, UnpackedAt
<1>7. u[off] = s \o u[next]
  BY ONLY <1>1, <1>3, <1>6
<1>8. RestAt(packed, next) = b
  BY ONLY <1>1, <1>3
<1> QED BY <1>4, <1>7, <1>8 DEF UnpacksAt

\* unpackSegments inverts the packing of the server.
LEMMA UnpackPack ==
  ASSUME NEW dst \in Bytes, NEW p \in Seq(Bytes)
  PROVE  unpackSegments(dst, Pack(p)) = dst \o Content(p)
<1>1. PICK packed : packed = Pack(p)
  OBVIOUS
<1>2. packed \in Bytes /\ packed \in Seq(Nat) /\ Len(packed) \in Nat
  BY <1>1, PackBytes DEF Bytes
<1>3. PICK u : IsUnpacked(u, packed, 0) /\ unpackSegments(dst, packed) = dst \o u[0]
  BY <1>2, UnpackedDef
<1> DEFINE Wrong(q, off) == RestAt(packed, off) = Pack(q) /\ u[off] # Content(q)
           T == {n \in Nat : \E q \in Seq(Bytes), off \in 0..Len(packed) : Len(q) = n /\ Wrong(q, off)}
<1>4. SUFFICES T = {}
  <2>1. RestAt(packed, 0) = packed /\ 0 \in 0..Len(packed) /\ Len(p) \in Nat
    BY <1>2 DEF RestAt
  <2>2. ~Wrong(p, 0)
    BY <2>1
  <2>3. u[0] = Content(p)
    BY <1>1, <2>1, <2>2
  <2> QED BY <1>1, <1>3, <2>3
<1>5. SUFFICES ASSUME T # {} PROVE FALSE
  OBVIOUS
<1>6. PICK n \in T : \A k \in T : n <= k
  <2> HIDE DEF T
  <2>1. T \in SUBSET Nat
    BY DEF T
  <2> QED BY <1>5, <2>1, LeastNat
<1>7. PICK q \in Seq(Bytes), off \in 0..Len(packed) : Len(q) = n /\ Wrong(q, off)
  BY <1>6
<1>8. n \in Nat
  BY <1>6
<1>9. CASE n = 0
  <2>1. q = <<>>
    BY <1>7, <1>9
  <2>2. Len(SubSeq(packed, off + 1, Len(packed))) = 0
    BY <1>7, <2>1, PackEmpty DEF RestAt
  <2>3. off = Len(packed)
    BY <1>2, <2>2
  <2>4. u[off] = <<>>
    <3>1. off + 2 > Len(packed)
      BY <1>2, <2>3
    <3> QED BY <1>2, <1>3, <3>1, UnpackedAt
  <2> QED BY <1>7, <2>1, <2>4, ContentEmpty
<1>10. CASE n # 0
  <2> DEFINE s == q[1]
             t == Tail(q)
  <2>1. q # <<>> /\ n - 1 \in Nat /\ n - 1 \notin T
    BY <1>6, <1>7, <1>8, <1>10
  <2>2. s \in Bytes /\ t \in Seq(Bytes) /\ Len(t) = n - 1 /\ Content(q) = s \o Content(t)
    BY <1>7, <2>1, ContentHead
  <2> HIDE DEF s, t, T
  <2>3. Pack(q) = Packed(s) \o Pack(t)
    BY <2>1, PackHead DEF s, t
  <2> HIDE DEF Wrong
  <2>4. Pack(t) \in Seq(Nat) /\ s \in Seq(Nat)
    BY <2>2, PackBytes DEF Bytes
  <2>5. RestAt(packed, off) = Packed(s) \o Pack(t)
    BY <1>7, <2>3 DEF Wrong
  <2>6. PICK next \in 0..Len(packed) :
          u[off] = s \o u[next] /\ RestAt(packed, next) = Pack(t)
    <3>1. PICK x, b : x = s /\ b = Pack(t)
      OBVIOUS
    <3>2. packed \in Seq(Nat)
      BY <1>2
    <3>3. IsUnpacked(u, packed, 0)
      BY <1>3
    <3>4. off \in 0..Len(packed)
      BY <1>7
    <3>5. x \in Seq(Nat)
      BY <2>4, <3>1
    <3>6. b \in Seq(Nat)
      BY <2>4, <3>1
    <3>7. RestAt(packed, off) = Packed(x) \o b
      BY <2>5, <3>1
    <3>8. UnpacksAt(u, packed, off, x, b)
      BY ONLY <3>2, <3>3, <3>4, <3>5, <3>6, <3>7, UnpackStep
    <3> QED BY ONLY <3>1, <3>8 DEF UnpacksAt
  <2>9. ~Wrong(t, next)
    BY <2>1, <2>2, <2>6 DEF T
  <2>10. u[next] = Content(t)
    BY <2>6, <2>9 DEF Wrong
  <2> QED BY <1>7, <2>2, <2>6, <2>10 DEF Wrong
<1> QED BY <1>8, <1>9, <1>10

----------------------------------------------------------------------------
(* What the server sends and what remains *)

LEMMA Remainder ==
  ASSUME NEW rest \in Seq(Bytes), NEW p \in Pieces(rest)
  PROVE  /\ p \in Seq(Bytes) /\ After(rest, p) \in Seq(Bytes)
         /\ Content(rest) = Content(p) \o Content(After(rest, p))
<1>1. PICK n \in 0..Len(rest) :
        \/ p = SubSeq(rest, 1, n)
        \/ n # Len(rest) /\ \E f \in 1..Len(rest[n + 1]) - 1 :
             p = Append(SubSeq(rest, 1, n), SubSeq(rest[n + 1], 1, f))
  BY DEF Pieces
<1>2. CASE p = SubSeq(rest, 1, n)
  <2> DEFINE q == SubSeq(rest, n + 1, Len(rest))
  <2>1. p \in Seq(Bytes) /\ q \in Seq(Bytes) /\ Len(p) = n /\ rest = p \o q
    BY <1>2, Split
  <2>2. n # 0 => p[n] = rest[n]
    BY <1>2
  <2>3. After(rest, p) = q
    BY <2>1, <2>2 DEF After
  <2> QED BY <2>1, <2>3, ContentConcat
<1>3. CASE n # Len(rest) /\ \E f \in 1..Len(rest[n + 1]) - 1 :
             p = Append(SubSeq(rest, 1, n), SubSeq(rest[n + 1], 1, f))
  <2>1. PICK f \in 1..Len(rest[n + 1]) - 1 : p = Append(SubSeq(rest, 1, n), SubSeq(rest[n + 1], 1, f))
    BY <1>3
  <2>2. PICK z, a, b : z = rest[n + 1] /\ a = SubSeq(rest, 1, n) /\ b = SubSeq(rest, n + 2, Len(rest))
    OBVIOUS
  <2>3. PICK x, y : x = SubSeq(z, 1, f) /\ y = SubSeq(z, f + 1, Len(z))
    OBVIOUS
  <2>4. n + 1 \in 1..Len(rest) /\ z \in Bytes /\ z \in Seq(Nat) /\ f \in 1..Len(z) - 1
    BY <1>3, <2>2 DEF Bytes
  <2>5. a \in Seq(Bytes) /\ Len(a) = n /\ b \in Seq(Bytes) /\ rest = a \o (<<z>> \o b)
    <3>1. PICK c : c = SubSeq(rest, n + 1, Len(rest))
      OBVIOUS
    <3>2. a \in Seq(Bytes) /\ Len(a) = n /\ c \in Seq(Bytes) /\ rest = a \o c
      BY <2>2, <3>1, Split
    <3>3. b \in Seq(Bytes) /\ c = <<z>> \o b
      <4>1. n + 1 \in 1..Len(rest) /\ Len(rest) \in n + 1..Len(rest) /\ (n + 1) + 1 = n + 2
        BY <2>4
      <4>2. c = <<rest[n + 1]>> \o SubSeq(rest, (n + 1) + 1, Len(rest))
        BY <3>1, <4>1, SubSeqRecursiveFirst
      <4>3. n + 1 \in 0..Len(rest)
        BY <2>4
      <4>4. SubSeq(rest, (n + 1) + 1, Len(rest)) \in Seq(Bytes)
        BY <4>3, Split
      <4> QED BY <2>2, <4>1, <4>2, <4>4
    <3> QED BY <3>2, <3>3
  <2>6. x \in Bytes /\ y \in Bytes /\ z = x \o y /\ Len(x) = f
    <3>1. f \in 0..Len(z)
      BY <2>4
    <3> QED BY <2>3, <2>4, <3>1, Split DEF Bytes
  <2>7. p = Append(a, x) /\ p \in Seq(Bytes) /\ Len(p) = n + 1 /\ p[n + 1] = x
    <3>1. p = Append(a, x)
      BY <2>1, <2>2, <2>3
    <3> QED BY <2>5, <2>6, <3>1, AppendProperties
  <2>8. After(rest, p) = <<y>> \o b
    <3>1. n + 1 # 0 /\ Len(x) # Len(z) /\ (n + 1) + 1 = n + 2
      BY <2>4, <2>6
    <3>2. After(rest, p) = <<SubSeq(z, Len(x) + 1, Len(z))>> \o SubSeq(rest, n + 2, Len(rest))
      BY <2>2, <2>7, <3>1 DEF After
    <3> QED BY <2>2, <2>3, <2>6, <3>2
  <2>9. <<y>> \in Seq(Bytes) /\ <<z>> \in Seq(Bytes) /\ <<y>> \o b \in Seq(Bytes) /\ <<z>> \o b \in Seq(Bytes)
    BY <2>4, <2>5, <2>6
  <2>10. Content(p) = Content(a) \o x
    <3>1. Content(Append(a, x)) = Content(a) \o x
      BY ONLY <2>5, <2>6, ContentAppend
    <3> QED BY <2>7, <3>1
  <2>11. Content(<<y>> \o b) = y \o Content(b) /\ Content(<<z>> \o b) = z \o Content(b)
    <3>1. Content(<<y>> \o b) = Content(<<y>>) \o Content(b)
      BY <2>5, <2>9, ContentConcat
    <3>2. Content(<<z>> \o b) = Content(<<z>>) \o Content(b)
      BY <2>5, <2>9, ContentConcat
    <3> QED BY <2>4, <2>6, <3>1, <3>2, ContentOne
  <2>12. Content(rest) = Content(a) \o (z \o Content(b))
    BY <2>5, <2>9, <2>11, ContentConcat
  <2>13. Content(a) \in Bytes /\ Content(b) \in Bytes
    BY <2>5, ContentBytes
  <2>14. y \o Content(b) \in Bytes /\ x \o (y \o Content(b)) = (x \o y) \o Content(b)
    <3>1. y \o Content(b) \in Bytes
      BY <2>6, <2>13, Joined DEF Bytes
    <3> QED BY <2>6, <2>13, <3>1, Associative
  <2>15. (Content(a) \o x) \o (y \o Content(b)) = Content(a) \o (x \o (y \o Content(b)))
    BY <2>6, <2>13, <2>14, Associative
  <2> QED BY <2>6, <2>7, <2>8, <2>9, <2>10, <2>11, <2>12, <2>14, <2>15
<1> QED BY <1>1, <1>2, <1>3
----------------------------------------------------------------------------
(* The inductive invariant *)

BlobStates == {"free", "open", "closed", "reading"}

Ops == {"none", "write", "read"}

Stages == {"none", "create", "put", "cancel", "open", "get", "skip", "close", "done"}

TypeOK ==
  /\ lazySend \in BOOLEAN
  /\ store \in [Blob -> [st : BlobStates, segs : Seq(Bytes), rest : Seq(Bytes)]]
  /\ call \in [op : Ops, stage : Stages, id : Blob \cup {None}, data : Bytes, todo : Bytes,
               err : BOOLEAN]
  /\ kept \subseteq Blob

\* The stages of the methods.
StageInv ==
  /\ call.op = "none" => call.stage = "none"
  /\ call.op = "write" => call.stage \in {"create", "put", "cancel", "close", "done"}
  /\ call.op = "read" => call.stage \in {"open", "get", "skip", "close", "done"}

IsWritten(segs, todo, data) == Content(segs) \o todo = data

IsRead(data, rest, segs) == data \o Content(rest) = Content(segs)

\* What is stored and what is still to be sent make up the data, unless a request
\* was refused.
WriteInv ==
  call.op = "write" =>
    /\ call.stage = "create" => call.id = None /\ ~call.err /\ call.todo = call.data
    /\ call.stage \in {"put", "cancel", "close"} /\ call.id # None => store[call.id].st = "open"
    /\ call.stage \in {"put", "close"} /\ ~call.err =>
         call.id # None /\ IsWritten(store[call.id].segs, call.todo, call.data)
    /\ call.stage \in {"put", "close"} /\ call.id = None => lazySend
    /\ call.stage = "close" => call.todo = <<>>
    /\ call.stage = "cancel" => call.id # None /\ call.err
    /\ call.stage = "done" /\ ~call.err =>
         /\ call.id # None /\ store[call.id].st = "closed"
         /\ Content(store[call.id].segs) = call.data

\* What was read and what is left make up the blob, unless a request was refused.
ReadInv ==
  call.op = "read" =>
    /\ call.id # None
    /\ call.stage = "open" => ~call.err /\ call.data = <<>> /\ store[call.id].st = "closed"
    /\ call.stage \in {"get", "close"} => store[call.id].st = "reading"
    /\ call.stage = "get" =>
         ~call.err /\ IsRead(call.data, store[call.id].rest, store[call.id].segs)
    /\ call.stage = "skip" => call.err
    /\ call.stage \in {"close", "done"} /\ ~call.err => call.data = Content(store[call.id].segs)

\* A blob is open only for the method in progress, or because it was kept.
OpenInv ==
  \A b \in Blob \ kept : store[b].st \in {"open", "reading"} =>
    /\ call.id = b
    /\ \/ call.op = "write" /\ call.stage \in {"put", "cancel", "close"}
       \/ call.op = "read" /\ call.stage \in {"get", "close"}

BlobInv == TypeOK /\ StageInv /\ WriteInv /\ ReadInv /\ OpenInv
----------------------------------------------------------------------------
(* The blobs of other programs, and the data that is cut into segments *)

IsUpTo(f, lens, n) == f = [i \in 0..n |-> IF i = 0 THEN 0 ELSE f[i - 1] + lens[i]]

LEMMA UpToExists ==
  ASSUME NEW lens, NEW n \in Nat
  PROVE  \E f : IsUpTo(f, lens, n)
<1> DEFINE T == {k \in Nat : ~ \E f : IsUpTo(f, lens, k)}
<1>1. SUFFICES ASSUME T # {} PROVE FALSE
  OBVIOUS
<1>2. PICK m \in T : \A k \in T : m <= k
  BY <1>1, LeastNat
<1>3. CASE m = 0
  <2>1. IsUpTo([i \in 0..0 |-> 0], lens, 0)
    BY DEF IsUpTo
  <2> QED BY <1>3, <2>1
<1>4. CASE m # 0
  <2>1. m - 1 \in Nat /\ m - 1 \notin T
    BY <1>2, <1>4
  <2>2. PICK f : IsUpTo(f, lens, m - 1)
    BY <2>1
  <2>3. IsUpTo([i \in 0..m |-> IF i = m THEN f[m - 1] + lens[m] ELSE f[i]], lens, m)
    BY <2>1, <2>2, <1>4 DEF IsUpTo
  <2> QED BY <2>3
<1> QED BY <1>3, <1>4

LEMMA NumberedBytes ==
  ASSUME NEW a \in Nat, NEW n \in Nat
  PROVE  [k \in 1..n |-> a + k] \in Bytes
BY DEF Bytes

LEMMA CutBytes ==
  ASSUME NEW lens \in Seq(Nat)
  PROVE  Cut(lens) \in Seq(Bytes)
<1> DEFINE f == CHOOSE f : f = [i \in 0..Len(lens) |-> IF i = 0 THEN 0 ELSE f[i - 1] + lens[i]]
<1>1. IsUpTo(f, lens, Len(lens))
  <2>0. Len(lens) \in Nat
    OBVIOUS
  <2>1. PICK g : IsUpTo(g, lens, Len(lens))
    BY <2>0, UpToExists, Zenon
  <2> QED BY <2>1 DEF IsUpTo
<1>2. Cut(lens) = [i \in DOMAIN lens |-> [k \in 1..lens[i] |-> f[i - 1] + k]]
  BY DEF Cut
<1> HIDE DEF f
<1> DEFINE T == {m \in 0..Len(lens) : f[m] \notin Nat}
<1>3. T = {}
  <2>1. SUFFICES ASSUME T # {} PROVE FALSE
    OBVIOUS
  <2>2. PICK m \in T : \A j \in T : m <= j
    <3> HIDE DEF T
    <3>1. T \in SUBSET Nat
      BY DEF T
    <3> QED BY <2>1, <3>1, LeastNat
  <2>3. CASE m = 0
    BY <1>1, <2>2, <2>3 DEF IsUpTo
  <2>4. CASE m # 0
    <3>1. m - 1 \in 0..Len(lens) /\ m - 1 \notin T
      BY <2>2, <2>4
    <3>2. f[m] = f[m - 1] + lens[m]
      BY <1>1, <2>4 DEF IsUpTo
    <3>3. lens[m] \in Nat /\ f[m - 1] \in Nat
      BY <2>4, <3>1
    <3> QED BY <2>2, <3>2, <3>3
  <2> QED BY <2>3, <2>4
<1>4. ASSUME NEW i \in 1..Len(lens) PROVE [k \in 1..lens[i] |-> f[i - 1] + k] \in Bytes
  <2>1. f[i - 1] \in Nat /\ lens[i] \in Nat
    BY <1>3
  <2> QED BY ONLY <2>1, NumberedBytes
<1>5. DOMAIN lens = 1..Len(lens) /\ Len(lens) \in Nat
  OBVIOUS
<1>6. PICK n \in Nat : n = Len(lens)
  BY <1>5
<1>7. [i \in 1..n |-> [k \in 1..lens[i] |-> f[i - 1] + k]] \in Seq(Bytes)
  <2>1. \A i \in 1..n : [k \in 1..lens[i] |-> f[i - 1] + k] \in Bytes
    BY <1>4, <1>6
  <2> QED BY ONLY <2>1, n \in Nat
<1> QED BY <1>2, <1>5, <1>6, <1>7

LEMMA ValueBytes ==
  ASSUME NEW n \in Nat
  PROVE  Value(n) \in Bytes
BY DEF Value, Bytes

\* The segment that is sent and the data that is left.
LEMMA SegmentOfData ==
  ASSUME NEW d \in Bytes
  PROVE  segment(d) \in Bytes /\ remaining(d) \in Bytes /\ segment(d) \o remaining(d) = d
<1>1. PICK k : k = IF Len(d) > maxSegment THEN maxSegment ELSE Len(d)
  OBVIOUS
<1>2. d \in Seq(Nat) /\ k \in 0..Len(d)
  BY <1>1, BlobAssumption DEF Bytes
<1>3. PICK s, r : s = SubSeq(d, 1, k) /\ r = SubSeq(d, k + 1, Len(d))
  OBVIOUS
<1>4. s \in Seq(Nat) /\ r \in Seq(Nat) /\ Len(s) = k /\ d = s \o r
  BY <1>2, <1>3, Split
<1>5. segment(d) = s
  BY <1>1, <1>3 DEF segment
<1>6. remaining(d) = r
  BY <1>3, <1>4, <1>5 DEF remaining
<1> QED BY <1>4, <1>5, <1>6 DEF Bytes

LEMMA NoneIsNoBlob == None \notin Blob
BY BlobAssumption

----------------------------------------------------------------------------
(* The initial states *)

LEMMA NoSegments == <<>> \in Seq(Bytes)
OBVIOUS

LEMMA FreeType == Free \in [st : BlobStates, segs : Seq(Bytes), rest : Seq(Bytes)]
BY DEF Free, BlobStates

LEMMA IdleType ==
  Idle \in [op : Ops, stage : Stages, id : Blob \cup {None}, data : Bytes, todo : Bytes, err : BOOLEAN]
BY DEF Idle, Ops, Stages, Bytes

LEMMA InitBlob == Init => BlobInv
<1> SUFFICES ASSUME Init PROVE BlobInv
  OBVIOUS
<1>1. PICK foreign \in [Blob -> Foreign \cup {None}] :
        store = [b \in Blob |-> IF foreign[b] = None THEN Free
                                ELSE [Free EXCEPT !.st = "closed", !.segs = Cut(foreign[b])]]
  BY DEF Init
<1>2. ASSUME NEW b \in Blob
      PROVE  /\ store[b] \in [st : BlobStates, segs : Seq(Bytes), rest : Seq(Bytes)]
             /\ store[b].st \in {"free", "closed"}
  <2>1. CASE foreign[b] = None
    BY <1>1, <2>1, FreeType DEF Free
  <2>2. CASE foreign[b] # None
    <3>1. foreign[b] \in Seq(Nat)
      BY <2>2, BlobAssumption
    <3>2. PICK c \in Seq(Bytes) : c = Cut(foreign[b])
      BY <3>1, CutBytes
    <3>3. store[b] = [st |-> "closed", segs |-> c, rest |-> <<>>]
      BY <1>1, <2>2, <3>2 DEF Free
    <3> QED BY <3>3 DEF BlobStates
  <2> QED BY <2>1, <2>2
<1>3. store \in [Blob -> [st : BlobStates, segs : Seq(Bytes), rest : Seq(Bytes)]]
  <2>1. store = [b \in Blob |-> store[b]]
    BY <1>1
  <2> QED BY <1>2, <2>1
<1>4. call = Idle /\ call.op = "none" /\ call.stage = "none"
  BY DEF Init, Idle
<1>5. TypeOK
  BY <1>3, <1>4, IdleType DEF Init, TypeOK
<1> QED BY <1>2, <1>4, <1>5 DEF BlobInv, StageInv, WriteInv, ReadInv, OpenInv
----------------------------------------------------------------------------
(* What is written and what is read, step by step *)

LEMMA WriteBegins ==
  ASSUME NEW d \in Bytes
  PROVE  IsWritten(<<>>, d, d)
<1>1. <<>> \o d = d
  BY DEF Bytes
<1> QED BY <1>1, ContentEmpty DEF IsWritten

LEMMA WriteGoesOn ==
  ASSUME NEW segs \in Seq(Bytes), NEW todo \in Bytes, NEW data \in Bytes, IsWritten(segs, todo, data)
  PROVE  IsWritten(Append(segs, segment(todo)), remaining(todo), data)
<1>1. PICK c \in Bytes, s \in Bytes, r \in Bytes :
        c = Content(segs) /\ s = segment(todo) /\ r = remaining(todo) /\ s \o r = todo
  BY ContentBytes, SegmentOfData
<1>2. Content(Append(segs, s)) = c \o s
  BY <1>1, ContentAppend
<1>3. (c \o s) \o r = c \o (s \o r)
  BY Associative
<1>4. c \o todo = data
  BY <1>1 DEF IsWritten
<1> QED BY ONLY <1>1, <1>2, <1>3, <1>4 DEF IsWritten

LEMMA WriteEnds ==
  ASSUME NEW segs \in Seq(Bytes), NEW data \in Bytes, IsWritten(segs, <<>>, data)
  PROVE  Content(segs) = data
<1>1. PICK c \in Bytes : c = Content(segs)
  BY ContentBytes
<1>2. c \o <<>> = c
  BY DEF Bytes
<1> QED BY <1>1, <1>2 DEF IsWritten

LEMMA ReadBegins ==
  ASSUME NEW segs \in Seq(Bytes)
  PROVE  IsRead(<<>>, segs, segs)
<1>1. PICK c \in Bytes : c = Content(segs)
  BY ContentBytes
<1>2. <<>> \o c = c
  BY DEF Bytes
<1> QED BY <1>1, <1>2 DEF IsRead

LEMMA ReadGoesOn ==
  ASSUME NEW segs \in Seq(Bytes), NEW rest \in Seq(Bytes), NEW data \in Bytes,
         IsRead(data, rest, segs), NEW p \in Pieces(rest)
  PROVE  /\ unpackSegments(data, Pack(p)) \in Bytes /\ After(rest, p) \in Seq(Bytes)
         /\ IsRead(unpackSegments(data, Pack(p)), After(rest, p), segs)
<1>1. p \in Seq(Bytes) /\ After(rest, p) \in Seq(Bytes) /\ Content(rest) = Content(p) \o Content(After(rest, p))
  BY Remainder
<1>2. unpackSegments(data, Pack(p)) = data \o Content(p)
  BY <1>1, UnpackPack
<1>3. PICK c \in Bytes, r \in Bytes : c = Content(p) /\ r = Content(After(rest, p))
  BY <1>1, ContentBytes
<1>4. (data \o c) \o r = data \o (c \o r)
  BY Associative
<1>5. data \o (c \o r) = Content(segs)
  BY <1>1, <1>3 DEF IsRead
<1>6. data \o c \in Bytes
  BY DEF Bytes
<1> QED BY ONLY <1>1, <1>2, <1>3, <1>4, <1>5, <1>6 DEF IsRead

LEMMA ReadEnds ==
  ASSUME NEW segs \in Seq(Bytes), NEW data \in Bytes, IsRead(data, <<>>, segs)
  PROVE  data = Content(segs)
<1>1. data \o <<>> = data
  BY DEF Bytes
<1> QED BY <1>1, ContentEmpty DEF IsRead
----------------------------------------------------------------------------
(* Every step preserves the invariant *)

LEMMA WriteBlobDataStep ==
  ASSUME BlobInv, NEW n \in 0..MaxLength, WriteBlobData(n)
  PROVE  BlobInv'
<1>1. PICK v \in Bytes : v = Value(n)
  <2>1. n \in Nat
    BY BlobAssumption
  <2> QED BY <2>1, ValueBytes
<1>2. /\ call' = [op |-> "write", stage |-> "create", id |-> None, data |-> v, todo |-> v, err |-> FALSE]
      /\ call.stage \in {"none", "done"} /\ UNCHANGED <<lazySend, store, kept>>
  BY <1>1 DEF WriteBlobData, Idle
<1>3. TypeOK'
  BY <1>2 DEF BlobInv, TypeOK, Ops, Stages
<1>4. OpenInv'
  BY <1>2 DEF BlobInv, OpenInv
<1> QED BY <1>2, <1>3, <1>4 DEF BlobInv, StageInv, WriteInv, ReadInv

LEMMA CreatedStep ==
  ASSUME BlobInv, created
  PROVE  BlobInv'
<1>1. /\ call.op = "write" /\ call.stage = "create" /\ UNCHANGED <<lazySend, kept>>
      /\ call.id = None /\ ~call.err /\ call.todo = call.data
  BY DEF created, At, BlobInv, WriteInv
<1>2. CASE \E b \in Blob :
          /\ store[b].st = "free"
          /\ store' = [store EXCEPT ![b] = [Free EXCEPT !.st = "open"]]
          /\ call' = nextPut([call EXCEPT !.id = b])
  <2>1. PICK b \in Blob :
          /\ store[b].st = "free"
          /\ store' = [store EXCEPT ![b] = [st |-> "open", segs |-> <<>>, rest |-> <<>>]]
          /\ call' = [call EXCEPT !.id = b, !.stage = IF call.todo = <<>> THEN "close" ELSE "put"]
    <3>1. PICK b \in Blob :
            /\ store[b].st = "free"
            /\ store' = [store EXCEPT ![b] = [Free EXCEPT !.st = "open"]]
            /\ call' = nextPut([call EXCEPT !.id = b])
      BY <1>2
    <3>2. [Free EXCEPT !.st = "open"] = [st |-> "open", segs |-> <<>>, rest |-> <<>>]
      BY DEF Free
    <3>3. nextPut([call EXCEPT !.id = b])
            = [call EXCEPT !.id = b, !.stage = IF call.todo = <<>> THEN "close" ELSE "put"]
      BY DEF nextPut, BlobInv, TypeOK
    <3> QED BY <3>1, <3>2, <3>3
  <2>2. /\ store'[b] = [st |-> "open", segs |-> <<>>, rest |-> <<>>]
        /\ \A c \in Blob \ {b} : store'[c] = store[c]
        /\ call'.op = "write" /\ call'.id = b /\ call'.todo = call.todo /\ call'.data = call.data
        /\ call'.err = call.err /\ call'.stage \in {"put", "close"}
        /\ call'.stage = "close" => call.todo = <<>>
    BY <1>1, <2>1 DEF BlobInv, TypeOK
  <2>3. TypeOK'
    <3>1. PICK f \in [st : BlobStates, segs : Seq(Bytes), rest : Seq(Bytes)] :
            f = [st |-> "open", segs |-> <<>>, rest |-> <<>>]
      <4>1. PICK e \in Seq(Bytes) : e = <<>>
        BY NoSegments, Zenon
      <4> QED BY <4>1 DEF BlobStates
    <3>2. PICK g \in Stages : g = IF call.todo = <<>> THEN "close" ELSE "put"
      BY DEF Stages
    <3>3. store' = [store EXCEPT ![b] = f] /\ call' = [call EXCEPT !.id = b, !.stage = g]
      BY <2>1, <3>1, <3>2
    <3> QED BY <1>1, <3>3 DEF BlobInv, TypeOK
  <2>4. WriteInv'
    <3>1. call.data \in Bytes
      BY DEF BlobInv, TypeOK
    <3>2. IsWritten(<<>>, call.data, call.data)
      BY <3>1, WriteBegins
    <3> QED BY <1>1, <2>2, <3>2, NoneIsNoBlob DEF WriteInv
  <2>5. OpenInv'
    BY <1>1, <2>2 DEF BlobInv, OpenInv
  <2> QED BY <2>2, <2>3, <2>4, <2>5 DEF BlobInv, StageInv, ReadInv
<1>3. CASE call' = fail(call, "done") /\ UNCHANGED store
  <2>1. /\ call'.op = "write" /\ call'.id = None /\ call'.err /\ call'.stage \in {"put", "close", "done"}
        /\ call'.stage \in {"put", "close"} => lazySend
        /\ call'.stage = "close" => call'.todo = <<>>
    BY <1>1, <1>3 DEF fail, nextPut, BlobInv, TypeOK
  <2>2. TypeOK'
    BY <1>1, <1>3 DEF BlobInv, TypeOK, Stages, fail, nextPut
  <2>3. OpenInv'
    BY <1>1, <1>3 DEF BlobInv, OpenInv
  <2> QED BY <1>1, <2>1, <2>2, <2>3 DEF BlobInv, StageInv, WriteInv, ReadInv
<1> QED BY <1>2, <1>3 DEF created

LEMMA PutStep ==
  ASSUME BlobInv, put
  PROVE  BlobInv'
<1>1. /\ call.op = "write" /\ call.stage = "put" /\ UNCHANGED <<lazySend, kept>>
      /\ call.id # None => store[call.id].st = "open"
      /\ ~call.err => call.id # None /\ IsWritten(store[call.id].segs, call.todo, call.data)
  BY DEF put, At, BlobInv, WriteInv
<1>2. PICK s \in Bytes, r \in Bytes : s = segment(call.todo) /\ r = remaining(call.todo)
  <2>1. call.todo \in Bytes
    BY DEF BlobInv, TypeOK
  <2> QED BY <2>1, SegmentOfData
<1>3. CASE /\ call.id # None
           /\ store' = [store EXCEPT ![call.id].segs = Append(@, segment(call.todo))]
           /\ call' = nextPut([call EXCEPT !.todo = remaining(call.todo)])
  <2>1. PICK b \in Blob : b = call.id
    BY <1>3 DEF BlobInv, TypeOK
  <2>2. /\ store' = [store EXCEPT ![b].segs = Append(@, s)]
        /\ call' = [call EXCEPT !.todo = r, !.stage = IF r = <<>> THEN "close" ELSE "put"]
    BY <1>2, <1>3, <2>1 DEF nextPut, BlobInv, TypeOK
  <2>3. /\ store'[b].st = "open" /\ store'[b].segs = Append(store[b].segs, s)
        /\ \A c \in Blob \ {b} : store'[c] = store[c]
        /\ call'.op = "write" /\ call'.id = b /\ call'.todo = r /\ call'.data = call.data
        /\ call'.err = call.err /\ call'.stage \in {"put", "close"}
        /\ call'.stage = "close" => r = <<>>
    <3>1. PICK w, g : w = Append(store[b].segs, s) /\ g = IF r = <<>> THEN "close" ELSE "put"
      OBVIOUS
    <3>2. store' = [store EXCEPT ![b].segs = w] /\ call' = [call EXCEPT !.todo = r, !.stage = g]
      BY <2>2, <3>1
    <3>3. g \in {"put", "close"} /\ (g = "close" => r = <<>>)
      BY <3>1
    <3>4. store'[b].st = "open" /\ store'[b].segs = w
      BY <1>1, <2>1, <3>2, NoneIsNoBlob DEF BlobInv, TypeOK
    <3> QED BY <1>1, <2>1, <3>1, <3>2, <3>3, <3>4 DEF BlobInv, TypeOK
  <2>4. TypeOK'
    <3>1. store[b].segs \in Seq(Bytes)
      BY DEF BlobInv, TypeOK
    <3>2. PICK w \in Seq(Bytes) : w = Append(store[b].segs, s)
      BY <3>1, AppendProperties
    <3>3. store' = [store EXCEPT ![b].segs = w]
      BY <2>2, <3>2
    <3>4. store' \in [Blob -> [st : BlobStates, segs : Seq(Bytes), rest : Seq(Bytes)]]
      BY <3>3 DEF BlobInv, TypeOK
    <3>5. PICK g \in Stages : g = IF r = <<>> THEN "close" ELSE "put"
      BY DEF Stages
    <3>6. call' = [call EXCEPT !.todo = r, !.stage = g]
      BY <2>2, <3>5
    <3>7. call' \in [op : Ops, stage : Stages, id : Blob \cup {None}, data : Bytes, todo : Bytes, err : BOOLEAN]
      BY <3>6 DEF BlobInv, TypeOK
    <3> QED BY <1>1, <3>4, <3>7 DEF BlobInv, TypeOK
  <2>5. WriteInv'
    <3>1. ASSUME ~call.err PROVE IsWritten(store'[b].segs, r, call.data)
      <4>1. store[b].segs \in Seq(Bytes) /\ call.todo \in Bytes /\ call.data \in Bytes
        BY DEF BlobInv, TypeOK
      <4>2. IsWritten(store[b].segs, call.todo, call.data)
        BY <1>1, <2>1, <3>1
      <4> QED BY <1>2, <2>3, <4>1, <4>2, WriteGoesOn
    <3> QED BY <1>1, <2>3, <3>1, NoneIsNoBlob DEF WriteInv
  <2>6. OpenInv'
    BY <1>1, <2>1, <2>3 DEF BlobInv, OpenInv
  <2> QED BY <2>3, <2>4, <2>5, <2>6 DEF BlobInv, StageInv, ReadInv
<1>4. CASE /\ call' = fail([call EXCEPT !.todo = remaining(call.todo)], "cancel")
           /\ Refused("put") \/ call.id = None
           /\ UNCHANGED store
  <2>1. call' = fail([call EXCEPT !.todo = r], "cancel")
    BY <1>2, <1>4
  <2>2. ~lazySend => call.id # None
    BY <1>1 DEF BlobInv, WriteInv
  <2>3. /\ call'.op = "write" /\ call'.id = call.id /\ call'.err
        /\ call'.stage \in {"put", "close", "cancel"}
        /\ call'.stage = "close" => call'.todo = <<>>
        /\ call'.stage = "cancel" => call.id # None
        /\ call'.stage \in {"put", "close"} => lazySend
    BY <1>1, <2>1, <2>2 DEF fail, nextPut, BlobInv, TypeOK
  <2>4. TypeOK'
    BY <1>1, <1>4, <2>1 DEF BlobInv, TypeOK, Stages, fail, nextPut
  <2>5. OpenInv'
    BY <1>1, <1>4, <2>3 DEF BlobInv, OpenInv
  <2>6. WriteInv'
    BY <1>1, <1>4, <2>3 DEF WriteInv
  <2> QED BY <2>3, <2>4, <2>5, <2>6 DEF BlobInv, StageInv, ReadInv
<1> QED BY <1>3, <1>4 DEF put

\* The blob of call is given back: forgotten or closed.
LEMMA Unopened ==
  ASSUME BlobInv, NEW b \in Blob, b = call.id, UNCHANGED <<lazySend, kept>>,
         store' \in [Blob -> [st : BlobStates, segs : Seq(Bytes), rest : Seq(Bytes)]],
         store'[b].st \in {"free", "closed"}, \A c \in Blob \ {b} : store'[c] = store[c]
  PROVE  OpenInv'
BY DEF BlobInv, OpenInv

\* The server keeps the blob of call.
LEMMA Kept ==
  ASSUME BlobInv, NEW b \in Blob, b = call.id, kept' = kept \cup {b}, UNCHANGED <<lazySend, store>>
  PROVE  OpenInv'
BY DEF BlobInv, OpenInv

LEMMA ForgetType ==
  ASSUME BlobInv, NEW b \in Blob, store' = forget(b)
  PROVE  /\ store' \in [Blob -> [st : BlobStates, segs : Seq(Bytes), rest : Seq(Bytes)]]
         /\ store'[b].st = "free" /\ \A c \in Blob \ {b} : store'[c] = store[c]
<1>1. PICK f \in [st : BlobStates, segs : Seq(Bytes), rest : Seq(Bytes)] : f = Free /\ f.st = "free"
  BY FreeType DEF Free
<1>2. store' = [store EXCEPT ![b] = f]
  BY <1>1 DEF forget
<1> QED BY <1>1, <1>2 DEF BlobInv, TypeOK

LEMMA CancelledStep ==
  ASSUME BlobInv, cancelled
  PROVE  BlobInv'
<1>1. /\ call.op = "write" /\ call.stage = "cancel" /\ UNCHANGED lazySend
      /\ call.id # None /\ call.err /\ call' = [call EXCEPT !.stage = "done"]
  BY DEF cancelled, At, Return, BlobInv, WriteInv
<1>2. PICK b \in Blob : b = call.id
  BY <1>1 DEF BlobInv, TypeOK
<1>3. call'.op = "write" /\ call'.stage = "done" /\ call'.err
  BY <1>1 DEF BlobInv, TypeOK
<1>4. CASE store' = forget(call.id) /\ UNCHANGED kept
  <2>1. /\ store' \in [Blob -> [st : BlobStates, segs : Seq(Bytes), rest : Seq(Bytes)]]
        /\ store'[b].st = "free" /\ \A c \in Blob \ {b} : store'[c] = store[c]
    BY <1>2, <1>4, ForgetType
  <2>2. OpenInv'
    BY <1>1, <1>2, <1>4, <2>1, Unopened
  <2>3. TypeOK'
    BY <1>1, <1>4, <2>1 DEF BlobInv, TypeOK, Stages
  <2> QED BY <1>3, <2>2, <2>3 DEF BlobInv, StageInv, WriteInv, ReadInv
<1>5. CASE kept' = kept \cup {call.id} /\ UNCHANGED store
  <2>1. OpenInv'
    BY <1>1, <1>2, <1>5, Kept
  <2>2. TypeOK'
    BY <1>1, <1>2, <1>5 DEF BlobInv, TypeOK, Stages
  <2> QED BY <1>3, <2>1, <2>2 DEF BlobInv, StageInv, WriteInv, ReadInv
<1> QED BY <1>4, <1>5 DEF cancelled

LEMMA ClosedWriteStep ==
  ASSUME BlobInv, closedWrite
  PROVE  BlobInv'
<1>1. /\ call.op = "write" /\ call.stage = "close" /\ UNCHANGED lazySend /\ call.todo = <<>>
      /\ ~call.err => call.id # None /\ IsWritten(store[call.id].segs, <<>>, call.data)
  BY DEF closedWrite, At, BlobInv, WriteInv
<1>2. CASE /\ call.id # None
           /\ store' = IF call.err THEN forget(call.id) ELSE [store EXCEPT ![call.id].st = "closed"]
           /\ call' = Return(call)
           /\ UNCHANGED kept
  <2>1. PICK b \in Blob : b = call.id
    BY <1>2 DEF BlobInv, TypeOK
  <2>2. /\ call' = [call EXCEPT !.stage = "done"] /\ call'.op = "write" /\ call'.stage = "done"
        /\ call'.err = call.err /\ call'.id = b /\ call'.data = call.data
    BY <1>1, <1>2, <2>1 DEF BlobInv, TypeOK, Return
  <2>3. CASE call.err
    <3>1. /\ store' \in [Blob -> [st : BlobStates, segs : Seq(Bytes), rest : Seq(Bytes)]]
          /\ store'[b].st = "free" /\ \A c \in Blob \ {b} : store'[c] = store[c]
      BY <1>2, <2>1, <2>3, ForgetType
    <3>2. OpenInv'
      BY <1>1, <1>2, <2>1, <3>1, Unopened
    <3>3. TypeOK'
      BY <1>1, <1>2, <2>2, <3>1 DEF BlobInv, TypeOK, Stages
    <3> QED BY <2>2, <2>3, <3>2, <3>3 DEF BlobInv, StageInv, WriteInv, ReadInv
  <2>4. CASE ~call.err
    <3>1. store' = [store EXCEPT ![b].st = "closed"]
      BY <1>2, <2>1, <2>4
    <3>2. /\ store' \in [Blob -> [st : BlobStates, segs : Seq(Bytes), rest : Seq(Bytes)]]
          /\ store'[b].st = "closed" /\ store'[b].segs = store[b].segs
          /\ \A c \in Blob \ {b} : store'[c] = store[c]
      BY <3>1 DEF BlobInv, TypeOK, BlobStates
    <3>3. OpenInv'
      BY <1>1, <1>2, <2>1, <3>2, Unopened
    <3>4. TypeOK'
      BY <1>1, <1>2, <2>2, <3>2 DEF BlobInv, TypeOK, Stages
    <3>5. Content(store[b].segs) = call.data
      <4>1. store[b].segs \in Seq(Bytes) /\ call.data \in Bytes
        BY DEF BlobInv, TypeOK
      <4>2. IsWritten(store[b].segs, <<>>, call.data)
        BY <1>1, <2>1, <2>4
      <4> QED BY <4>1, <4>2, WriteEnds
    <3>6. WriteInv'
      BY <2>2, <3>2, <3>5, NoneIsNoBlob DEF WriteInv
    <3> QED BY <2>2, <3>3, <3>4, <3>6 DEF BlobInv, StageInv, ReadInv
  <2> QED BY <2>3, <2>4
<1>3. CASE /\ call' = Return([call EXCEPT !.err = TRUE])
           /\ kept' = kept \cup ({call.id} \ {None})
           /\ UNCHANGED store
  <2>1. /\ call' = [call EXCEPT !.err = TRUE, !.stage = "done"]
        /\ call'.op = "write" /\ call'.stage = "done" /\ call'.err
    BY <1>1, <1>3 DEF BlobInv, TypeOK, Return
  <2>2. TypeOK'
    BY <1>1, <1>3, <2>1 DEF BlobInv, TypeOK, Stages
  <2>3. OpenInv'
    BY <1>3, NoneIsNoBlob DEF BlobInv, OpenInv
  <2> QED BY <2>1, <2>2, <2>3 DEF BlobInv, StageInv, WriteInv, ReadInv
<1> QED BY <1>2, <1>3 DEF closedWrite

LEMMA ReadBlobDataStep ==
  ASSUME BlobInv, NEW b \in Blob, ReadBlobData(b)
  PROVE  BlobInv'
<1>1. /\ call' = [op |-> "read", stage |-> "open", id |-> b, data |-> <<>>, todo |-> <<>>, err |-> FALSE]
      /\ call.stage \in {"none", "done"} /\ store[b].st = "closed" /\ UNCHANGED <<lazySend, store, kept>>
  BY DEF ReadBlobData, Idle
<1>2. TypeOK'
  BY <1>1 DEF BlobInv, TypeOK, Ops, Stages, Bytes
<1>3. OpenInv'
  BY <1>1 DEF BlobInv, OpenInv
<1> QED BY <1>1, <1>2, <1>3, NoneIsNoBlob DEF BlobInv, StageInv, WriteInv, ReadInv

LEMMA OpenedStep ==
  ASSUME BlobInv, opened
  PROVE  BlobInv'
<1>1. /\ call.op = "read" /\ call.stage = "open" /\ UNCHANGED <<lazySend, kept>> /\ call.id # None
      /\ ~call.err /\ call.data = <<>> /\ store[call.id].st = "closed"
  BY DEF opened, At, BlobInv, ReadInv
<1>2. PICK b \in Blob : b = call.id
  BY <1>1 DEF BlobInv, TypeOK
<1>3. CASE /\ store' = [store EXCEPT ![call.id].st = "reading", ![call.id].rest = store[call.id].segs]
           /\ call' = [call EXCEPT !.stage = "get"]
  <2>1. /\ store' = [store EXCEPT ![b].st = "reading", ![b].rest = store[b].segs]
        /\ call'.op = "read" /\ call'.stage = "get" /\ call'.id = b /\ ~call'.err /\ call'.data = <<>>
    BY <1>1, <1>2, <1>3 DEF BlobInv, TypeOK
  <2>2. /\ store' \in [Blob -> [st : BlobStates, segs : Seq(Bytes), rest : Seq(Bytes)]]
        /\ store'[b].st = "reading" /\ store'[b].segs = store[b].segs /\ store'[b].rest = store[b].segs
        /\ \A c \in Blob \ {b} : store'[c] = store[c]
    <3>1. PICK f \in [Blob -> [st : BlobStates, segs : Seq(Bytes), rest : Seq(Bytes)]] : f = store
      BY DEF BlobInv, TypeOK
    <3>2. PICK x \in [st : BlobStates, segs : Seq(Bytes), rest : Seq(Bytes)] :
            x = [f[b] EXCEPT !.st = "reading", !.rest = f[b].segs]
      BY DEF BlobStates
    <3>3. store' = [f EXCEPT ![b] = x]
      BY <2>1, <3>1, <3>2
    <3>4. x.st = "reading" /\ x.segs = f[b].segs /\ x.rest = f[b].segs
      BY <3>2
    <3>5. store'[b] = x /\ \A c \in Blob \ {b} : store'[c] = f[c]
      BY <3>3
    <3>6. store' \in [Blob -> [st : BlobStates, segs : Seq(Bytes), rest : Seq(Bytes)]]
      BY <3>3
    <3> QED BY <3>1, <3>4, <3>5, <3>6
  <2>3. TypeOK'
    <3>1. call' \in [op : Ops, stage : Stages, id : Blob \cup {None}, data : Bytes, todo : Bytes, err : BOOLEAN]
      BY <1>3 DEF BlobInv, TypeOK, Stages
    <3> QED BY <1>1, <2>2, <3>1 DEF BlobInv, TypeOK
  <2>4. OpenInv'
    BY <1>1, <1>2, <2>1, <2>2 DEF BlobInv, OpenInv
  <2>5. ReadInv'
    <3>1. store[b].segs \in Seq(Bytes)
      BY DEF BlobInv, TypeOK
    <3>2. IsRead(<<>>, store[b].segs, store[b].segs)
      BY <3>1, ReadBegins
    <3> QED BY <2>1, <2>2, <3>2, NoneIsNoBlob DEF ReadInv
  <2> QED BY <2>1, <2>3, <2>4, <2>5 DEF BlobInv, StageInv, WriteInv
<1>4. CASE /\ call' = [call EXCEPT !.err = TRUE, !.stage = IF lazySend THEN "skip" ELSE "done"]
           /\ UNCHANGED store
  <2>1. call'.op = "read" /\ call'.stage \in {"skip", "done"} /\ call'.id = call.id /\ call'.err
    BY <1>1, <1>4 DEF BlobInv, TypeOK
  <2>2. TypeOK'
    BY <1>1, <1>4 DEF BlobInv, TypeOK, Stages
  <2>3. OpenInv'
    BY <1>1, <1>4 DEF BlobInv, OpenInv
  <2> QED BY <1>1, <2>1, <2>2, <2>3 DEF BlobInv, StageInv, WriteInv, ReadInv
<1> QED BY <1>3, <1>4 DEF opened

LEMMA SkipStep ==
  ASSUME BlobInv, skip
  PROVE  BlobInv'
<1>1. /\ call.op = "read" /\ call.stage = "skip" /\ call.err /\ call.id # None
      /\ UNCHANGED <<lazySend, store, kept>> /\ call' = [call EXCEPT !.stage = "done"]
  BY DEF skip, At, Return, BlobInv, ReadInv
<1>2. call'.op = "read" /\ call'.stage = "done" /\ call'.id = call.id /\ call'.err
  BY <1>1 DEF BlobInv, TypeOK
<1>3. TypeOK'
  BY <1>1 DEF BlobInv, TypeOK, Stages
<1>4. OpenInv'
  BY <1>1 DEF BlobInv, OpenInv
<1> QED BY <1>1, <1>2, <1>3, <1>4 DEF BlobInv, StageInv, WriteInv, ReadInv

LEMMA GotStep ==
  ASSUME BlobInv, got
  PROVE  BlobInv'
<1>1. /\ call.op = "read" /\ call.stage = "get" /\ UNCHANGED <<lazySend, kept>> /\ call.id # None
      /\ store[call.id].st = "reading" /\ ~call.err
      /\ IsRead(call.data, store[call.id].rest, store[call.id].segs)
  BY DEF got, At, BlobInv, ReadInv
<1>2. PICK b \in Blob : b = call.id
  BY <1>1 DEF BlobInv, TypeOK
<1>3. ASSUME NEW p \in Pieces(store[call.id].rest), NEW eof \in BOOLEAN,
             eof => After(store[call.id].rest, p) = <<>>,
             store' = [store EXCEPT ![call.id].rest = After(@, p)],
             call' = [call EXCEPT !.data = unpackSegments(@, Pack(p)), !.stage = afterSegments(eof)]
      PROVE  BlobInv'
  <2>1. PICK rest, segs, data : rest = store[b].rest /\ segs = store[b].segs /\ data = call.data
    OBVIOUS
  <2>2. rest \in Seq(Bytes) /\ segs \in Seq(Bytes) /\ data \in Bytes
    BY <2>1 DEF BlobInv, TypeOK
  <2>3. p \in Pieces(rest) /\ IsRead(data, rest, segs) /\ (eof => After(rest, p) = <<>>)
    BY <1>1, <1>2, <1>3, <2>1
  <2>4. PICK d \in Bytes, a \in Seq(Bytes) :
          d = unpackSegments(data, Pack(p)) /\ a = After(rest, p) /\ IsRead(d, a, segs)
    BY <2>2, <2>3, ReadGoesOn
  <2>5. /\ store' = [store EXCEPT ![b].rest = a]
        /\ call' = [call EXCEPT !.data = d, !.stage = afterSegments(eof)]
    BY <1>2, <1>3, <2>1, <2>4
  <2>6. /\ store' \in [Blob -> [st : BlobStates, segs : Seq(Bytes), rest : Seq(Bytes)]]
        /\ store'[b].st = "reading" /\ store'[b].segs = segs /\ store'[b].rest = a
        /\ \A c \in Blob \ {b} : store'[c] = store[c]
    BY <1>1, <1>2, <2>1, <2>5 DEF BlobInv, TypeOK
  <2>7. /\ call'.op = "read" /\ call'.stage = afterSegments(eof) /\ call'.id = b /\ ~call'.err
        /\ call'.data = d /\ afterSegments(eof) \in {"get", "close"}
        /\ afterSegments(eof) = "close" => eof
    BY <1>1, <1>2, <2>5 DEF BlobInv, TypeOK, afterSegments
  <2>8. TypeOK'
    BY <1>1, <2>5, <2>6 DEF BlobInv, TypeOK, Stages, afterSegments
  <2>9. OpenInv'
    BY <1>1, <1>2, <2>6, <2>7 DEF BlobInv, OpenInv
  <2>10. eof => d = Content(segs)
    BY <2>2, <2>3, <2>4, ReadEnds
  <2>11. ReadInv'
    BY <2>4, <2>6, <2>7, <2>10, NoneIsNoBlob DEF ReadInv
  <2> QED BY <2>7, <2>8, <2>9, <2>11 DEF BlobInv, StageInv, WriteInv
<1>4. CASE call' = [call EXCEPT !.err = TRUE, !.stage = "close"] /\ UNCHANGED store
  <2>1. call'.op = "read" /\ call'.stage = "close" /\ call'.id = call.id /\ call'.err
    BY <1>1, <1>4 DEF BlobInv, TypeOK
  <2>2. TypeOK'
    BY <1>1, <1>4 DEF BlobInv, TypeOK, Stages
  <2>3. OpenInv'
    BY <1>1, <1>4, <2>1 DEF BlobInv, OpenInv
  <2> QED BY <1>1, <1>4, <2>1, <2>2, <2>3 DEF BlobInv, StageInv, WriteInv, ReadInv
<1> QED BY <1>3, <1>4 DEF got

LEMMA ClosedReadStep ==
  ASSUME BlobInv, closedRead
  PROVE  BlobInv'
<1>1. /\ call.op = "read" /\ call.stage = "close" /\ UNCHANGED lazySend /\ call.id # None
      /\ ~call.err => call.data = Content(store[call.id].segs)
  BY DEF closedRead, At, BlobInv, ReadInv
<1>2. PICK b \in Blob : b = call.id
  BY <1>1 DEF BlobInv, TypeOK
<1>3. CASE /\ store' = [store EXCEPT ![call.id].st = "closed", ![call.id].rest = <<>>]
           /\ call' = Return(call)
           /\ UNCHANGED kept
  <2>1. PICK e \in Seq(Bytes) : e = <<>>
    BY NoSegments, Zenon
  <2>2. store' = [store EXCEPT ![b].st = "closed", ![b].rest = e] /\ call' = [call EXCEPT !.stage = "done"]
    BY <1>2, <1>3, <2>1 DEF Return
  <2>3. /\ store' \in [Blob -> [st : BlobStates, segs : Seq(Bytes), rest : Seq(Bytes)]]
        /\ store'[b].st = "closed" /\ store'[b].segs = store[b].segs
        /\ \A c \in Blob \ {b} : store'[c] = store[c]
    BY <2>2 DEF BlobInv, TypeOK, BlobStates
  <2>4. /\ call'.op = "read" /\ call'.stage = "done" /\ call'.id = b /\ call'.err = call.err
        /\ call'.data = call.data
    BY <1>1, <1>2, <2>2 DEF BlobInv, TypeOK
  <2>5. OpenInv'
    BY <1>1, <1>2, <1>3, <2>3, Unopened
  <2>6. TypeOK'
    BY <1>1, <1>3, <2>2, <2>3 DEF BlobInv, TypeOK, Stages
  <2> QED BY <1>1, <1>2, <2>3, <2>4, <2>5, <2>6 DEF BlobInv, StageInv, WriteInv, ReadInv
<1>4. CASE /\ call' = Return([call EXCEPT !.err = TRUE])
           /\ kept' = kept \cup {call.id}
           /\ UNCHANGED store
  <2>1. /\ call' = [call EXCEPT !.err = TRUE, !.stage = "done"]
        /\ call'.op = "read" /\ call'.stage = "done" /\ call'.id = call.id /\ call'.err
    BY <1>1, <1>4 DEF BlobInv, TypeOK, Return
  <2>2. TypeOK'
    BY <1>1, <1>2, <1>4, <2>1 DEF BlobInv, TypeOK, Stages
  <2>3. OpenInv'
    BY <1>1, <1>2, <1>4, Kept
  <2> QED BY <1>1, <2>1, <2>2, <2>3 DEF BlobInv, StageInv, WriteInv, ReadInv
<1> QED BY <1>3, <1>4 DEF closedRead

----------------------------------------------------------------------------
(* The theorems *)

\* The invariant of the blob methods: types, the parts of a value that are stored
\* and still to be sent, the parts of a blob that were read and are left, and the
\* blobs that are open.
THEOREM BlobInvariant == Spec => []BlobInv
<1>1. BlobInv /\ [Next]_vars => BlobInv'
  <2> SUFFICES ASSUME BlobInv, [Next]_vars PROVE BlobInv'
    OBVIOUS
  <2>1. CASE UNCHANGED vars
    BY <2>1 DEF vars, BlobInv, TypeOK, StageInv, WriteInv, ReadInv, OpenInv
  <2>2. CASE Next
    BY <2>2, WriteBlobDataStep, ReadBlobDataStep, CreatedStep, PutStep, CancelledStep, ClosedWriteStep,
       OpenedStep, SkipStep, GotStep, ClosedReadStep DEF Next, Steps
  <2> QED BY <2>1, <2>2
<1> QED BY <1>1, InitBlob, PTL DEF Spec

\* WriteBlobData reports success only for a blob that holds exactly its argument,
\* for every length of the value and of a segment, pipelined or not.
THEOREM WritesAreWhole == Spec => []WrittenIsWhole
<1>1. BlobInv => WrittenIsWhole
  BY DEF BlobInv, WriteInv, WrittenIsWhole, Succeeded
<1> QED BY <1>1, BlobInvariant, PTL

\* ReadBlobData reports success only with the whole blob, for every division into
\* segments, every packing of the segments and every length of the buffer.
THEOREM ReadsAreWhole == Spec => []ReadIsWhole
<1>1. BlobInv => ReadIsWhole
  BY DEF BlobInv, ReadInv, ReadIsWhole, Succeeded
<1> QED BY <1>1, BlobInvariant, PTL

\* When a method has returned, only blobs that the server refused to close or to
\* cancel are open.
THEOREM BlobsAreClosed == Spec => []NoBlobLeftOpen
<1>1. BlobInv => NoBlobLeftOpen
  <2> SUFFICES ASSUME BlobInv, call.stage = "done", NEW b \in Blob \ kept
               PROVE  store[b].st \in {"free", "closed"}
    BY DEF NoBlobLeftOpen
  <2>1. store[b].st \in {"free", "open", "closed", "reading"}
    BY DEF BlobInv, TypeOK, BlobStates
  <2>2. store[b].st \notin {"open", "reading"}
    BY DEF BlobInv, OpenInv
  <2> QED BY <2>1, <2>2
<1> QED BY <1>1, BlobInvariant, PTL

=============================================================================
