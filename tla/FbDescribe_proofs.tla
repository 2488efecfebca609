------------------------- MODULE FbDescribe_proofs -------------------------
(***************************************************************************)
(* The descriptors of a statement are complete, wherever the server's      *)
(* buffer cuts the describe, and those of the cache are never out of date. *)
(* The proof follows the parser through the items of a section: after k of *)
(* them k \div 4 descriptors are done and one may be begun.                *)
(***************************************************************************)
EXTENDS FbDescribe, SequenceTheorems, WellFoundedInduction, TLAPS

----------------------------------------------------------------------------
(* Types *)

Descriptor == [typ : {"text", "blob", "zero"}, sub : Charset, fromNone : BOOLEAN]

StateType == [stmtType : StmtType \cup {None}, descs : [Section -> Seq(Descriptor)],
              num : [Section -> Nat], done : [Section -> Nat]]

ParserType == [st : StateType, list : Section, cur : Nat]

\* What the describe of a column says.
Raw(col) == [typ |-> col.typ, sub |-> col.sub, fromNone |-> FALSE]

LEMMA RawType == \A col \in Column : Raw(col) \in Descriptor
BY DEF Raw, Column, Descriptor, Charset

LEMMA ZeroType == Zero \in Descriptor
BY DEF Zero, Descriptor, Charset

Grown(g, list, n) ==
  /\ g \in Seq(Descriptor)
  /\ Len(g) = IF n > Len(list) THEN n ELSE Len(list)
  /\ \A i \in 1..Len(list) : g[i] = list[i]
  /\ \A i \in 1..Len(g) : i > Len(list) => g[i] = Zero

LEMMA GrowType ==
  ASSUME NEW list \in Seq(Descriptor), NEW n \in Nat
  PROVE  Grown(grow(list, n), list, n)
<1>1. PICK k : k = IF n > Len(list) THEN n - Len(list) ELSE 0
  OBVIOUS
<1>2. k \in Nat /\ (IF n > Len(list) THEN n ELSE Len(list)) = Len(list) + k
  BY <1>1
<1>3. PICK z : z = [i \in 1..k |-> Zero]
  OBVIOUS
<1>4. z \in Seq(Descriptor) /\ Len(z) = k /\ \A i \in 1..k : z[i] = Zero
  BY <1>2, <1>3, ZeroType
<1>5. grow(list, n) = list \o z
  BY <1>1, <1>3 DEF grow
<1>6. /\ list \o z \in Seq(Descriptor) /\ Len(list \o z) = Len(list) + Len(z)
      /\ \A i \in 1..Len(list) : (list \o z)[i] = list[i]
      /\ \A i \in Len(list) + 1..Len(list) + Len(z) : (list \o z)[i] = z[i - Len(list)]
  <2>1. list \o z \in Seq(Descriptor) /\ Len(list \o z) = Len(list) + Len(z)
    BY <1>4, ConcatProperties
  <2>2. ASSUME NEW i \in 1..Len(list) PROVE (list \o z)[i] = list[i]
    BY <1>4
  <2>3. ASSUME NEW i \in Len(list) + 1..Len(list) + Len(z) PROVE (list \o z)[i] = z[i - Len(list)]
    BY <1>4
  <2> QED BY <2>1, <2>2, <2>3
<1>7. Len(list) \in Nat
  OBVIOUS
<1>8. ASSUME NEW i \in 1..Len(list) + k, i > Len(list) PROVE (list \o z)[i] = Zero
  <2>1. i \in Len(list) + 1..Len(list) + Len(z) /\ i - Len(list) \in 1..k
    BY <1>2, <1>4, <1>7, <1>8
  <2> QED BY <1>4, <1>6, <2>1
<1> QED BY <1>2, <1>4, <1>5, <1>6, <1>8 DEF Grown

----------------------------------------------------------------------------
(* One item of the parser *)

LEMMA MarkerItem ==
  ASSUME NEW p \in ParserType, NEW s \in Section, NEW v
  PROVE  parseItem(p, Item(s, v)) = [st |-> p.st, list |-> s, cur |-> 0]
BY DEF parseItem, Item, Section, ParserType

LEMMA TypeItem ==
  ASSUME NEW p \in ParserType, NEW v
  PROVE  parseItem(p, Item("stmtType", v)) = [p EXCEPT !.st.stmtType = v]
BY DEF parseItem, Section, Item

LEMMA LastItem ==
  ASSUME NEW p \in ParserType, NEW tag \in {"infoEnd", "truncated"}, NEW v
  PROVE  parseItem(p, Item(tag, v)) = p
BY DEF parseItem, Item, Section

LEMMA CountItem ==
  ASSUME NEW p \in ParserType, NEW v \in 0..maxSQLDescribeColumns
  PROVE  parseItem(p, Item("count", v)) = [p EXCEPT !.st.num[p.list] = v]
BY DescribeAssumption DEF parseItem, Item, Section, describeCount

LEMMA SeqItem ==
  ASSUME NEW p \in ParserType, NEW v \in 1..maxSQLDescribeColumns, v <= p.st.num[p.list]
  PROVE  parseItem(p, Item("seq", v)) = [p EXCEPT !.cur = v, !.st.descs[p.list] = grow(@, v)]
<1>1. parseItem(p, Item("seq", v)) = descriptorSeq(p, v)
  BY DEF parseItem, Item, Section
<1>2. describeCount(v) = v /\ v # 0
  BY DescribeAssumption DEF describeCount
<1>3. p.st.num[p.list] \in Nat
  BY DEF ParserType, StateType
<1>4. ~(v = 0 \/ (p.st.num[p.list] > 0 /\ v > p.st.num[p.list]))
  BY <1>2, <1>3
<1> QED BY <1>1, <1>2, <1>4 DEF descriptorSeq

LEMMA ColumnTypeItem ==
  ASSUME NEW p \in ParserType, NEW v, p.cur # 0
  PROVE  parseItem(p, Item("type", v)) = [p EXCEPT !.st.descs[p.list][p.cur].typ = v]
BY DEF parseItem, Item, Section

LEMMA SubTypeItem ==
  ASSUME NEW p \in ParserType, NEW v, p.cur # 0
  PROVE  parseItem(p, Item("subType", v)) = [p EXCEPT !.st.descs[p.list][p.cur].sub = v]
BY DEF parseItem, Item, Section

LEMMA EndItem ==
  ASSUME NEW p \in ParserType, NEW v, p.cur # 0
  PROVE  parseItem(p, Item("end", v)) = [p EXCEPT !.cur = 0, !.st.done[p.list] = @ + 1]
BY DEF parseItem, Item, Section, descriptorEnd----------------------------------------------------------------------------
(* The items of one section *)

\* The parser is in section s after q descriptors and r items of the next one.
In(p, s, cols, q, r) ==
  /\ p \in ParserType
  /\ p.list = s /\ p.st.num[s] = Len(cols) /\ p.st.done[s] = q
  /\ Len(p.st.descs[s]) \in {q, q + 1} /\ Len(p.st.descs[s]) <= Len(cols)
  /\ \A j \in 1..q : p.st.descs[s][j] = Raw(cols[j])
  /\ \A j \in 1..Len(p.st.descs[s]) : p.st.descs[s][j].fromNone = FALSE
  /\ IF r = 0 THEN p.cur = 0 ELSE p.cur = q + 1 /\ Len(p.st.descs[s]) = q + 1
  /\ r > 1 => p.st.descs[s][q + 1].typ = cols[q + 1].typ
  /\ r > 2 => p.st.descs[s][q + 1].sub = cols[q + 1].sub

\* n and p are the same but for section s.
Others(n, p, s) ==
  /\ n.st.stmtType = p.st.stmtType
  /\ \A t \in Section \ {s} :
       n.st.descs[t] = p.st.descs[t] /\ n.st.num[t] = p.st.num[t] /\ n.st.done[t] = p.st.done[t]

\* The parser with other descriptors of its section.
With(p, c, d) == [p EXCEPT !.cur = c, !.st.descs[p.list] = d]

IsWith(n, p, s, c, d) ==
  /\ n \in ParserType /\ n.list = s /\ n.cur = c
  /\ n.st.descs[s] = d /\ n.st.num = p.st.num /\ n.st.done = p.st.done
  /\ Others(n, p, s)

LEMMA WithDescriptors ==
  ASSUME NEW p \in ParserType, NEW c \in Nat, NEW d \in Seq(Descriptor)
  PROVE  IsWith(With(p, c, d), p, p.list, c, d)
<1>0. PICK n : n = With(p, c, d)
  OBVIOUS
<1>1. PICK ds : ds = [p.st.descs EXCEPT ![p.list] = d]
  OBVIOUS
<1>2. p.list \in Section /\ p.st \in StateType /\ p.st.descs \in [Section -> Seq(Descriptor)]
  BY DEF ParserType, StateType
<1>3. ds \in [Section -> Seq(Descriptor)] /\ ds[p.list] = d /\ \A t \in Section \ {p.list} : ds[t] = p.st.descs[t]
  BY <1>1, <1>2
<1>4. PICK st : st = [p.st EXCEPT !.descs = ds]
  OBVIOUS
<1>5. /\ st \in StateType /\ st.descs = ds /\ st.num = p.st.num /\ st.done = p.st.done
      /\ st.stmtType = p.st.stmtType
  BY <1>2, <1>3, <1>4 DEF StateType
<1>6. n = [p EXCEPT !.cur = c, !.st = st]
  BY <1>0, <1>1, <1>4 DEF With
<1>7. n \in ParserType /\ n.list = p.list /\ n.cur = c /\ n.st = st
  BY <1>5, <1>6 DEF ParserType
<1> QED BY <1>0, <1>3, <1>5, <1>7 DEF Others, IsWith

LEMMA SeqStep ==
  ASSUME NEW p, NEW s \in Section, NEW cols \in Seq(Column), Len(cols) <= maxSQLDescribeColumns,
         NEW q \in Nat, q < Len(cols), In(p, s, cols, q, 0)
  PROVE  /\ In(parseItem(p, Item("seq", q + 1)), s, cols, q, 1)
         /\ Others(parseItem(p, Item("seq", q + 1)), p, s)
<1>1. PICK n : n = parseItem(p, Item("seq", q + 1))
  OBVIOUS
<1>2. p \in ParserType /\ p.list = s /\ p.st.num[s] = Len(cols) /\ p.st.done[s] = q
  BY DEF In
<1>3. PICK l : l = p.st.descs[s]
  OBVIOUS
<1>4. l \in Seq(Descriptor) /\ Len(l) \in {q, q + 1}
  BY <1>2, <1>3 DEF In, ParserType, StateType
<1>5. PICK d \in Seq(Descriptor) :
        /\ d = grow(l, q + 1) /\ Len(d) = q + 1 /\ \A i \in 1..Len(l) : d[i] = l[i]
        /\ \A i \in 1..Len(d) : i > Len(l) => d[i] = Zero
  <2>1. q + 1 \in Nat /\ Len(l) \in Nat /\ (IF q + 1 > Len(l) THEN q + 1 ELSE Len(l)) = q + 1
    BY <1>4
  <2>2. Grown(grow(l, q + 1), l, q + 1)
    BY <1>4, <2>1, GrowType
  <2> QED BY <2>1, <2>2 DEF Grown
<1>6. n = [p EXCEPT !.cur = q + 1, !.st.descs[p.list] = d]
  <2>1. q + 1 \in 1..maxSQLDescribeColumns /\ q + 1 <= p.st.num[p.list] /\ Len(cols) \in Nat
    BY <1>2, DescribeAssumption
  <2>2. n = [p EXCEPT !.cur = q + 1, !.st.descs[p.list] = grow(@, q + 1)]
    BY <1>1, <1>2, <2>1, SeqItem
  <2>3. p.st.descs[p.list] = l
    BY <1>2, <1>3
  <2> QED BY <1>5, <2>2, <2>3
<1>7. /\ n \in ParserType /\ n.list = s /\ n.cur = q + 1
      /\ n.st.descs[s] = d /\ n.st.num = p.st.num /\ n.st.done = p.st.done
      /\ Others(n, p, s)
  <2>1. q + 1 \in Nat
    OBVIOUS
  <2>2. IsWith(With(p, q + 1, d), p, s, q + 1, d)
    BY <1>2, <1>5, <2>1, WithDescriptors
  <2> QED BY <1>6, <2>2 DEF With, IsWith
<1>8. \A j \in 1..q : d[j] = Raw(cols[j])
  <2>1. \A j \in 1..q : l[j] = Raw(cols[j]) /\ j \in 1..Len(l)
    BY <1>3, <1>4 DEF In
  <2> QED BY <1>5, <2>1
<1>9. \A j \in 1..Len(d) : d[j].fromNone = FALSE
  <2>1. \A j \in 1..Len(l) : l[j].fromNone = FALSE
    BY <1>3 DEF In
  <2>2. Zero.fromNone = FALSE
    BY DEF Zero
  <2>3. ASSUME NEW j \in 1..Len(d) PROVE j \in 1..Len(l) \/ j > Len(l)
    BY <1>4
  <2> QED BY <1>5, <2>1, <2>2, <2>3
<1>10. Len(d) \in {q, q + 1} /\ Len(d) <= Len(cols) /\ ~(1 = 0) /\ ~(1 > 1) /\ ~(1 > 2)
  BY <1>5
<1>11. In(n, s, cols, q, 1)
  BY <1>2, <1>5, <1>7, <1>8, <1>9, <1>10 DEF In
<1> QED BY <1>1, <1>7, <1>11

LEMMA ColumnTypes ==
  ASSUME NEW cols \in Seq(Column), NEW i \in 1..Len(cols)
  PROVE  cols[i].typ \in {"text", "blob", "zero"} /\ cols[i].sub \in Charset
<1>1. cols[i] \in Column
  OBVIOUS
<1> QED BY <1>1 DEF Column, Charset

LEMMA ColumnTypeStep ==
  ASSUME NEW p, NEW s \in Section, NEW cols \in Seq(Column),
         NEW q \in Nat, q < Len(cols), In(p, s, cols, q, 1)
  PROVE  /\ In(parseItem(p, Item("type", cols[q + 1].typ)), s, cols, q, 2)
         /\ Others(parseItem(p, Item("type", cols[q + 1].typ)), p, s)
<1>1. PICK v \in {"text", "blob", "zero"} : v = cols[q + 1].typ
  <2>1. q + 1 \in 1..Len(cols)
    OBVIOUS
  <2> QED BY <2>1, ColumnTypes
<1>2. PICK n : n = parseItem(p, Item("type", v))
  OBVIOUS
<1>3. p \in ParserType /\ p.list = s /\ p.st.num[s] = Len(cols) /\ p.st.done[s] = q /\ p.cur = q + 1
  BY DEF In
<1>4. PICK l : l = p.st.descs[s]
  OBVIOUS
<1>5. /\ l \in Seq(Descriptor) /\ Len(l) = q + 1 /\ Len(l) <= Len(cols)
      /\ \A j \in 1..q : l[j] = Raw(cols[j])
      /\ \A j \in 1..Len(l) : l[j].fromNone = FALSE
  BY <1>3, <1>4 DEF In, ParserType, StateType
<1>6. PICK d : d = [l EXCEPT ![q + 1].typ = v]
  OBVIOUS
<1>7. /\ d \in Seq(Descriptor) /\ Len(d) = q + 1 /\ (\A i \in 1..q : d[i] = l[i])
      /\ d[q + 1].typ = v /\ d[q + 1].fromNone = l[q + 1].fromNone
  <2>1. q + 1 \in 1..Len(l) /\ l[q + 1] \in Descriptor
    BY <1>5
  <2>2. PICK e : e = [l[q + 1] EXCEPT !.typ = v]
    OBVIOUS
  <2>3. e \in Descriptor /\ e.typ = v /\ e.fromNone = l[q + 1].fromNone
    BY <2>1, <2>2 DEF Descriptor
  <2>4. d = [l EXCEPT ![q + 1] = e]
    BY <1>6, <2>2
  <2> QED BY <1>5, <2>1, <2>3, <2>4
<1>8. n = [p EXCEPT !.cur = q + 1, !.st.descs[p.list] = d]
  <2>1. n = [p EXCEPT !.st.descs[p.list][p.cur].typ = v]
    <3>1. p.cur # 0
      BY <1>3
    <3> QED BY <1>2, <1>3, <3>1, ColumnTypeItem
  <2>2. [p EXCEPT !.cur = q + 1, !.st.descs[p.list] = d] = [p EXCEPT !.st.descs[p.list] = d]
    BY <1>3 DEF ParserType
  <2> QED BY <1>3, <1>4, <1>6, <2>1, <2>2
<1>9. /\ n \in ParserType /\ n.list = s /\ n.cur = q + 1
      /\ n.st.descs[s] = d /\ n.st.num = p.st.num /\ n.st.done = p.st.done
      /\ Others(n, p, s)
  <2>1. q + 1 \in Nat
    OBVIOUS
  <2>2. IsWith(With(p, q + 1, d), p, s, q + 1, d)
    BY <1>3, <1>7, <2>1, WithDescriptors
  <2> QED BY <1>8, <2>2 DEF With, IsWith
<1>10. /\ \A j \in 1..q : d[j] = Raw(cols[j])
       /\ \A j \in 1..Len(d) : d[j].fromNone = FALSE
  BY <1>5, <1>7
<1>11. Len(d) \in {q, q + 1} /\ Len(d) <= Len(cols) /\ 2 # 0 /\ ~(2 > 2)
  BY <1>5, <1>7
<1>12. In(n, s, cols, q, 2)
  BY <1>1, <1>3, <1>7, <1>9, <1>10, <1>11 DEF In
<1> QED BY <1>1, <1>2, <1>9, <1>12

LEMMA SubTypeStep ==
  ASSUME NEW p, NEW s \in Section, NEW cols \in Seq(Column),
         NEW q \in Nat, q < Len(cols), In(p, s, cols, q, 2)
  PROVE  /\ In(parseItem(p, Item("subType", cols[q + 1].sub)), s, cols, q, 3)
         /\ Others(parseItem(p, Item("subType", cols[q + 1].sub)), p, s)
<1>1. PICK v \in Charset : v = cols[q + 1].sub
  <2>1. q + 1 \in 1..Len(cols)
    OBVIOUS
  <2> QED BY <2>1, ColumnTypes
<1>2. PICK n : n = parseItem(p, Item("subType", v))
  OBVIOUS
<1>3. p \in ParserType /\ p.list = s /\ p.st.num[s] = Len(cols) /\ p.st.done[s] = q /\ p.cur = q + 1
  BY DEF In
<1>4. PICK l : l = p.st.descs[s]
  OBVIOUS
<1>5. /\ l \in Seq(Descriptor) /\ Len(l) = q + 1 /\ Len(l) <= Len(cols)
      /\ \A j \in 1..q : l[j] = Raw(cols[j])
      /\ \A j \in 1..Len(l) : l[j].fromNone = FALSE
      /\ l[q + 1].typ = cols[q + 1].typ
  <2>1. 2 > 1 /\ 2 # 0
    OBVIOUS
  <2> QED BY <1>3, <1>4, <2>1 DEF In, ParserType, StateType
<1>6. PICK d : d = [l EXCEPT ![q + 1].sub = v]
  OBVIOUS
<1>7. /\ d \in Seq(Descriptor) /\ Len(d) = q + 1 /\ (\A i \in 1..q : d[i] = l[i])
      /\ d[q + 1].sub = v /\ d[q + 1].fromNone = l[q + 1].fromNone /\ d[q + 1].typ = l[q + 1].typ
  <2>1. q + 1 \in 1..Len(l) /\ l[q + 1] \in Descriptor
    BY <1>5
  <2>2. PICK e : e = [l[q + 1] EXCEPT !.sub = v]
    OBVIOUS
  <2>3. e \in Descriptor /\ e.sub = v /\ e.fromNone = l[q + 1].fromNone /\ e.typ = l[q + 1].typ
    BY <2>1, <2>2 DEF Descriptor
  <2>4. d = [l EXCEPT ![q + 1] = e]
    BY <1>6, <2>2
  <2> QED BY <1>5, <2>1, <2>3, <2>4
<1>8. n = [p EXCEPT !.cur = q + 1, !.st.descs[p.list] = d]
  <2>1. n = [p EXCEPT !.st.descs[p.list][p.cur].sub = v]
    <3>1. p.cur # 0
      BY <1>3
    <3> QED BY <1>2, <1>3, <3>1, SubTypeItem
  <2>2. [p EXCEPT !.cur = q + 1, !.st.descs[p.list] = d] = [p EXCEPT !.st.descs[p.list] = d]
    BY <1>3 DEF ParserType
  <2> QED BY <1>3, <1>4, <1>6, <2>1, <2>2
<1>9. /\ n \in ParserType /\ n.list = s /\ n.cur = q + 1
      /\ n.st.descs[s] = d /\ n.st.num = p.st.num /\ n.st.done = p.st.done
      /\ Others(n, p, s)
  <2>1. q + 1 \in Nat
    OBVIOUS
  <2>2. IsWith(With(p, q + 1, d), p, s, q + 1, d)
    BY <1>3, <1>7, <2>1, WithDescriptors
  <2> QED BY <1>8, <2>2 DEF With, IsWith
<1>10. /\ \A j \in 1..q : d[j] = Raw(cols[j])
       /\ \A j \in 1..Len(d) : d[j].fromNone = FALSE
  BY <1>5, <1>7
<1>11. Len(d) \in {q, q + 1} /\ Len(d) <= Len(cols) /\ 3 # 0
  BY <1>5, <1>7
<1>12. In(n, s, cols, q, 3)
  BY <1>1, <1>3, <1>5, <1>7, <1>9, <1>10, <1>11 DEF In
<1> QED BY <1>1, <1>2, <1>9, <1>12

LEMMA EndStep ==
  ASSUME NEW p, NEW s \in Section, NEW cols \in Seq(Column),
         NEW q \in Nat, q < Len(cols), In(p, s, cols, q, 3), NEW v
  PROVE  /\ In(parseItem(p, Item("end", v)), s, cols, q + 1, 0)
         /\ Others(parseItem(p, Item("end", v)), p, s)
<1>1. PICK n : n = parseItem(p, Item("end", v))
  OBVIOUS
<1>2. p \in ParserType /\ p.list = s /\ p.st.num[s] = Len(cols) /\ p.st.done[s] = q /\ p.cur = q + 1
  BY DEF In
<1>3. PICK l : l = p.st.descs[s]
  OBVIOUS
<1>4. /\ l \in Seq(Descriptor) /\ Len(l) = q + 1 /\ Len(l) <= Len(cols)
      /\ \A j \in 1..q : l[j] = Raw(cols[j])
      /\ \A j \in 1..Len(l) : l[j].fromNone = FALSE
      /\ l[q + 1].typ = cols[q + 1].typ /\ l[q + 1].sub = cols[q + 1].sub
  <2>1. 3 > 1 /\ 3 > 2 /\ 3 # 0
    OBVIOUS
  <2> QED BY <1>2, <1>3, <2>1 DEF In, ParserType, StateType
<1>5. l[q + 1] = Raw(cols[q + 1])
  <2>1. q + 1 \in 1..Len(l) /\ l[q + 1] \in Descriptor /\ l[q + 1].fromNone = FALSE
    BY <1>4
  <2> QED BY <1>4, <2>1 DEF Raw, Descriptor
<1>6. n = [p EXCEPT !.cur = 0, !.st.done[p.list] = @ + 1]
  <2>1. p.cur # 0
    BY <1>2
  <2> QED BY <1>1, <1>2, <2>1, EndItem
<1>7. PICK ds : ds = [p.st.done EXCEPT ![s] = q + 1]
  OBVIOUS
<1>8. p.st \in StateType /\ p.st.done \in [Section -> Nat]
  BY <1>2 DEF ParserType, StateType
<1>9. ds \in [Section -> Nat] /\ ds[s] = q + 1 /\ \A t \in Section \ {s} : ds[t] = p.st.done[t]
  BY <1>7, <1>8
<1>10. PICK st : st = [p.st EXCEPT !.done = ds]
  OBVIOUS
<1>11. /\ st \in StateType /\ st.descs = p.st.descs /\ st.num = p.st.num /\ st.done = ds
       /\ st.stmtType = p.st.stmtType
  BY <1>8, <1>9, <1>10 DEF StateType
<1>12. n = [p EXCEPT !.cur = 0, !.st = st]
  BY <1>2, <1>6, <1>7, <1>10
<1>13. n \in ParserType /\ n.list = s /\ n.cur = 0 /\ n.st = st
  BY <1>2, <1>11, <1>12 DEF ParserType
<1>14. Others(n, p, s)
  BY <1>9, <1>11, <1>13 DEF Others
<1>15. \A j \in 1..q + 1 : l[j] = Raw(cols[j])
  BY <1>4, <1>5
<1>16. Len(l) \in {q + 1, (q + 1) + 1} /\ 0 = 0 /\ ~(0 > 1) /\ ~(0 > 2)
  BY <1>4
<1>17. In(n, s, cols, q + 1, 0)
  BY <1>2, <1>3, <1>4, <1>9, <1>11, <1>13, <1>15, <1>16 DEF In
<1> QED BY <1>1, <1>14, <1>17

\* What is known of section s between two buffers: the descriptors that are done,
\* and perhaps a part of the next one.
Has(st, s, cols) ==
  /\ st \in StateType
  /\ st.done[s] <= Len(cols) /\ st.num[s] \in {0, Len(cols)}
  /\ Len(st.descs[s]) \in {st.done[s], st.done[s] + 1} /\ Len(st.descs[s]) <= Len(cols)
  /\ \A j \in 1..st.done[s] : st.descs[s][j] = Raw(cols[j])
  /\ \A j \in 1..Len(st.descs[s]) : st.descs[s][j].fromNone = FALSE

\* The marker and the count of a section.
LEMMA SectionBegins ==
  ASSUME NEW p \in ParserType, NEW s \in Section, NEW cols \in Seq(Column),
         Len(cols) <= maxSQLDescribeColumns, Has(p.st, s, cols), NEW v
  PROVE  /\ parseItem(p, Item(s, v)) \in ParserType /\ parseItem(p, Item(s, v)).st = p.st
         /\ In(parseItem(parseItem(p, Item(s, v)), Item("count", Len(cols))), s, cols, p.st.done[s], 0)
         /\ Others(parseItem(parseItem(p, Item(s, v)), Item("count", Len(cols))), p, s)
<1>1. PICK m : m = parseItem(p, Item(s, v))
  OBVIOUS
<1>2. m = [st |-> p.st, list |-> s, cur |-> 0]
  BY <1>1, MarkerItem
<1>3. m \in ParserType /\ m.st = p.st /\ m.list = s /\ m.cur = 0
  BY <1>2 DEF ParserType
<1>4. PICK n : n = parseItem(m, Item("count", Len(cols)))
  OBVIOUS
<1>5. n = [m EXCEPT !.st.num[m.list] = Len(cols)]
  <2>1. Len(cols) \in 0..maxSQLDescribeColumns
    BY DescribeAssumption
  <2> QED BY <1>3, <1>4, <2>1, CountItem
<1>6. PICK ns : ns = [p.st.num EXCEPT ![s] = Len(cols)]
  OBVIOUS
<1>7. p.st \in StateType /\ p.st.num \in [Section -> Nat] /\ Len(cols) \in Nat
  BY DEF ParserType, StateType
<1>8. ns \in [Section -> Nat] /\ ns[s] = Len(cols) /\ \A t \in Section \ {s} : ns[t] = p.st.num[t]
  BY <1>6, <1>7
<1>9. PICK st : st = [p.st EXCEPT !.num = ns]
  OBVIOUS
<1>10. /\ st \in StateType /\ st.descs = p.st.descs /\ st.num = ns /\ st.done = p.st.done
       /\ st.stmtType = p.st.stmtType
  BY <1>7, <1>8, <1>9 DEF StateType
<1>11. n = [m EXCEPT !.st = st]
  BY <1>3, <1>5, <1>6, <1>9
<1>12. n \in ParserType /\ n.list = s /\ n.cur = 0 /\ n.st = st
  BY <1>3, <1>10, <1>11 DEF ParserType
<1>13. Others(n, p, s)
  BY <1>8, <1>10, <1>12 DEF Others
<1>14. In(n, s, cols, p.st.done[s], 0)
  <2>1. 0 = 0 /\ ~(0 > 1) /\ ~(0 > 2)
    OBVIOUS
  <2> QED BY <1>8, <1>10, <1>12, <2>1 DEF In, Has
<1> QED BY <1>1, <1>3, <1>4, <1>13, <1>14

LEMMA InHas ==
  ASSUME NEW p, NEW s \in Section, NEW cols \in Seq(Column), NEW q \in 0..Len(cols), NEW r, In(p, s, cols, q, r)
  PROVE  p \in ParserType /\ Has(p.st, s, cols) /\ p.st.done[s] = q
<1>1. p \in ParserType /\ p.st \in StateType
  BY DEF In, ParserType
<1> QED BY <1>1 DEF In, Has

\* A section of which everything is done.
LEMMA HasAll ==
  ASSUME NEW st, NEW s \in Section, NEW cols \in Seq(Column), Has(st, s, cols), st.done[s] = Len(cols)
  PROVE  /\ st.descs[s] \in Seq(Descriptor) /\ Len(st.descs[s]) = Len(cols)
         /\ \A j \in 1..Len(cols) : st.descs[s][j] = Raw(cols[j])
<1>1. Len(cols) \in Nat /\ st.descs[s] \in Seq(Descriptor)
  BY DEF Has, StateType
<1> QED BY <1>1 DEF Has

\* Another section is not touched.
LEMMA HasOther ==
  ASSUME NEW n \in ParserType, NEW p \in ParserType, NEW s \in Section, NEW t \in Section, t # s, NEW cols,
         Others(n, p, s), Has(p.st, t, cols)
  PROVE  Has(n.st, t, cols) /\ n.st.done[t] = p.st.done[t] /\ n.st.stmtType = p.st.stmtType
<1>1. n.st \in StateType
  BY DEF ParserType
<1> QED BY <1>1 DEF Others, Has

LEMMA OthersTransitive ==
  ASSUME NEW n, NEW m, NEW p, NEW s, Others(n, m, s), Others(m, p, s)
  PROVE  Others(n, p, s)
BY DEF Others

----------------------------------------------------------------------------
(* All items of one section *)

\* The k-th item after the count of a section, if d descriptors were done before.
ColumnItem(cols, d, k) ==
  LET i == (d + 1) + (k - 1) \div 4
  IN CASE k % 4 = 1 -> Item("seq", i)
       [] k % 4 = 2 -> Item("type", cols[i].typ)
       [] k % 4 = 3 -> Item("subType", cols[i].sub)
       [] OTHER     -> Item("end", 0)

LEMMA FourItems ==
  ASSUME NEW k \in Nat
  PROVE  /\ k \div 4 \in Nat /\ k % 4 \in 0..3 /\ k = 4 * (k \div 4) + (k % 4)
         /\ k % 4 # 3 => (k + 1) \div 4 = k \div 4 /\ (k + 1) % 4 = (k % 4) + 1
         /\ k % 4 = 3 => (k + 1) \div 4 = k \div 4 + 1 /\ (k + 1) % 4 = 0
OBVIOUS

LEMMA ItemsLeft ==
  ASSUME NEW d \in Nat, NEW l \in Nat, d <= l
  PROVE  /\ l - d \in Nat /\ 4 * (l - d) \in Nat /\ d + (4 * (l - d)) \div 4 = l
         /\ \A k \in 0..4 * (l - d) : d + k \div 4 \in 0..l
OBVIOUS

LEMMA WalkStep ==
  ASSUME NEW p, NEW s \in Section, NEW cols \in Seq(Column), Len(cols) <= maxSQLDescribeColumns,
         NEW d \in Nat, NEW k \in Nat, k < 4 * (Len(cols) - d),
         In(p, s, cols, d + k \div 4, k % 4)
  PROVE  /\ In(parseItem(p, ColumnItem(cols, d, k + 1)), s, cols, d + (k + 1) \div 4, (k + 1) % 4)
         /\ Others(parseItem(p, ColumnItem(cols, d, k + 1)), p, s)
<1>1. PICK q, r : q = d + k \div 4 /\ r = k % 4
  OBVIOUS
<1>2. /\ q \in Nat /\ r \in 0..3 /\ q < Len(cols) /\ In(p, s, cols, q, r)
      /\ r # 3 => d + (k + 1) \div 4 = q /\ (k + 1) % 4 = r + 1
      /\ r = 3 => d + (k + 1) \div 4 = q + 1 /\ (k + 1) % 4 = 0
  <2>1. Len(cols) \in Nat
    OBVIOUS
  <2> QED BY <1>1, <2>1, FourItems
<1>3. (k + 1) - 1 = k /\ (d + 1) + k \div 4 = q + 1
  BY <1>1, FourItems
<1>4. ColumnItem(cols, d, k + 1) =
        CASE (k + 1) % 4 = 1 -> Item("seq", q + 1)
          [] (k + 1) % 4 = 2 -> Item("type", cols[q + 1].typ)
          [] (k + 1) % 4 = 3 -> Item("subType", cols[q + 1].sub)
          [] OTHER           -> Item("end", 0)
  BY <1>3 DEF ColumnItem
<1>5. CASE r = 0
  <2>1. (k + 1) % 4 = 1 /\ d + (k + 1) \div 4 = q /\ In(p, s, cols, q, 0)
    BY <1>2, <1>5
  <2>2. ColumnItem(cols, d, k + 1) = Item("seq", q + 1)
    <3>1. (k + 1) % 4 # 2 /\ (k + 1) % 4 # 3
      BY <2>1
    <3> QED BY <1>4, <2>1, <3>1, Zenon
  <2> QED BY <1>2, <2>1, <2>2, SeqStep
<1>6. CASE r = 1
  <2>1. (k + 1) % 4 = 2 /\ d + (k + 1) \div 4 = q /\ In(p, s, cols, q, 1)
    BY <1>2, <1>6
  <2>2. ColumnItem(cols, d, k + 1) = Item("type", cols[q + 1].typ)
    BY <1>4, <2>1
  <2> QED BY <1>2, <2>1, <2>2, ColumnTypeStep
<1>7. CASE r = 2
  <2>1. (k + 1) % 4 = 3 /\ d + (k + 1) \div 4 = q /\ In(p, s, cols, q, 2)
    BY <1>2, <1>7
  <2>2. ColumnItem(cols, d, k + 1) = Item("subType", cols[q + 1].sub)
    BY <1>4, <2>1
  <2> QED BY <1>2, <2>1, <2>2, SubTypeStep
<1>8. CASE r = 3
  <2>1. (k + 1) % 4 = 0 /\ d + (k + 1) \div 4 = q + 1 /\ In(p, s, cols, q, 3)
    BY <1>2, <1>8
  <2>2. ColumnItem(cols, d, k + 1) = Item("end", 0)
    <3>1. (k + 1) % 4 # 1 /\ (k + 1) % 4 # 2 /\ (k + 1) % 4 # 3
      BY <2>1
    <3> QED BY <1>4, <3>1
  <2> QED BY <1>2, <2>1, <2>2, EndStep
<1> QED BY <1>2, <1>5, <1>6, <1>7, <1>8

\* p[i] is the parser after i items.
Follows(p, items, n) == \A i \in 1..n : p[i] = parseItem(p[i - 1], items[i])

\* The items of section s are those from o + 1 on.
SectionAt(items, o, s, cols, d) ==
  /\ items[o + 1] = Item(s, 0) /\ items[o + 2] = Item("count", Len(cols))
  /\ \A k \in 1..4 * (Len(cols) - d) : items[o + 2 + k] = ColumnItem(cols, d, k)

LEMMA LeastNat ==
  ASSUME NEW T \in SUBSET Nat, T # {}
  PROVE  \E m \in T : \A k \in T : m <= k
<1>1. IsWellFoundedOn(OpToRel(<, Nat), Nat)
  BY NatLessThanWellFounded
<1>2. PICK m \in T : \A k \in T : <<k, m>> \notin OpToRel(<, Nat)
  BY <1>1, WFMin
<1>3. \A k \in T : ~(k < m)
  BY <1>2 DEF OpToRel
<1> QED BY <1>3

Walked(p, n, o, s, cols, d) ==
  /\ o + 1 <= n => p[o + 1] \in ParserType /\ p[o + 1].st = p[o].st
  /\ \A k \in 0..4 * (Len(cols) - d) : o + 2 + k <= n =>
       In(p[o + 2 + k], s, cols, d + k \div 4, k % 4) /\ Others(p[o + 2 + k], p[o], s)

LEMMA Walk ==
  ASSUME NEW p, NEW items, NEW n \in Nat, NEW o \in Nat, Follows(p, items, n),
         NEW s \in Section, NEW cols \in Seq(Column), Len(cols) <= maxSQLDescribeColumns,
         p[o] \in ParserType, Has(p[o].st, s, cols), NEW d, d = p[o].st.done[s],
         SectionAt(items, o, s, cols, d)
  PROVE  Walked(p, n, o, s, cols, d)
<1>1. d \in Nat /\ d <= Len(cols) /\ Len(cols) \in Nat
  BY DEF Has, StateType
<1>2. PICK K : K = 4 * (Len(cols) - d)
  OBVIOUS
<1>3. K \in Nat
  BY <1>1, <1>2, ItemsLeft
<1>4. PICK x : x = p[o]
  OBVIOUS
<1>5. /\ parseItem(x, Item(s, 0)) \in ParserType /\ parseItem(x, Item(s, 0)).st = x.st
      /\ In(parseItem(parseItem(x, Item(s, 0)), Item("count", Len(cols))), s, cols, d, 0)
      /\ Others(parseItem(parseItem(x, Item(s, 0)), Item("count", Len(cols))), x, s)
  BY <1>4, SectionBegins
<1>6. o + 1 <= n => p[o + 1] = parseItem(x, Item(s, 0))
  <2>1. o + 1 <= n => o + 1 \in 1..n /\ (o + 1) - 1 = o
    OBVIOUS
  <2> QED BY <1>4, <2>1 DEF Follows, SectionAt
<1>7. o + 2 <= n => p[o + 2] = parseItem(p[o + 1], Item("count", Len(cols)))
  <2>1. o + 2 <= n => o + 2 \in 1..n /\ (o + 2) - 1 = o + 1
    OBVIOUS
  <2> QED BY <2>1 DEF Follows, SectionAt
<1>8. ASSUME NEW k \in Nat, k < K, o + 2 + (k + 1) <= n
      PROVE  p[o + 2 + (k + 1)] = parseItem(p[o + 2 + k], ColumnItem(cols, d, k + 1))
  <2>1. o + 2 + (k + 1) \in 1..n /\ (o + 2 + (k + 1)) - 1 = o + 2 + k /\ k + 1 \in 1..K
    BY <1>3, <1>8
  <2>2. items[o + 2 + (k + 1)] = ColumnItem(cols, d, k + 1)
    BY <1>2, <2>1 DEF SectionAt
  <2> QED BY <2>1, <2>2 DEF Follows
<1> DEFINE Right(k) == In(p[o + 2 + k], s, cols, d + k \div 4, k % 4) /\ Others(p[o + 2 + k], p[o], s)
           T == {k \in 0..K : o + 2 + k <= n /\ ~Right(k)}
<1>9. SUFFICES ASSUME T # {} PROVE FALSE
  <2>1. o + 1 <= n => p[o + 1] \in ParserType /\ p[o + 1].st = p[o].st
    BY <1>4, <1>5, <1>6
  <2> QED BY <1>2, <2>1 DEF Walked
<1>10. PICK m \in T : \A j \in T : m <= j
  <2> HIDE DEF T
  <2>1. T \in SUBSET Nat
    BY DEF T
  <2> QED BY <1>9, <2>1, LeastNat
<1>11. m \in 0..K /\ o + 2 + m <= n /\ ~Right(m)
  OBVIOUS
<1>12. CASE m = 0
  <2>1. o + 2 + 0 = o + 2 /\ 0 \div 4 = 0 /\ 0 % 4 = 0 /\ d + 0 = d /\ o + 1 <= n /\ o + 2 <= n
    BY <1>1, <1>11, <1>12
  <2>2. p[o + 2] = parseItem(parseItem(x, Item(s, 0)), Item("count", Len(cols)))
    BY <1>6, <1>7, <2>1
  <2>3. In(p[o + 2], s, cols, d, 0) /\ Others(p[o + 2], p[o], s)
    BY <1>4, <1>5, <2>2
  <2>4. Right(0)
    BY <2>1, <2>3
  <2> QED BY <1>11, <1>12, <2>4
<1>13. CASE m # 0
  <2>1. PICK k \in Nat : m = k + 1 /\ k < K /\ k \in 0..K /\ o + 2 + k <= n /\ k \notin T
    <3> HIDE DEF T, Right
    <3>1. m - 1 \in 0..K /\ m = (m - 1) + 1 /\ m - 1 < K /\ o + 2 + (m - 1) <= n /\ m - 1 \in Nat
      BY <1>3, <1>11, <1>13
    <3>2. m - 1 \notin T
      BY <1>10, <1>11, <3>1
    <3> QED BY <3>1, <3>2
  <2>2. Right(k)
    BY <2>1
  <2>3. PICK y : y = p[o + 2 + k]
    OBVIOUS
  <2>4. In(y, s, cols, d + k \div 4, k % 4) /\ Others(y, p[o], s)
    BY <2>2, <2>3
  <2>5. p[o + 2 + (k + 1)] = parseItem(y, ColumnItem(cols, d, k + 1))
    BY <1>8, <1>11, <2>1, <2>3
  <2> HIDE DEF T, Right
  <2>6. k < 4 * (Len(cols) - d)
    BY <1>2, <2>1
  <2>7. /\ In(parseItem(y, ColumnItem(cols, d, k + 1)), s, cols, d + (k + 1) \div 4, (k + 1) % 4)
        /\ Others(parseItem(y, ColumnItem(cols, d, k + 1)), y, s)
    BY <1>1, <2>4, <2>6, WalkStep
  <2>8. Others(p[o + 2 + (k + 1)], p[o], s)
    BY <2>4, <2>5, <2>7, OthersTransitive
  <2>9. Right(k + 1)
    BY <2>5, <2>7, <2>8 DEF Right
  <2> QED BY <1>11, <2>1, <2>9
<1> QED BY <1>11, <1>12, <1>13

Both(q, s, cols, t, others, p) ==
  /\ q \in ParserType /\ Has(q.st, s, cols) /\ Has(q.st, t, others)
  /\ q.st.stmtType = p.st.stmtType /\ q.st.done[t] = p.st.done[t]

Parsed(p, n, o, e, s, cols, t, others) ==
  /\ \A i \in o + 1..e : i <= n => Both(p[i], s, cols, t, others, p[o])
  /\ e <= n => p[e].st.done[s] = Len(cols)

\* From the marker of a section to its last item.
LEMMA SectionParsed ==
  ASSUME NEW p, NEW items, NEW n \in Nat, NEW o \in Nat, Follows(p, items, n),
         NEW s \in Section, NEW cols \in Seq(Column), Len(cols) <= maxSQLDescribeColumns,
         p[o] \in ParserType, Has(p[o].st, s, cols), SectionAt(items, o, s, cols, p[o].st.done[s]),
         NEW t \in Section, t # s, NEW others, Has(p[o].st, t, others)
  PROVE  Parsed(p, n, o, o + 2 + 4 * (Len(cols) - p[o].st.done[s]), s, cols, t, others)
<1>0. PICK d, e : d = p[o].st.done[s] /\ e = o + 2 + 4 * (Len(cols) - p[o].st.done[s])
  OBVIOUS
<1>1. d \in Nat /\ d <= Len(cols) /\ Len(cols) \in Nat
  <2>1. p[o].st.done \in [Section -> Nat]
    BY DEF Has, StateType
  <2>2. d <= Len(cols) /\ Len(cols) \in Nat
    BY <1>0 DEF Has
  <2> QED BY <1>0, <2>1, <2>2
<1>2. PICK K \in Nat : K = 4 * (Len(cols) - d)
  BY <1>1, ItemsLeft
<1>3. /\ o + 1 <= n => p[o + 1] \in ParserType /\ p[o + 1].st = p[o].st
      /\ \A k \in 0..K : o + 2 + k <= n =>
           In(p[o + 2 + k], s, cols, d + k \div 4, k % 4) /\ Others(p[o + 2 + k], p[o], s)
  <2>1. Walked(p, n, o, s, cols, d)
    BY <1>0, Walk
  <2> QED BY <1>2, <2>1 DEF Walked
<1>4. ASSUME NEW k \in 0..K, o + 2 + k <= n
      PROVE  Both(p[o + 2 + k], s, cols, t, others, p[o]) /\ p[o + 2 + k].st.done[s] = d + k \div 4
  <2>1. PICK q : q = p[o + 2 + k]
    OBVIOUS
  <2>2. In(q, s, cols, d + k \div 4, k % 4) /\ Others(q, p[o], s)
    BY <1>3, <1>4, <2>1
  <2>3. d + k \div 4 \in 0..Len(cols)
    BY <1>1, <1>2, ItemsLeft
  <2>4. q \in ParserType /\ Has(q.st, s, cols) /\ q.st.done[s] = d + k \div 4
    BY <2>2, <2>3, InHas
  <2>5. Has(q.st, t, others) /\ q.st.done[t] = p[o].st.done[t] /\ q.st.stmtType = p[o].st.stmtType
    BY <2>2, <2>4, HasOther
  <2> QED BY <2>1, <2>4, <2>5 DEF Both
<1>5. ASSUME NEW i \in o + 1..e, i <= n PROVE Both(p[i], s, cols, t, others, p[o])
  <2>1. CASE i = o + 1
    BY <1>3, <1>5, <2>1 DEF Both
  <2>2. CASE i # o + 1
    <3>1. PICK k \in 0..K : i = o + 2 + k
      <4>1. i - (o + 2) \in 0..K /\ i = o + 2 + (i - (o + 2))
        BY <1>0, <1>2, <2>2, SMTT(30)
      <4> QED BY <4>1
    <3> QED BY <1>4, <1>5, <3>1
  <2> QED BY <2>1, <2>2
<1>6. ASSUME e <= n PROVE p[e].st.done[s] = Len(cols)
  <2>1. e = o + 2 + K /\ K \in 0..K
    BY <1>0, <1>2
  <2>2. d + K \div 4 = Len(cols)
    BY <1>1, <1>2, ItemsLeft
  <2> QED BY <1>4, <1>6, <2>1, <2>2
<1> QED BY <1>0, <1>5, <1>6 DEF Parsed

----------------------------------------------------------------------------
(* The items of a describe *)

IsJoined(x, S, a, b) ==
  /\ x \in Seq(S) /\ Len(x) = Len(a) + Len(b)
  /\ \A i \in 1..Len(a) : x[i] = a[i]
  /\ \A i \in 1..Len(b) : x[Len(a) + i] = b[i]

LEMMA Joined ==
  ASSUME NEW S, NEW a \in Seq(S), NEW b \in Seq(S)
  PROVE  IsJoined(a \o b, S, a, b)
BY DEF IsJoined

Values == StmtType \cup Nat \cup Charset \cup {"text", "blob", "zero"}

Tags == Section \cup {"stmtType", "count", "seq", "type", "subType", "end"}

\* The items of a describe, and those with the one that ends a buffer.
ItemType == [tag : Tags, v : Values]
AnyItem == [tag : Tags \cup {"infoEnd", "truncated"}, v : Values]

LEMMA ItemOf ==
  ASSUME NEW tag \in Tags, NEW v \in Values
  PROVE  Item(tag, v) \in ItemType
BY DEF Item, ItemType

LEMMA ColumnItemType ==
  ASSUME NEW cols \in Seq(Column), NEW d \in 0..Len(cols), NEW k \in 1..4 * (Len(cols) - d)
  PROVE  ColumnItem(cols, d, k) \in ItemType
<1>1. PICK i : i = (d + 1) + (k - 1) \div 4
  OBVIOUS
<1>2. i \in 1..Len(cols)
  <2>1. PICK l \in Nat : l = Len(cols)
    OBVIOUS
  <2>2. k - 1 \in Nat /\ k - 1 < 4 * (l - d)
    BY <2>1
  <2>3. (k - 1) \div 4 \in Nat /\ (k - 1) \div 4 < l - d
    BY <2>1, <2>2, FourItems
  <2> QED BY <1>1, <2>1, <2>3
<1>3. /\ Item("seq", i) \in ItemType /\ Item("end", 0) \in ItemType
      /\ Item("type", cols[i].typ) \in ItemType /\ Item("subType", cols[i].sub) \in ItemType
  <2>1. cols[i].typ \in Values /\ cols[i].sub \in Values /\ i \in Values /\ 0 \in Values
    BY <1>2, ColumnTypes DEF Values
  <2>2. {"seq", "end", "type", "subType"} \subseteq Tags
    BY DEF Tags
  <2> QED BY <2>1, <2>2, ItemOf
<1>4. \/ ColumnItem(cols, d, k) = Item("seq", i) \/ ColumnItem(cols, d, k) = Item("type", cols[i].typ)
      \/ ColumnItem(cols, d, k) = Item("subType", cols[i].sub) \/ ColumnItem(cols, d, k) = Item("end", 0)
  BY <1>1 DEF ColumnItem
<1> QED BY <1>3, <1>4

\* A section with d descriptors done before.
IsSection(x, s, cols, d) ==
  /\ x \in Seq(ItemType) /\ Len(x) = 2 + 4 * (Len(cols) - d)
  /\ x[1] = Item(s, 0) /\ x[2] = Item("count", Len(cols))
  /\ \A k \in 1..4 * (Len(cols) - d) : x[2 + k] = ColumnItem(cols, d, k)

LEMMA SectionItems ==
  ASSUME NEW s \in Section, NEW cols \in Seq(Column), NEW d \in 0..Len(cols)
  PROVE  IsSection(describeSection(s, cols, d + 1), s, cols, d)
<1>1. PICK l \in Nat : l = Len(cols)
  OBVIOUS
<1>2. (IF d + 1 <= l THEN l + 1 - (d + 1) ELSE 0) = l - d
  BY <1>1
<1>3. PICK K \in Nat : K = 4 * (l - d)
  <2>1. l - d \in Nat
    BY <1>1
  <2>2. 4 * (l - d) \in Nat
    BY <2>1
  <2> QED BY <2>2
<1>4. PICK a, b : a = <<Item(s, 0), Item("count", l)>> /\ b = [k \in 1..K |-> ColumnItem(cols, d, k)]
  OBVIOUS
<1>5. describeSection(s, cols, d + 1) = a \o b
  BY <1>1, <1>2, <1>3, <1>4 DEF describeSection, ColumnItem
<1>6. a \in Seq(ItemType) /\ Len(a) = 2 /\ a[1] = Item(s, 0) /\ a[2] = Item("count", l)
  <2>1. s \in Tags /\ "count" \in Tags /\ 0 \in Values /\ l \in Values
    BY DEF Tags, Values
  <2>2. PICK y \in ItemType, z \in ItemType : y = Item(s, 0) /\ z = Item("count", l)
    BY <2>1, ItemOf
  <2>3. a = <<y, z>>
    BY <1>4, <2>2
  <2> QED BY <2>2, <2>3
<1>7. b \in Seq(ItemType) /\ Len(b) = K /\ \A k \in 1..K : b[k] = ColumnItem(cols, d, k)
  <2>1. \A k \in 1..K : ColumnItem(cols, d, k) \in ItemType
    BY <1>1, <1>3, ColumnItemType
  <2> QED BY <1>3, <1>4, <2>1
<1>8. PICK x : x = a \o b
  OBVIOUS
<1>9. x \in Seq(ItemType) /\ Len(x) = 2 + K /\ x[1] = a[1] /\ x[2] = a[2] /\ \A k \in 1..K : x[2 + k] = b[k]
  <2>1. IsJoined(x, ItemType, a, b)
    BY <1>6, <1>7, <1>8, Joined
  <2>2. 1 \in 1..Len(a) /\ 2 \in 1..Len(a)
    BY <1>6
  <2> QED BY <1>6, <1>7, <2>1, <2>2 DEF IsJoined
<1> QED BY <1>1, <1>3, <1>5, <1>6, <1>7, <1>8, <1>9 DEF IsSection

\* A section behind o other items.
LEMMA SectionBehind ==
  ASSUME NEW a \in Seq(ItemType), NEW b \in Seq(ItemType), NEW s \in Section, NEW cols \in Seq(Column),
         NEW d \in 0..Len(cols), IsSection(b, s, cols, d)
  PROVE  SectionAt(a \o b, Len(a), s, cols, d)
<1>1. PICK x : x = a \o b
  OBVIOUS
<1>2. IsJoined(x, ItemType, a, b)
  BY <1>1, Joined
<1>3. PICK K \in Nat : K = 4 * (Len(cols) - d)
  BY ItemsLeft
<1>4. /\ Len(b) = 2 + K /\ b[1] = Item(s, 0) /\ b[2] = Item("count", Len(cols))
      /\ \A k \in 1..K : b[2 + k] = ColumnItem(cols, d, k)
  BY <1>3 DEF IsSection
<1>5. 1 \in 1..Len(b) /\ 2 \in 1..Len(b) /\ Len(a) \in Nat
  BY <1>4
<1>6. x[Len(a) + 1] = Item(s, 0) /\ x[Len(a) + 2] = Item("count", Len(cols))
  BY <1>2, <1>4, <1>5 DEF IsJoined
<1>7. ASSUME NEW k \in 1..K PROVE x[Len(a) + 2 + k] = ColumnItem(cols, d, k)
  <2>1. 2 + k \in 1..Len(b) /\ Len(a) + 2 + k = Len(a) + (2 + k)
    BY <1>4, <1>5
  <2> QED BY <1>2, <1>4, <2>1 DEF IsJoined
<1> QED BY <1>1, <1>2, <1>3, <1>6, <1>7 DEF SectionAt, IsJoined

\* What follows a section does not move it.
LEMMA SectionBefore ==
  ASSUME NEW a \in Seq(ItemType), NEW b \in Seq(ItemType), NEW o \in Nat, NEW s \in Section,
         NEW cols \in Seq(Column), NEW d \in 0..Len(cols), SectionAt(a, o, s, cols, d),
         o + 2 + 4 * (Len(cols) - d) <= Len(a)
  PROVE  SectionAt(a \o b, o, s, cols, d)
<1>1. PICK x : x = a \o b
  OBVIOUS
<1>2. IsJoined(x, ItemType, a, b)
  BY <1>1, Joined
<1>3. PICK K \in Nat : K = 4 * (Len(cols) - d)
  BY ItemsLeft
<1>4. o + 1 \in 1..Len(a) /\ o + 2 \in 1..Len(a) /\ \A k \in 1..K : o + 2 + k \in 1..Len(a)
  BY <1>3
<1>5. x[o + 1] = a[o + 1] /\ x[o + 2] = a[o + 2] /\ \A k \in 1..K : x[o + 2 + k] = a[o + 2 + k]
  BY <1>2, <1>4 DEF IsJoined
<1> QED BY <1>1, <1>3, <1>5 DEF SectionAt

\* The columns that a method asks for.
Outputs(fn, m) == IF fn = "exec" THEN <<>> ELSE m.select

Known(st, fn, m) == Has(st, "select", Outputs(fn, m)) /\ Has(st, "bind", m.bind)

\* Where the bind section begins, and where the describe ends.
BindAt(fn, m, st) == IF fn = "exec" THEN 1 ELSE 3 + 4 * (Len(m.select) - st.done["select"])
Total(fn, m, st) == BindAt(fn, m, st) + 2 + 4 * (Len(m.bind) - st.done["bind"])

LEMMA MetaType ==
  ASSUME NEW m \in Meta
  PROVE  /\ m.typ \in StmtType /\ m.select \in Seq(Column) /\ m.bind \in Seq(Column)
         /\ Len(m.select) <= maxSQLDescribeColumns /\ Len(m.bind) <= maxSQLDescribeColumns
<1>1. ASSUME NEW n \in Nat, NEW x \in UpTo(n) PROVE x \in Seq(Column) /\ Len(x) <= n
  <2>1. PICK k \in 0..n : x \in [1..k -> Column]
    BY DEF UpTo
  <2>2. x \in Seq(Column) /\ Len(x) = k
    BY <2>1
  <2> QED BY <2>2
<1>2. m.typ \in StmtType /\ m.select \in UpTo(MaxOutputs) /\ m.bind \in UpTo(MaxInputs)
  BY DEF Meta
<1>3. MaxOutputs \in Nat /\ MaxInputs \in Nat /\ maxSQLDescribeColumns \in Nat
      /\ MaxOutputs <= maxSQLDescribeColumns /\ MaxInputs <= maxSQLDescribeColumns
  BY DescribeAssumption
<1>4. m.select \in Seq(Column) /\ Len(m.select) <= MaxOutputs /\ m.bind \in Seq(Column) /\ Len(m.bind) <= MaxInputs
  BY <1>1, <1>2, <1>3
<1>5. Len(m.select) \in Nat /\ Len(m.bind) \in Nat
  BY <1>4
<1> QED BY <1>2, <1>3, <1>4, <1>5

LEMMA KnownBounds ==
  ASSUME NEW fn, NEW m \in Meta, NEW st, Known(st, fn, m)
  PROVE  /\ st \in StateType /\ st.done["bind"] \in 0..Len(m.bind)
         /\ st.done["select"] \in 0..Len(Outputs(fn, m)) /\ Outputs(fn, m) \in Seq(Column)
         /\ Len(Outputs(fn, m)) <= maxSQLDescribeColumns
<1>1. st \in StateType /\ st.done["bind"] \in Nat /\ st.done["select"] \in Nat
  BY DEF Known, Has, StateType, Section
<1>2. Outputs(fn, m) \in Seq(Column) /\ Len(Outputs(fn, m)) <= maxSQLDescribeColumns
  <2>1. Len(<<>>) = 0 /\ <<>> \in Seq(Column)
    OBVIOUS
  <2> QED BY <2>1, MetaType, DescribeAssumption DEF Outputs
<1>3. Len(Outputs(fn, m)) \in Nat /\ Len(m.bind) \in Nat
  BY <1>2, MetaType
<1> QED BY <1>1, <1>2, <1>3 DEF Known, Has

\* What the server would send if the buffer were long enough.
LEMMA AllItems ==
  ASSUME NEW fn, NEW m \in Meta, NEW st, Known(st, fn, m),
         NEW all, all = describeItems(fn, m, itemsWithSqldaStart(st))
  PROVE  /\ all \in Seq(ItemType) /\ Len(all) = Total(fn, m, st) /\ Len(all) \in Nat
         /\ all[1] = Item("stmtType", m.typ)
         /\ fn # "exec" => SectionAt(all, 1, "select", m.select, st.done["select"])
         /\ SectionAt(all, BindAt(fn, m, st), "bind", m.bind, st.done["bind"])
<1>1. PICK ds, db : ds = st.done["select"] /\ db = st.done["bind"]
  OBVIOUS
<1>2. /\ db \in 0..Len(m.bind) /\ ds \in Nat /\ (fn # "exec" => ds \in 0..Len(m.select))
      /\ m.bind \in Seq(Column) /\ m.select \in Seq(Column) /\ m.typ \in StmtType
  BY <1>1, KnownBounds, MetaType DEF Outputs
<1>3. itemsWithSqldaStart(st).select = ds + 1 /\ itemsWithSqldaStart(st).bind = db + 1
  BY <1>1 DEF itemsWithSqldaStart, Section
<1>4. PICK h, x, y : /\ h = <<Item("stmtType", m.typ)>> /\ y = describeSection("bind", m.bind, db + 1)
                     /\ x = describeSection("select", m.select, ds + 1)
  OBVIOUS
<1>5. h \in Seq(ItemType) /\ Len(h) = 1 /\ h[1] = Item("stmtType", m.typ)
  <2>1. PICK z \in ItemType : z = Item("stmtType", m.typ)
    BY <1>2, ItemOf DEF Tags, Values
  <2> QED BY <1>4, <2>1
<1>6. IsSection(y, "bind", m.bind, db) /\ y \in Seq(ItemType) /\ Len(y) = 2 + 4 * (Len(m.bind) - db)
  <2>1. "bind" \in Section
    BY DEF Section
  <2>2. IsSection(y, "bind", m.bind, db)
    BY <1>2, <1>4, <2>1, SectionItems
  <2> QED BY <2>2 DEF IsSection
<1>7. CASE fn = "exec"
  <2>1. all = h \o y
    <3>1. all = (h \o <<>>) \o y
      BY <1>3, <1>4, <1>7 DEF describeItems
    <3>2. h \o <<>> = h
      BY <1>5
    <3> QED BY <3>1, <3>2
  <2>2. IsJoined(all, ItemType, h, y)
    BY <1>5, <1>6, <2>1, Joined
  <2>3. SectionAt(all, 1, "bind", m.bind, db)
    <3>1. "bind" \in Section
      BY DEF Section
    <3>2. SectionAt(h \o y, Len(h), "bind", m.bind, db)
      BY <1>2, <1>5, <1>6, <3>1, SectionBehind
    <3> QED BY <1>5, <2>1, <3>2
  <2>4. all[1] = h[1] /\ Len(all) = 1 + (2 + 4 * (Len(m.bind) - db)) /\ all \in Seq(ItemType)
    BY <1>5, <1>6, <2>2 DEF IsJoined
  <2>5. BindAt(fn, m, st) = 1
    BY <1>7 DEF BindAt
  <2>6. Len(all) = Total(fn, m, st)
    <3>1. 4 * (Len(m.bind) - db) \in Nat
      BY <1>2, ItemsLeft
    <3> QED BY <1>1, <2>4, <2>5, <3>1 DEF Total
  <2> QED BY <1>1, <1>5, <1>7, <2>3, <2>4, <2>5, <2>6
<1>8. CASE fn # "exec"
  <2>1. all = (h \o x) \o y
    BY <1>3, <1>4, <1>8 DEF describeItems
  <2>2. IsSection(x, "select", m.select, ds) /\ x \in Seq(ItemType) /\ Len(x) = 2 + 4 * (Len(m.select) - ds)
    <3>1. "select" \in Section
      BY DEF Section
    <3>2. IsSection(x, "select", m.select, ds)
      BY <1>2, <1>4, <1>8, <3>1, SectionItems
    <3> QED BY <3>2 DEF IsSection
  <2>3. PICK g : g = h \o x
    OBVIOUS
  <2>4. IsJoined(g, ItemType, h, x)
    BY <1>5, <2>2, <2>3, Joined
  <2>5. /\ g \in Seq(ItemType) /\ g[1] = h[1] /\ Len(g) = 1 + (2 + 4 * (Len(m.select) - ds))
    BY <1>5, <2>2, <2>4 DEF IsJoined
  <2>6. SectionAt(g, 1, "select", m.select, ds)
    <3>1. "select" \in Section
      BY DEF Section
    <3>2. SectionAt(h \o x, Len(h), "select", m.select, ds)
      BY <1>2, <1>5, <1>8, <2>2, <3>1, SectionBehind
    <3> QED BY <1>5, <2>3, <3>2
  <2>7. IsJoined(all, ItemType, g, y)
    BY <1>6, <2>1, <2>3, <2>5, Joined
  <2>8. /\ 4 * (Len(m.select) - ds) \in Nat /\ 4 * (Len(m.bind) - db) \in Nat
        /\ Len(g) = 3 + 4 * (Len(m.select) - ds) /\ Len(g) \in Nat /\ 1 \in 1..Len(g)
    <3>1. 4 * (Len(m.select) - ds) \in Nat /\ 4 * (Len(m.bind) - db) \in Nat
      BY <1>2, <1>8, ItemsLeft
    <3> QED BY <2>5, <3>1
  <2>9. SectionAt(all, 1, "select", m.select, ds)
    <3>1. "select" \in Section /\ 1 \in Nat /\ 1 + 2 + 4 * (Len(m.select) - ds) <= Len(g)
      BY <2>8 DEF Section
    <3> QED BY <1>2, <1>6, <1>8, <2>1, <2>3, <2>5, <2>6, <3>1, SectionBefore
  <2>10. BindAt(fn, m, st) = Len(g)
    BY <1>1, <1>8, <2>8 DEF BindAt
  <2>11. SectionAt(all, Len(g), "bind", m.bind, db)
    <3>1. "bind" \in Section
      BY DEF Section
    <3>2. SectionAt(g \o y, Len(g), "bind", m.bind, db)
      BY <1>2, <1>6, <2>5, <3>1, SectionBehind
    <3> QED BY <2>1, <2>3, <3>2
  <2>12. all[1] = h[1] /\ Len(all) = Len(g) + (2 + 4 * (Len(m.bind) - db)) /\ all \in Seq(ItemType)
    BY <1>6, <2>5, <2>7, <2>8 DEF IsJoined
  <2>13. Len(all) = Total(fn, m, st)
    BY <1>1, <2>8, <2>10, <2>12 DEF Total
  <2> QED BY <1>1, <1>5, <2>9, <2>10, <2>11, <2>12, <2>13
<1> QED BY <1>7, <1>8

----------------------------------------------------------------------------
(* A whole buffer *)

\* The describe is complete.
Complete(st, fn, m) ==
  /\ Known(st, fn, m) /\ st.stmtType = m.typ
  /\ st.done["select"] = Len(Outputs(fn, m)) /\ st.done["bind"] = Len(m.bind)

Start(st) == [st |-> st, list |-> "select", cur |-> 0]

LEMMA FirstItem ==
  ASSUME NEW fn, NEW m \in Meta, NEW st, Known(st, fn, m), NEW n, n = parseItem(Start(st), Item("stmtType", m.typ))
  PROVE  /\ n \in ParserType /\ Known(n.st, fn, m) /\ n.st.stmtType = m.typ
         /\ n.st.done = st.done
<1>1. st \in StateType /\ m.typ \in StmtType
  BY KnownBounds, MetaType
<1>2. Start(st) \in ParserType
  BY <1>1 DEF Start, ParserType, Section
<1>3. n = [Start(st) EXCEPT !.st.stmtType = m.typ]
  BY <1>2, TypeItem
<1>4. PICK x : x = [st EXCEPT !.stmtType = m.typ]
  OBVIOUS
<1>5. /\ x \in StateType /\ x.stmtType = m.typ /\ x.descs = st.descs /\ x.num = st.num
      /\ x.done = st.done
  BY <1>1, <1>4 DEF StateType
<1>6. n = Start(x)
  BY <1>3, <1>4 DEF Start
<1>7. n \in ParserType /\ n.st = x
  BY <1>5, <1>6 DEF Start, ParserType, Section
<1> QED BY <1>5, <1>7 DEF Known, Has

LEMMA BufferParsed ==
  ASSUME NEW fn, NEW m \in Meta, NEW st, Known(st, fn, m),
         NEW all, all = describeItems(fn, m, itemsWithSqldaStart(st)),
         NEW p, NEW c \in 0..Len(all), p[0] = Start(st), Follows(p, all, c)
  PROVE  p[c] \in ParserType /\ Known(p[c].st, fn, m) /\ (c = Len(all) => Complete(p[c].st, fn, m))
<1>1. /\ all \in Seq(ItemType) /\ Len(all) = Total(fn, m, st) /\ Len(all) \in Nat
      /\ all[1] = Item("stmtType", m.typ)
      /\ fn # "exec" => SectionAt(all, 1, "select", m.select, st.done["select"])
      /\ SectionAt(all, BindAt(fn, m, st), "bind", m.bind, st.done["bind"])
  BY AllItems
<1>2. /\ st \in StateType /\ st.done["bind"] \in 0..Len(m.bind)
      /\ st.done["select"] \in 0..Len(Outputs(fn, m)) /\ Outputs(fn, m) \in Seq(Column)
      /\ Len(Outputs(fn, m)) <= maxSQLDescribeColumns
  BY KnownBounds
<1>3. /\ m.typ \in StmtType /\ m.select \in Seq(Column) /\ m.bind \in Seq(Column)
      /\ Len(m.select) <= maxSQLDescribeColumns /\ Len(m.bind) <= maxSQLDescribeColumns
  BY MetaType
<1>4. "select" \in Section /\ "bind" \in Section /\ "select" # "bind"
  BY DEF Section
<1>5. PICK B, E : B = BindAt(fn, m, st) /\ E = Total(fn, m, st)
  OBVIOUS
<1>6. /\ B \in Nat /\ E \in Nat /\ B >= 1 /\ E >= B + 2 /\ Len(all) = E
      /\ E = B + 2 + 4 * (Len(m.bind) - st.done["bind"])
  <2>1. 4 * (Len(m.bind) - st.done["bind"]) \in Nat
    BY <1>2, <1>3, ItemsLeft
  <2>2. fn # "exec" => 4 * (Len(m.select) - st.done["select"]) \in Nat
    BY <1>2, <1>3, ItemsLeft DEF Outputs
  <2> QED BY <1>1, <1>5, <2>1, <2>2 DEF BindAt, Total
<1>7. CASE c = 0
  <2>1. p[0] \in ParserType /\ p[0].st = st
    BY <1>2 DEF Start, ParserType, Section
  <2> QED BY <1>6, <1>7, <2>1
<1>8. CASE c # 0
  <2>1. PICK n : n = p[1]
    OBVIOUS
  <2>2. c \in Nat /\ 1 <= c /\ 1 \in 1..c /\ 1 - 1 = 0
    BY <1>8
  <2>3. n = parseItem(Start(st), Item("stmtType", m.typ))
    BY <1>1, <2>1, <2>2 DEF Follows
  <2>4. n \in ParserType /\ Known(n.st, fn, m) /\ n.st.stmtType = m.typ /\ n.st.done = st.done
    BY <2>3, FirstItem
  <2>5. CASE fn = "exec"
    <3>1. B = 1 /\ Outputs(fn, m) = <<>>
      BY <1>5, <2>5 DEF BindAt, Outputs
    <3>2. SectionAt(all, 1, "bind", m.bind, n.st.done["bind"])
      BY <1>1, <1>5, <2>4, <3>1
    <3>3. p[1] \in ParserType /\ Has(p[1].st, "bind", m.bind) /\ Has(p[1].st, "select", Outputs(fn, m))
      BY <2>1, <2>4 DEF Known
    <3>4. E = 1 + 2 + 4 * (Len(m.bind) - p[1].st.done["bind"])
      BY <1>6, <2>1, <2>4, <3>1
    <3>5. /\ \A i \in 1 + 1..E : i <= c => Both(p[i], "bind", m.bind, "select", Outputs(fn, m), p[1])
          /\ E <= c => p[E].st.done["bind"] = Len(m.bind)
      <4>1. Parsed(p, c, 1, 1 + 2 + 4 * (Len(m.bind) - p[1].st.done["bind"]), "bind", m.bind, "select", Outputs(fn, m))
        BY <1>3, <1>4, <2>1, <2>2, <3>2, <3>3, SectionParsed
      <4> QED BY <3>4, <4>1 DEF Parsed
    <3>6. CASE c = 1
      BY <1>6, <2>1, <2>4, <3>6
    <3>7. CASE c # 1
      <4>1. c \in 1 + 1..E /\ c <= c
        BY <1>6, <2>2, <3>7
      <4>2. Both(p[c], "bind", m.bind, "select", Outputs(fn, m), n)
        BY <2>1, <3>5, <4>1
      <4>3. c = E => p[c].st.done["bind"] = Len(m.bind)
        BY <3>5, <4>1
      <4>4. p[c].st.done["select"] = Len(Outputs(fn, m))
        <5>1. Len(Outputs(fn, m)) = 0 /\ n.st.done["select"] = 0
          BY <1>2, <2>4, <3>1
        <5> QED BY <4>2, <5>1 DEF Both
      <4> QED BY <1>6, <2>4, <4>2, <4>3, <4>4 DEF Both, Known, Complete
    <3> QED BY <3>6, <3>7
  <2>6. CASE fn # "exec"
    <3>1. B = 3 + 4 * (Len(m.select) - st.done["select"]) /\ Outputs(fn, m) = m.select
      BY <1>5, <2>6 DEF BindAt, Outputs
    <3>2. SectionAt(all, 1, "select", m.select, p[1].st.done["select"])
      BY <1>1, <2>1, <2>4, <2>6
    <3>3. p[1] \in ParserType /\ Has(p[1].st, "bind", m.bind) /\ Has(p[1].st, "select", m.select)
      BY <2>1, <2>4, <3>1 DEF Known
    <3>4. B = 1 + 2 + 4 * (Len(m.select) - p[1].st.done["select"])
      <4>1. 4 * (Len(m.select) - st.done["select"]) \in Nat
        BY <1>2, <1>3, <3>1, ItemsLeft
      <4> QED BY <2>1, <2>4, <3>1, <4>1
    <3>5. /\ \A i \in 1 + 1..B : i <= c => Both(p[i], "select", m.select, "bind", m.bind, p[1])
          /\ B <= c => p[B].st.done["select"] = Len(m.select)
      <4>1. Parsed(p, c, 1, 1 + 2 + 4 * (Len(m.select) - p[1].st.done["select"]), "select", m.select, "bind", m.bind)
        BY <1>3, <1>4, <2>2, <3>2, <3>3, SectionParsed
      <4> QED BY <3>4, <4>1 DEF Parsed
    <3>6. CASE c = 1
      BY <1>6, <2>1, <2>4, <3>6
    <3>7. CASE c # 1 /\ c <= B
      <4>1. c \in 1 + 1..B /\ c <= c /\ c # E
        BY <1>6, <2>2, <3>7
      <4>2. Both(p[c], "select", m.select, "bind", m.bind, p[1])
        BY <3>5, <4>1
      <4> QED BY <1>6, <3>1, <4>1, <4>2 DEF Both, Known
    <3>8. CASE c > B
      <4>1. B \in 1 + 1..B /\ B <= c
        <5>1. 4 * (Len(m.select) - st.done["select"]) \in Nat
          BY <1>2, <1>3, <3>1, ItemsLeft
        <5> QED BY <1>6, <3>1, <3>8, <5>1
      <4>2. Both(p[B], "select", m.select, "bind", m.bind, p[1]) /\ p[B].st.done["select"] = Len(m.select)
        BY <3>5, <4>1
      <4>3. /\ p[B] \in ParserType /\ Has(p[B].st, "bind", m.bind) /\ Has(p[B].st, "select", m.select)
            /\ p[B].st.done["bind"] = st.done["bind"] /\ p[B].st.stmtType = m.typ
        BY <2>1, <2>4, <4>2 DEF Both
      <4>4. SectionAt(all, B, "bind", m.bind, p[B].st.done["bind"])
        BY <1>1, <1>5, <4>3
      <4>5. E = B + 2 + 4 * (Len(m.bind) - p[B].st.done["bind"])
        BY <1>6, <4>3
      <4>6. /\ \A i \in B + 1..E : i <= c => Both(p[i], "bind", m.bind, "select", m.select, p[B])
            /\ E <= c => p[E].st.done["bind"] = Len(m.bind)
        <5>1. Parsed(p, c, B, B + 2 + 4 * (Len(m.bind) - p[B].st.done["bind"]), "bind", m.bind, "select", m.select)
          BY <1>3, <1>4, <1>6, <2>2, <4>3, <4>4, SectionParsed
        <5> QED BY <4>5, <5>1 DEF Parsed
      <4>7. c \in B + 1..E /\ c <= c
        BY <1>6, <2>2, <3>8
      <4>8. Both(p[c], "bind", m.bind, "select", m.select, p[B])
        BY <4>6, <4>7
      <4>9. c = E => p[c].st.done["bind"] = Len(m.bind)
        BY <4>6, <4>7
      <4> QED BY <1>6, <3>1, <4>2, <4>3, <4>8, <4>9 DEF Both, Known, Complete
    <3> QED BY <1>6, <2>2, <3>6, <3>7, <3>8
  <2> QED BY <2>5, <2>6
<1> QED BY <1>7, <1>8

IsParse(p, items, st, n) ==
  p = [i \in 0..n |-> IF i = 0 THEN Start(st)
                      ELSE CHOOSE next \in {parseItem(prev, items[i]) : prev \in {p[i - 1]}} : TRUE]

LEMMA Chosen ==
  ASSUME NEW x, NEW it
  PROVE  (CHOOSE next \in {parseItem(prev, it) : prev \in {x}} : TRUE) = parseItem(x, it)
OBVIOUS

LEMMA ParseExists ==
  ASSUME NEW items, NEW st, NEW n \in Nat
  PROVE  \E p : IsParse(p, items, st, n)
<1> DEFINE T == {k \in Nat : ~ \E p : IsParse(p, items, st, k)}
<1>1. SUFFICES ASSUME T # {} PROVE FALSE
  OBVIOUS
<1>2. PICK m \in T : \A k \in T : m <= k
  BY <1>1, LeastNat
<1>3. CASE m = 0
  <2>1. IsParse([i \in 0..0 |-> Start(st)], items, st, 0)
    BY DEF IsParse
  <2> QED BY <1>3, <2>1
<1>4. CASE m # 0
  <2>1. m - 1 \in Nat /\ m - 1 \notin T
    BY <1>2, <1>4
  <2>2. PICK p : IsParse(p, items, st, m - 1)
    BY <2>1
  <2>3. PICK x : x = CHOOSE next \in {parseItem(prev, items[m]) : prev \in {p[m - 1]}} : TRUE
    OBVIOUS
  <2>4. PICK q : q = [i \in 0..m |-> IF i = m THEN x ELSE p[i]]
    OBVIOUS
  <2>5. m \in Nat /\ \A i \in 0..m - 1 : q[i] = p[i]
    BY <2>1, <2>4
  <2>6. q[m] = x /\ q[m - 1] = p[m - 1]
    BY <1>4, <2>1, <2>4
  <2>7. ASSUME NEW i \in 0..m
        PROVE  q[i] = IF i = 0 THEN Start(st)
                      ELSE CHOOSE next \in {parseItem(prev, items[i]) : prev \in {q[i - 1]}} : TRUE
    <3>1. CASE i = m
      BY <1>4, <2>3, <2>6, <3>1
    <3>2. CASE i # m
      <4>1. i \in 0..m - 1 /\ (i # 0 => i - 1 \in 0..m - 1)
        BY <2>1, <2>5, <3>2
      <4>2. p[i] = IF i = 0 THEN Start(st)
                   ELSE CHOOSE next \in {parseItem(prev, items[i]) : prev \in {p[i - 1]}} : TRUE
        BY <2>2, <4>1 DEF IsParse
      <4>3. q[i] = p[i] /\ (i # 0 => q[i - 1] = p[i - 1])
        BY <2>5, <4>1
      <4>4. CASE i = 0
        BY <4>2, <4>3, <4>4
      <4>5. CASE i # 0
        BY <4>2, <4>3, <4>5
      <4> QED BY <4>4, <4>5
    <3> QED BY <3>1, <3>2
  <2>8. IsParse(q, items, st, m)
    BY <2>4, <2>7 DEF IsParse
  <2> QED BY <2>8
<1> QED BY <1>3, <1>4

LEMMA ChunkDef ==
  ASSUME NEW items, NEW st, Len(items) \in Nat
  PROVE  \E p : /\ p[0] = Start(st) /\ Follows(p, items, Len(items))
                /\ parseSQLDescribeChunk(items, st) = p[Len(items)].st
<1> DEFINE p == CHOOSE p : p = [i \in 0..Len(items) |->
                  IF i = 0 THEN [st |-> st, list |-> "select", cur |-> 0]
                  ELSE CHOOSE next \in {parseItem(prev, items[i]) : prev \in {p[i - 1]}} : TRUE]
<1>1. PICK d : IsParse(d, items, st, Len(items))
  BY ParseExists
<1>2. IsParse(p, items, st, Len(items))
  BY <1>1 DEF IsParse, Start
<1>3. parseSQLDescribeChunk(items, st) = p[Len(items)].st
  BY DEF parseSQLDescribeChunk
<1> HIDE DEF p
<1>4. p[0] = Start(st)
  BY <1>2 DEF IsParse
<1>5. ASSUME NEW i \in 1..Len(items) PROVE p[i] = parseItem(p[i - 1], items[i])
  <2>1. p[i] = CHOOSE next \in {parseItem(prev, items[i]) : prev \in {p[i - 1]}} : TRUE
    <3>1. i \in 0..Len(items) /\ i # 0
      OBVIOUS
    <3> QED BY <1>2, <3>1 DEF IsParse
  <2>2. PICK x, it : x = p[i - 1] /\ it = items[i]
    OBVIOUS
  <2> QED BY <2>1, <2>2, Chosen
<1> QED BY <1>3, <1>4, <1>5 DEF Follows

\* A buffer of the server: as many items as fit, and one that says whether there
\* are more.
IsBuffer(a, all, c) ==
  /\ a \in Seq(AnyItem) /\ Len(a) = c + 1
  /\ c = (IF Len(all) <= bufLen THEN Len(all) ELSE cutAt(all))
  /\ \A i \in 1..c : a[i] = all[i]
  /\ a[c + 1] = Item(IF Len(all) <= bufLen THEN "infoEnd" ELSE "truncated", 0)

LEMMA AnswerIs ==
  ASSUME NEW fn, NEW m, NEW next, NEW all \in Seq(ItemType), all = describeItems(fn, m, next), bufLen \in Nat
  PROVE  \E c \in 0..Len(all) : IsBuffer(answer(fn, m, next), all, c)
<1>1. all \in Seq(AnyItem)
  <2>1. ItemType \subseteq AnyItem
    BY DEF ItemType, AnyItem
  <2> QED BY <2>1
<1>2. Item("infoEnd", 0) \in AnyItem /\ Item("truncated", 0) \in AnyItem
  BY DEF Item, AnyItem, Values
<1>3. CASE Len(all) <= bufLen
  <2>1. PICK z \in AnyItem : z = Item("infoEnd", 0)
    BY <1>2
  <2>2. answer(fn, m, next) = Append(all, z)
    BY <1>3, <2>1 DEF answer
  <2>3. PICK a : a = Append(all, z)
    OBVIOUS
  <2>4. a \in Seq(AnyItem) /\ Len(a) = Len(all) + 1 /\ a[Len(all) + 1] = z /\ \A i \in 1..Len(all) : a[i] = all[i]
    BY <1>1, <2>3, AppendProperties
  <2>5. IsBuffer(a, all, Len(all))
    BY <1>3, <2>1, <2>4 DEF IsBuffer
  <2>6. Len(all) \in 0..Len(all)
    OBVIOUS
  <2> QED BY <2>2, <2>3, <2>5, <2>6
<1>4. CASE ~(Len(all) <= bufLen)
  <2>1. PICK z \in AnyItem : z = Item("truncated", 0)
    BY <1>2
  <2>2. PICK k : k = cutAt(all)
    OBVIOUS
  <2>3. k \in 0..Len(all)
    BY <1>4, <2>2 DEF cutAt
  <2>4. PICK b : b = SubSeq(all, 1, k)
    OBVIOUS
  <2>5. b \in Seq(AnyItem) /\ Len(b) = k /\ \A i \in 1..k : b[i] = all[i]
    BY <1>1, <2>3, <2>4
  <2>6. answer(fn, m, next) = Append(b, z)
    BY <1>4, <2>1, <2>2, <2>4 DEF answer
  <2>7. PICK a : a = Append(b, z)
    OBVIOUS
  <2>8. a \in Seq(AnyItem) /\ Len(a) = k + 1 /\ a[k + 1] = z /\ \A i \in 1..k : a[i] = b[i]
    BY <2>5, <2>7, AppendProperties
  <2>9. IsBuffer(a, all, k)
    BY <1>4, <2>1, <2>2, <2>5, <2>8 DEF IsBuffer
  <2> QED BY <2>3, <2>6, <2>7, <2>9
<1> QED BY <1>3, <1>4

LEMMA TruncatedMeans ==
  ASSUME NEW a, NEW all \in Seq(ItemType), NEW c \in Nat, IsBuffer(a, all, c), bufLen \in Nat
  PROVE  isTruncated(a) <=> Len(all) > bufLen
<1>1. Len(a) = c + 1 /\ a[c + 1] = Item(IF Len(all) <= bufLen THEN "infoEnd" ELSE "truncated", 0)
  BY DEF IsBuffer
<1>2. Len(all) \in Nat
  OBVIOUS
<1>3. CASE Len(all) <= bufLen
  BY <1>1, <1>2, <1>3 DEF isTruncated, Item
<1>4. CASE Len(all) > bufLen
  <2>1. ~(Len(all) <= bufLen)
    BY <1>2, <1>4
  <2> QED BY <1>1, <1>4, <2>1 DEF isTruncated, Item
<1> QED BY <1>2, <1>3, <1>4

\* One buffer, wherever it ends, extends what is known; the last one completes it.
LEMMA ChunkParsed ==
  ASSUME NEW fn, NEW m \in Meta, NEW st, Known(st, fn, m), bufLen \in Nat,
         NEW a, a = answer(fn, m, itemsWithSqldaStart(st))
  PROVE  /\ Known(parseSQLDescribeChunk(a, st), fn, m)
         /\ ~isTruncated(a) => Complete(parseSQLDescribeChunk(a, st), fn, m)
<1>1. PICK all : all = describeItems(fn, m, itemsWithSqldaStart(st))
  OBVIOUS
<1>2. all \in Seq(ItemType) /\ Len(all) \in Nat
  BY <1>1, AllItems
<1>3. PICK c \in 0..Len(all) : IsBuffer(a, all, c)
  BY <1>1, <1>2, AnswerIs
<1>4. c \in Nat /\ Len(a) = c + 1 /\ Len(a) \in Nat /\ (\A i \in 1..c : a[i] = all[i])
  BY <1>2, <1>3 DEF IsBuffer
<1>5. PICK p : p[0] = Start(st) /\ Follows(p, a, c + 1) /\ parseSQLDescribeChunk(a, st) = p[c + 1].st
  BY <1>4, ChunkDef
<1>6. Follows(p, all, c)
  <2>1. ASSUME NEW i \in 1..c PROVE p[i] = parseItem(p[i - 1], all[i])
    <3>1. i \in 1..c + 1
      BY <1>4
    <3> QED BY <1>4, <1>5, <3>1 DEF Follows
  <2> QED BY <2>1 DEF Follows
<1>7. p[c] \in ParserType /\ Known(p[c].st, fn, m) /\ (c = Len(all) => Complete(p[c].st, fn, m))
  BY <1>1, <1>5, <1>6, BufferParsed
<1>8. p[c + 1] = p[c]
  <2>1. c + 1 \in 1..c + 1 /\ (c + 1) - 1 = c
    BY <1>4
  <2>2. p[c + 1] = parseItem(p[c], a[c + 1])
    BY <1>5, <2>1 DEF Follows
  <2>3. \E tag \in {"infoEnd", "truncated"} : a[c + 1] = Item(tag, 0)
    BY <1>3 DEF IsBuffer
  <2> QED BY <1>7, <2>2, <2>3, LastItem
<1>9. ~isTruncated(a) => c = Len(all)
  <2>1. ~isTruncated(a) => Len(all) <= bufLen
    BY <1>2, <1>3, <1>4, TruncatedMeans
  <2> QED BY <1>3, <2>1 DEF IsBuffer
<1> QED BY <1>5, <1>7, <1>8, <1>9

----------------------------------------------------------------------------
(* What the descriptors tell the server *)

LEMMA NoneApplied ==
  ASSUME NEW r, r = [typ |-> "text", sub |-> "NONE", fromNone |-> FALSE], NoneCharset # "NONE"
  PROVE  applyNoneCharset(r) = [typ |-> "text", sub |-> NoneCharset, fromNone |-> TRUE]
<1> DEFINE x == NoneCharset
<1>0. PICK y : y = TRUE
  OBVIOUS
<1>1. PICK e : e = [r EXCEPT !.sub = x, !.fromNone = y]
  OBVIOUS
<1>2. PICK g : g = [typ |-> "text", sub |-> x, fromNone |-> y]
  OBVIOUS
<1>3. DOMAIN e = DOMAIN r /\ DOMAIN r = {"typ", "sub", "fromNone"} /\ DOMAIN g = {"typ", "sub", "fromNone"}
  BY <1>1, <1>2
<1>4. e.typ = "text" /\ e.sub = x /\ e.fromNone = y
  BY <1>1, <1>3
<1>5. g.typ = "text" /\ g.sub = x /\ g.fromNone = y
  BY <1>2
<1>6. \A k \in DOMAIN g : e[k] = g[k]
  BY <1>3, <1>4, <1>5
<1>7. e = [k \in DOMAIN e |-> e[k]] /\ g = [k \in DOMAIN g |-> g[k]]
  BY <1>1, <1>2
<1>8. e = g
  BY <1>3, <1>6, <1>7
<1>9. r.sub = "NONE" /\ r.typ = "text"
  OBVIOUS
<1>10. applyNoneCharset(r) = [r EXCEPT !.sub = x, !.fromNone = TRUE]
  BY <1>9 DEF applyNoneCharset
<1>11. applyNoneCharset(r) = e
  BY <1>0, <1>1, <1>10, Zenon
<1>12. g = [typ |-> "text", sub |-> x, fromNone |-> TRUE]
  BY <1>0, <1>2, Zenon
<1> QED BY <1>8, <1>11, <1>12

LEMMA ColumnAgrees ==
  ASSUME NEW col \in Column
  PROVE  wireColumn(applyNoneCharset(Raw(col))) = col
<1>1. CASE col.typ = "text"
  <2>1. PICK cs \in Charset : col = [typ |-> "text", sub |-> cs]
    BY <1>1 DEF Column
  <2>2. Raw(col) = [typ |-> "text", sub |-> cs, fromNone |-> FALSE]
    BY <2>1 DEF Raw
  <2>3. CASE NoneCharset # "NONE" /\ cs = "NONE"
    <3>1. applyNoneCharset(Raw(col)) = [typ |-> "text", sub |-> NoneCharset, fromNone |-> TRUE]
      <4>1. PICK r : r = Raw(col)
        OBVIOUS
      <4>2. r = [typ |-> "text", sub |-> "NONE", fromNone |-> FALSE]
        BY <2>2, <2>3, <4>1
      <4> QED BY <2>3, <4>1, <4>2, NoneApplied
    <3> QED BY <2>1, <2>3, <3>1 DEF wireColumn
  <2>4. CASE ~(NoneCharset # "NONE" /\ cs = "NONE")
    <3>1. applyNoneCharset(Raw(col)) = [typ |-> "text", sub |-> cs, fromNone |-> FALSE]
      BY <2>2, <2>4 DEF applyNoneCharset
    <3> QED BY <2>1, <3>1 DEF wireColumn
  <2> QED BY <2>3, <2>4
<1>2. CASE col.typ # "text"
  <2>1. col = [typ |-> "blob", sub |-> "NONE"]
    BY <1>2 DEF Column
  <2>2. applyNoneCharset(Raw(col)) = [typ |-> "blob", sub |-> "NONE", fromNone |-> FALSE]
    BY <2>1 DEF Raw, applyNoneCharset
  <2> QED BY <2>1, <2>2 DEF wireColumn
<1> QED BY <1>1, <1>2

LEMMA ColumnsAgree ==
  ASSUME NEW cols \in Seq(Column), NEW ds \in Seq(Descriptor), Len(ds) = Len(cols),
         \A j \in 1..Len(cols) : ds[j] = Raw(cols[j])
  PROVE  wireColumns(applyAll(ds)) = cols
<1>1. DOMAIN ds = 1..Len(cols) /\ DOMAIN cols = 1..Len(cols)
  OBVIOUS
<1>2. PICK e : e = applyAll(ds)
  OBVIOUS
<1>3. DOMAIN e = 1..Len(cols) /\ \A i \in 1..Len(cols) : e[i] = applyNoneCharset(Raw(cols[i]))
  BY <1>1, <1>2 DEF applyAll
<1>4. \A i \in 1..Len(cols) : wireColumn(e[i]) = cols[i]
  <2>1. ASSUME NEW i \in 1..Len(cols) PROVE wireColumn(e[i]) = cols[i]
    <3>1. cols[i] \in Column
      OBVIOUS
    <3> QED BY <1>3, <3>1, ColumnAgrees
  <2> QED BY <2>1
<1>5. wireColumns(e) = [i \in 1..Len(cols) |-> cols[i]]
  BY <1>3, <1>4 DEF wireColumns
<1>6. cols = [i \in 1..Len(cols) |-> cols[i]]
  OBVIOUS
<1> QED BY <1>2, <1>5, <1>6

AgreesWith(typ, outputs, inputs, fn, m) ==
  typ = m.typ /\ wireColumns(outputs) = Outputs(fn, m) /\ wireColumns(inputs) = m.bind

LEMMA CompleteAgrees ==
  ASSUME NEW fn, NEW m \in Meta, NEW st, Complete(st, fn, m)
  PROVE  AgreesWith(st.stmtType, applyAll(st.descs["select"]), applyAll(st.descs["bind"]), fn, m)
<1>1. /\ Known(st, fn, m) /\ st.stmtType = m.typ
      /\ st.done["select"] = Len(Outputs(fn, m)) /\ st.done["bind"] = Len(m.bind)
  BY DEF Complete
<1>2. Has(st, "select", Outputs(fn, m)) /\ Has(st, "bind", m.bind)
  BY <1>1 DEF Known
<1>3. "select" \in Section /\ "bind" \in Section
  BY DEF Section
<1>4. Outputs(fn, m) \in Seq(Column) /\ m.bind \in Seq(Column)
  BY <1>1, KnownBounds, MetaType
<1>5. wireColumns(applyAll(st.descs["select"])) = Outputs(fn, m)
  <2>1. PICK cols : cols = Outputs(fn, m)
    OBVIOUS
  <2>2. /\ st.descs["select"] \in Seq(Descriptor) /\ Len(st.descs["select"]) = Len(cols)
        /\ \A j \in 1..Len(cols) : st.descs["select"][j] = Raw(cols[j])
    BY <1>1, <1>2, <1>3, <1>4, <2>1, HasAll
  <2> QED BY <1>4, <2>1, <2>2, ColumnsAgree
<1>6. wireColumns(applyAll(st.descs["bind"])) = m.bind
  <2>1. PICK cols : cols = m.bind
    OBVIOUS
  <2>2. /\ st.descs["bind"] \in Seq(Descriptor) /\ Len(st.descs["bind"]) = Len(cols)
        /\ \A j \in 1..Len(cols) : st.descs["bind"][j] = Raw(cols[j])
    BY <1>1, <1>2, <1>3, <1>4, <2>1, HasAll
  <2> QED BY <1>4, <2>1, <2>2, ColumnsAgree
<1> QED BY <1>1, <1>5, <1>6 DEF AgreesWith

----------------------------------------------------------------------------
(* A describe that was cut is stored under bytes that no first buffer has *)

Ones == [s \in Section |-> 1]

LEMMA StartKnown ==
  ASSUME NEW fn, NEW m \in Meta
  PROVE  Known(State0, fn, m) /\ itemsWithSqldaStart(State0) = Ones
<1>1. /\ State0 \in StateType
      /\ \A s \in Section : State0.done[s] = 0 /\ State0.num[s] = 0 /\ State0.descs[s] = <<>>
  <2>1. [s \in Section |-> <<>>] \in [Section -> Seq(Descriptor)]
    OBVIOUS
  <2>2. [s \in Section |-> 0] \in [Section -> Nat]
    OBVIOUS
  <2>3. State0 \in StateType
    BY <2>1, <2>2 DEF State0, StateType
  <2> QED BY <2>3 DEF State0
<1>2. ASSUME NEW s \in Section, NEW cols \in Seq(Column) PROVE Has(State0, s, cols)
  <2>1. Len(<<>>) = 0 /\ Len(cols) \in Nat
    OBVIOUS
  <2> QED BY <1>1, <2>1 DEF Has
<1>3. Outputs(fn, m) \in Seq(Column) /\ m.bind \in Seq(Column) /\ "select" \in Section /\ "bind" \in Section
  BY MetaType DEF Outputs, Section
<1>4. Known(State0, fn, m)
  BY <1>2, <1>3 DEF Known
<1>5. itemsWithSqldaStart(State0) = Ones
  BY <1>1 DEF itemsWithSqldaStart, Ones
<1> QED BY <1>4, <1>5

\* The first item of a column, if there is one.
LEMMA FirstOfColumn ==
  ASSUME NEW cols, NEW d \in Nat
  PROVE  ColumnItem(cols, d, 1) = Item("seq", d + 1)
<1>1. (1 - 1) \div 4 = 0 /\ 1 % 4 = 1 /\ (d + 1) + 0 = d + 1
  OBVIOUS
<1> QED BY <1>1 DEF ColumnItem

LEMMA ItemsDiffer ==
  ASSUME NEW tag, NEW v, NEW other, NEW w, Item(tag, v) = Item(other, w)
  PROVE  tag = other /\ v = w
<1>1. Item(tag, v).tag = Item(other, w).tag /\ Item(tag, v).v = Item(other, w).v
  OBVIOUS
<1> QED BY <1>1 DEF Item

\* If a continuation is, item by item, the describe of some statement from its
\* beginning, then nothing was done before it.
LEMMA SameFromTheBeginning ==
  ASSUME NEW m \in Meta, NEW st, Known(st, "query", m), NEW m2 \in Meta,
         NEW all, all = describeItems("query", m, itemsWithSqldaStart(st)),
         NEW first, first = describeItems("query", m2, Ones),
         Len(all) = Len(first), \A i \in 1..Len(all) : all[i] = first[i]
  PROVE  itemsWithSqldaStart(st) = Ones
<1>1. PICK ds, db, L, K : /\ ds = st.done["select"] /\ db = st.done["bind"] /\ L = Len(m.select) /\ K = Len(m.bind)
  OBVIOUS
<1>2. PICK L2, K2 : L2 = Len(m2.select) /\ K2 = Len(m2.bind)
  OBVIOUS
<1>3. /\ L \in Nat /\ K \in Nat /\ L2 \in Nat /\ K2 \in Nat /\ ds \in 0..L /\ db \in 0..K
  BY <1>1, <1>2, KnownBounds, MetaType DEF Outputs
<1>4. /\ SectionAt(all, 1, "select", m.select, ds) /\ SectionAt(all, 3 + 4 * (L - ds), "bind", m.bind, db)
      /\ Len(all) = 3 + 4 * (L - ds) + 2 + 4 * (K - db)
  BY <1>1, AllItems DEF BindAt, Total
<1>5. /\ SectionAt(first, 1, "select", m2.select, 0) /\ SectionAt(first, 3 + 4 * L2, "bind", m2.bind, 0)
      /\ Len(first) = 3 + 4 * L2 + 2 + 4 * K2
  <2>1. Known(State0, "query", m2) /\ itemsWithSqldaStart(State0) = Ones
    BY StartKnown
  <2>2. State0.done["select"] = 0 /\ State0.done["bind"] = 0
    BY DEF State0, Section
  <2>3. /\ Len(first) = Total("query", m2, State0)
        /\ SectionAt(first, 1, "select", m2.select, State0.done["select"])
        /\ SectionAt(first, BindAt("query", m2, State0), "bind", m2.bind, State0.done["bind"])
    BY <2>1, AllItems
  <2>4. BindAt("query", m2, State0) = 3 + 4 * L2 /\ Total("query", m2, State0) = 3 + 4 * L2 + 2 + 4 * K2
    BY <1>2, <1>3, <2>2 DEF BindAt, Total
  <2> QED BY <2>2, <2>3, <2>4
<1>6. 4 * (L - ds) \in Nat /\ 4 * (K - db) \in Nat
  BY <1>3, ItemsLeft
<1>7. L = L2
  <2>1. 1 + 2 \in 1..Len(all)
    BY <1>4, <1>6
  <2>2. Item("count", L) = Item("count", L2)
    BY <1>1, <1>2, <1>4, <1>5, <2>1 DEF SectionAt
  <2> QED BY <2>2, ItemsDiffer
<1>8. ds = 0
  <2>1. SUFFICES ASSUME ds # 0 PROVE FALSE
    OBVIOUS
  <2>2. L > 0 /\ 1 + 2 + 1 \in 1..Len(all) /\ 1 \in 1..4 * (L2 - 0)
    BY <1>3, <1>4, <1>6, <1>7, <2>1
  <2>3. first[1 + 2 + 1] = Item("seq", 0 + 1)
    <3>1. first[1 + 2 + 1] = ColumnItem(m2.select, 0, 1)
      BY <1>2, <1>5, <2>2 DEF SectionAt
    <3> QED BY <3>1, FirstOfColumn
  <2>4. CASE ds = L
    <3>1. 3 + 4 * (L - ds) + 1 = 1 + 2 + 1
      BY <1>3, <2>4
    <3>2. all[1 + 2 + 1] = Item("bind", 0)
      BY <1>4, <3>1 DEF SectionAt
    <3>3. Item("bind", 0) = Item("seq", 0 + 1)
      BY <2>2, <2>3, <3>2
    <3> QED BY <3>3, ItemsDiffer
  <2>5. CASE ds # L
    <3>1. 1 \in 1..4 * (L - ds)
      BY <1>3, <2>5
    <3>2. all[1 + 2 + 1] = Item("seq", ds + 1)
      <4>1. all[1 + 2 + 1] = ColumnItem(m.select, ds, 1)
        BY <1>1, <1>4, <3>1 DEF SectionAt
      <4> QED BY <1>3, <4>1, FirstOfColumn
    <3>3. Item("seq", ds + 1) = Item("seq", 0 + 1)
      BY <2>2, <2>3, <3>2
    <3>4. ds + 1 = 0 + 1
      BY <3>3, ItemsDiffer
    <3> QED BY <1>3, <2>1, <3>4
  <2> QED BY <2>4, <2>5
<1>9. PICK B \in Nat : B = 3 + 4 * L /\ B = 3 + 4 * L2 /\ B = 3 + 4 * (L - ds)
  BY <1>3, <1>7, <1>8
<1>10. K = K2
  <2>1. B + 2 \in 1..Len(all)
    BY <1>4, <1>6, <1>9
  <2>2. Item("count", K) = Item("count", K2)
    BY <1>1, <1>2, <1>4, <1>5, <1>9, <2>1 DEF SectionAt
  <2> QED BY <2>2, ItemsDiffer
<1>11. db = 0
  <2>1. B + 2 + 4 * (K - db) = B + 2 + 4 * K2
    BY <1>4, <1>5, <1>9
  <2> QED BY <1>3, <1>9, <1>10, <2>1
<1>12. \A s \in Section : st.done[s] + 1 = 1
  <2>1. st.done["select"] = 0 /\ st.done["bind"] = 0
    BY <1>1, <1>8, <1>11
  <2>2. ASSUME NEW s \in Section PROVE st.done[s] = 0
    BY <2>1 DEF Section
  <2> QED BY <2>2
<1> QED BY <1>12 DEF itemsWithSqldaStart, Ones

NeverFirst(info) == \A m \in Meta : info # answer("query", m, Ones)

LEMMA OverwrittenIsNeverFirst ==
  ASSUME NEW m \in Meta, NEW st, Known(st, "query", m), bufLen \in Nat,
         Len(describeItems("query", m, Ones)) > bufLen,
         NEW info, DOMAIN info = 1..bufLen + 1,
         NEW a, a = answer("query", m, itemsWithSqldaStart(st)), ~isTruncated(a)
  PROVE  NeverFirst(overwritten(info, a))
<1>1. SUFFICES ASSUME NEW m2 \in Meta, overwritten(info, a) = answer("query", m2, Ones) PROVE FALSE
  BY DEF NeverFirst
<1>2. PICK all, first : /\ all = describeItems("query", m, itemsWithSqldaStart(st))
                        /\ first = describeItems("query", m2, Ones)
  OBVIOUS
<1>3. all \in Seq(ItemType) /\ Len(all) \in Nat
  BY <1>2, AllItems
<1>4. first \in Seq(ItemType) /\ Len(first) \in Nat
  <2>1. Known(State0, "query", m2) /\ itemsWithSqldaStart(State0) = Ones
    BY StartKnown
  <2> QED BY <1>2, <2>1, AllItems
<1>5. PICK c \in 0..Len(all) : IsBuffer(a, all, c)
  BY <1>2, <1>3, AnswerIs
<1>6. PICK b : b = answer("query", m2, Ones)
  OBVIOUS
<1>7. PICK c2 \in 0..Len(first) : IsBuffer(b, first, c2)
  BY <1>2, <1>4, <1>6, AnswerIs
<1>8. c \in Nat /\ c2 \in Nat
  BY <1>3, <1>4
<1>9. Len(all) <= bufLen /\ c = Len(all)
  <2>1. Len(all) <= bufLen
    BY <1>3, <1>5, <1>8, TruncatedMeans
  <2> QED BY <1>5, <2>1 DEF IsBuffer
<1>10. /\ Len(a) = c + 1 /\ a[c + 1] = Item("infoEnd", 0) /\ \A i \in 1..c : a[i] = all[i]
  BY <1>5, <1>9 DEF IsBuffer
<1>11. b = [k \in 1..bufLen + 1 |-> IF k <= c + 1 THEN a[k] ELSE info[k]]
  BY <1>1, <1>6, <1>10 DEF overwritten
<1>12. \A k \in 1..c + 1 : b[k] = a[k]
  BY <1>8, <1>9, <1>11
<1>13. Len(b) = bufLen + 1 /\ Len(b) = c2 + 1 /\ c2 = bufLen
  <2>1. b \in Seq(AnyItem) /\ Len(b) = c2 + 1
    BY <1>7 DEF IsBuffer
  <2>2. DOMAIN b = 1..c2 + 1 /\ DOMAIN b = 1..bufLen + 1
    BY <1>11, <2>1
  <2>3. c2 + 1 = bufLen + 1
    BY <1>8, <2>2
  <2> QED BY <1>8, <2>1, <2>3
<1>14. c = c2
  <2>1. SUFFICES ASSUME c # c2 PROVE FALSE
    OBVIOUS
  <2>2. c + 1 \in 1..c2 /\ c + 1 \in 1..c + 1 /\ c + 1 \in 1..Len(first)
    BY <1>4, <1>7, <1>8, <1>9, <1>13, <2>1
  <2>3. b[c + 1] = first[c + 1] /\ first[c + 1] \in ItemType
    BY <1>4, <1>7, <2>2 DEF IsBuffer
  <2>4. Item("infoEnd", 0) \in ItemType
    BY <1>10, <1>12, <2>2, <2>3
  <2> QED BY <2>4 DEF ItemType, Item, Tags, Section
<1>15. Len(first) <= bufLen
  <2>1. SUFFICES ASSUME ~(Len(first) <= bufLen) PROVE FALSE
    OBVIOUS
  <2>2. b[c2 + 1] = Item("truncated", 0)
    BY <1>7, <2>1 DEF IsBuffer
  <2>3. c + 1 \in 1..c + 1
    BY <1>8
  <2>4. Item("truncated", 0) = Item("infoEnd", 0)
    BY <1>10, <1>12, <1>14, <2>2, <2>3
  <2> QED BY <2>4, ItemsDiffer
<1>16. Len(all) = Len(first)
  BY <1>7, <1>9, <1>14, <1>15 DEF IsBuffer
<1>17. \A i \in 1..Len(all) : all[i] = first[i]
  <2>1. ASSUME NEW i \in 1..c PROVE all[i] = first[i]
    <3>1. i \in 1..c + 1 /\ i \in 1..c2
      BY <1>8, <1>14
    <3>2. b[i] = a[i] /\ a[i] = all[i]
      BY <1>10, <1>12, <3>1
    <3>3. b[i] = first[i]
      BY <1>7, <3>1 DEF IsBuffer
    <3> QED BY <3>2, <3>3
  <2> QED BY <1>9, <2>1
<1>18. itemsWithSqldaStart(st) = Ones
  BY <1>2, <1>16, <1>17, SameFromTheBeginning
<1> QED BY <1>2, <1>3, <1>9, <1>18

----------------------------------------------------------------------------
(* The inductive invariant *)

\* The entry is what the parser makes of a buffer that was not cut.
FromBuffer(e) ==
  LET st == parseSQLDescribeChunk(e.info, State0)
  IN /\ ~isTruncated(e.info) /\ e.stmtType = st.stmtType
     /\ e.outputs = applyAll(st.descs["select"]) /\ e.inputs = applyAll(st.descs["bind"])

CacheSound == cache.query = None \/ FromBuffer(cache) \/ NeverFirst(cache.info)

\* Only if all cut buffers are equally long does the cache hold nothing else.
CacheInv == Wide = {} => CacheSound

\* The first buffer was cut, and it lies where the continuations are copied.
CutFirst(c) ==
  /\ c.shared /\ DOMAIN c.info = 1..bufLen + 1
  /\ Len(describeItems(c.fn, c.meta, Ones)) > bufLen

\* A describe that is continued: what was read of its first buffer is known.
ContinueInv ==
  call.stage = "continue" =>
    /\ call = [fn |-> call.fn, stage |-> "continue", query |-> call.query, meta |-> call.meta,
               info |-> call.info, shared |-> call.shared, st |-> call.st]
    /\ call.meta \in Meta /\ Known(call.st, call.fn, call.meta)
    /\ Wide = {} => CutFirst(call)

DescribeInv ==
  /\ bufLen \in Nat /\ CacheInv /\ ContinueInv
  /\ call.stage = "described" /\ (Wide = {} \/ ~call.cached) => Agrees(call)
----------------------------------------------------------------------------
(* The steps *)

LEMMA InitDescribe == Init => DescribeInv
<1> SUFFICES ASSUME Init PROVE DescribeInv
  OBVIOUS
<1>1. bufLen \in Nat
  BY DescribeAssumption DEF Init
<1>2. cache.query = None
  BY DEF Init, NoEntry
<1>3. call.stage = "none"
  BY DEF Init, Idle
<1> QED BY <1>1, <1>2, <1>3 DEF DescribeInv, CacheInv, CacheSound, ContinueInv

\* The descriptors made of what the parser knows at the end.
LEMMA DescribedAgrees ==
  ASSUME NEW c, NEW b, NEW typ, NEW outputs, NEW inputs,
         AgreesWith(typ, outputs, inputs, c.fn, c.meta)
  PROVE  /\ Described(c, b, typ, outputs, inputs).stage = "described"
         /\ Agrees(Described(c, b, typ, outputs, inputs))
<1>1. PICK d : d = Described(c, b, typ, outputs, inputs)
  OBVIOUS
<1>2. /\ d.stage = "described" /\ d.fn = c.fn /\ d.meta = c.meta
      /\ d.stmtType = typ /\ d.outputs = outputs /\ d.inputs = inputs
  BY <1>1 DEF Described
<1>3. Agrees(d)
  BY <1>2 DEF Agrees, AgreesWith, Outputs
<1> QED BY <1>1, <1>2, <1>3

\* The end of a describe: what is stored was either read from one buffer or
\* lies under bytes that no first buffer has.
LEMMA FinishStep ==
  ASSUME bufLen \in Nat, CacheInv, bufLen' = bufLen, NEW c, NEW st, finish(c, st),
         c.meta \in Meta, Complete(st, c.fn, c.meta),
         Wide = {} => \/ ~isTruncated(c.info) /\ st = parseSQLDescribeChunk(c.info, State0)
                      \/ c.fn = "query" => NeverFirst(c.info)
  PROVE  DescribeInv'
<1>1. PICK outputs, inputs : outputs = applyAll(st.descs["select"]) /\ inputs = applyAll(st.descs["bind"])
  OBVIOUS
<1>2. AgreesWith(st.stmtType, outputs, inputs, c.fn, c.meta)
  BY <1>1, CompleteAgrees
<1>3. call' = Described(c, FALSE, st.stmtType, outputs, inputs)
  BY <1>1 DEF finish
<1>4. call'.stage = "described" /\ Agrees(call')
  BY <1>2, <1>3, DescribedAgrees
<1>5. NeverFirst(cache.info)' <=> NeverFirst(cache'.info)
  BY DEF NeverFirst, answer, cutAt
<1>6. CacheInv'
  <2> SUFFICES ASSUME Wide = {} PROVE CacheSound'
    BY DEF CacheInv
  <2>1. CASE c.fn # "query"
    <3>1. cache' = cache
      BY <2>1 DEF finish
    <3> QED BY <3>1 DEF CacheInv, CacheSound, FromBuffer, NeverFirst, answer, cutAt
  <2>2. CASE c.fn = "query"
    <3>1. cache' = [query |-> c.query, info |-> c.info, stmtType |-> st.stmtType,
                    outputs |-> outputs, inputs |-> inputs]
      BY <1>1, <2>2 DEF finish
    <3>2. /\ cache'.info = c.info /\ cache'.stmtType = st.stmtType
          /\ cache'.outputs = outputs /\ cache'.inputs = inputs
      BY <3>1
    <3>3. CASE NeverFirst(c.info)
      <4>1. NeverFirst(cache'.info)
        BY <3>2, <3>3
      <4>2. NeverFirst(cache.info)'
        BY <1>5, <4>1
      <4> QED BY <4>2 DEF CacheSound
    <3>4. CASE ~isTruncated(c.info) /\ st = parseSQLDescribeChunk(c.info, State0)
      <4>1. FromBuffer(cache)'
        BY <1>1, <3>2, <3>4 DEF FromBuffer
      <4> QED BY <4>1 DEF CacheSound
    <3> QED BY <2>2, <3>3, <3>4
  <2> QED BY <2>1, <2>2
<1>7. ContinueInv'
  BY <1>4 DEF ContinueInv
<1>8. (bufLen \in Nat)' /\ Agrees(call)'
  BY <1>4 DEF Agrees
<1> QED BY <1>6, <1>7, <1>8 DEF DescribeInv

\* The statement just prepared is described by one buffer, by the first of
\* several, or by the entry that was stored under the same bytes.
LEMMA PrepareStep ==
  ASSUME DescribeInv, NEW fn, NEW q \in Query, NEW m \in Meta, prepare(fn, q, m)
  PROVE  DescribeInv'
<1>1. bufLen \in Nat /\ CacheInv /\ bufLen' = bufLen
  BY DEF DescribeInv, prepare
<1>2. PICK info : info = answer(fn, m, Ones)
  OBVIOUS
<1>3. PICK st : st = parseSQLDescribeChunk(info, State0)
  OBVIOUS
<1>4. PICK c : c = [fn |-> fn, stage |-> "continue", query |-> q, meta |-> m, info |-> info,
                   shared |-> TRUE, st |-> st]
  OBVIOUS
<1>5. IF fn = "query" /\ descCacheLookup(q, info)
      THEN call' = Described(c, TRUE, cache.stmtType, cache.outputs, cache.inputs) /\ cache' = cache
      ELSE IF isTruncated(info) THEN call' = c /\ cache' = cache ELSE finish(c, c.st)
  BY <1>2, <1>3, <1>4 DEF prepare, Ones
<1>6. c.fn = fn /\ c.stage = "continue" /\ c.query = q /\ c.meta = m /\ c.info = info
      /\ c.shared = TRUE /\ c.st = st
  BY <1>4
<1>7. Known(State0, fn, m) /\ info = answer(fn, m, itemsWithSqldaStart(State0))
  BY <1>2, StartKnown
<1>8. Known(st, fn, m) /\ (~isTruncated(info) => Complete(st, fn, m))
  BY <1>1, <1>3, <1>7, ChunkParsed
<1>9. CASE fn = "query" /\ descCacheLookup(q, info)
  <2>1. cache.query = q /\ cache.info = info /\ cache' = cache
    BY <1>5, <1>9 DEF descCacheLookup
  <2>2. call' = Described(c, TRUE, cache.stmtType, cache.outputs, cache.inputs)
    BY <1>5, <1>9
  <2>3. call'.stage = "described" /\ call'.cached = TRUE
    BY <2>2 DEF Described
  <2>4. ASSUME Wide = {} PROVE Agrees(call')
    <3>1. cache.query # None
      BY <2>1, DescribeAssumption
    <3>2. ~NeverFirst(cache.info)
      BY <1>2, <1>9, <2>1 DEF NeverFirst
    <3>3. FromBuffer(cache)
      BY <1>1, <2>4, <3>1, <3>2 DEF CacheInv, CacheSound
    <3>4. /\ ~isTruncated(info) /\ cache.stmtType = st.stmtType
          /\ cache.outputs = applyAll(st.descs["select"]) /\ cache.inputs = applyAll(st.descs["bind"])
      BY <1>3, <2>1, <3>3 DEF FromBuffer
    <3>5. AgreesWith(st.stmtType, applyAll(st.descs["select"]), applyAll(st.descs["bind"]), fn, m)
      BY <1>8, <3>4, CompleteAgrees
    <3>6. AgreesWith(cache.stmtType, cache.outputs, cache.inputs, c.fn, c.meta)
      BY <1>6, <3>4, <3>5
    <3> QED BY <2>2, <3>6, DescribedAgrees
  <2>5. CacheInv' /\ ContinueInv'
    BY <1>1, <2>1, <2>3 DEF CacheInv, CacheSound, ContinueInv, FromBuffer, NeverFirst, answer, cutAt
  <2>6. (bufLen \in Nat)' /\ (Wide = {} => Agrees(call)')
    BY <1>1, <2>4 DEF Agrees
  <2> QED BY <2>3, <2>5, <2>6 DEF DescribeInv
<1>10. CASE ~(fn = "query" /\ descCacheLookup(q, info)) /\ isTruncated(info)
  <2>1. call' = c /\ cache' = cache
    BY <1>5, <1>10
  <2>2. PICK all : all = describeItems(fn, m, Ones)
    OBVIOUS
  <2>3. all \in Seq(ItemType) /\ Len(all) \in Nat
    BY <1>7, <2>2, StartKnown, AllItems
  <2>4. PICK k \in 0..Len(all) : IsBuffer(info, all, k)
    BY <1>1, <1>2, <2>2, <2>3, AnswerIs
  <2>5. Len(all) > bufLen
    BY <1>1, <1>10, <2>3, <2>4, TruncatedMeans
  <2>6. ASSUME Wide = {} PROVE DOMAIN info = 1..bufLen + 1
    BY <1>1, <2>3, <2>4, <2>5, <2>6 DEF IsBuffer, cutAt
  <2>7. ContinueInv'
    <3>1. /\ call'.fn = fn /\ call'.query = q /\ call'.meta = m /\ call'.info = info /\ call'.st = st
          /\ call'.stage = "continue" /\ call'.shared = TRUE
      BY <1>6, <2>1
    <3>2. call' = [fn |-> call'.fn, stage |-> "continue", query |-> call'.query, meta |-> call'.meta,
                   info |-> call'.info, shared |-> call'.shared, st |-> call'.st]
      BY <1>4, <2>1, <3>1
    <3>3. Known(call'.st, call'.fn, call'.meta)
      BY <1>8, <3>1
    <3>4. Len(describeItems(call'.fn, call'.meta, Ones)) > bufLen'
      BY <1>1, <2>2, <2>5, <3>1
    <3>5. call'.meta \in Meta /\ (Wide = {} => DOMAIN call'.info = 1..bufLen' + 1)
      BY <1>1, <2>6, <3>1
    <3>6. Wide = {} => CutFirst(call)'
      BY <3>1, <3>4, <3>5 DEF CutFirst
    <3> QED BY <3>2, <3>3, <3>5, <3>6 DEF ContinueInv
  <2>8. CacheInv'
    BY <1>1, <2>1 DEF CacheInv, CacheSound, FromBuffer, NeverFirst, answer, cutAt
  <2>9. (call.stage # "described")'
    BY <1>6, <2>1
  <2> QED BY <1>1, <2>7, <2>8, <2>9 DEF DescribeInv
<1>11. CASE ~(fn = "query" /\ descCacheLookup(q, info)) /\ ~isTruncated(info)
  <2>1. finish(c, st)
    BY <1>5, <1>6, <1>11
  <2>2. Complete(st, c.fn, c.meta) /\ c.meta \in Meta
    BY <1>6, <1>8, <1>11
  <2>3. ~isTruncated(c.info) /\ st = parseSQLDescribeChunk(c.info, State0)
    BY <1>3, <1>6, <1>11
  <2> QED BY <1>1, <2>1, <2>2, <2>3, FinishStep
<1> QED BY <1>9, <1>10, <1>11

LEMMA ContinueStep ==
  ASSUME DescribeInv, CompleteSQLDescribe
  PROVE  DescribeInv'
<1>1. bufLen \in Nat /\ CacheInv /\ ContinueInv /\ bufLen' = bufLen /\ call.stage = "continue"
  BY DEF DescribeInv, CompleteSQLDescribe
<1>2. PICK fn, q, m, info, sh, st0 :
        /\ fn = call.fn /\ q = call.query /\ m = call.meta /\ info = call.info /\ sh = call.shared
        /\ st0 = call.st
        /\ call = [fn |-> fn, stage |-> "continue", query |-> q, meta |-> m, info |-> info,
                   shared |-> sh, st |-> st0]
  BY <1>1 DEF ContinueInv
<1>3. /\ m \in Meta /\ Known(st0, fn, m)
      /\ Wide = {} => /\ sh /\ Len(describeItems(fn, m, Ones)) > bufLen /\ DOMAIN info = 1..bufLen + 1
  BY <1>1, <1>2 DEF ContinueInv, CutFirst
<1>4. PICK a : a = answer(fn, m, itemsWithSqldaStart(st0))
  OBVIOUS
<1>5. PICK st : st = parseSQLDescribeChunk(a, st0)
  OBVIOUS
<1>6. PICK c \in readGenericResponse(call, a) :
         IF ~isTruncated(a) THEN finish(c, st)
         ELSE /\ call' = IF noProgress(st0, st) THEN [fn |-> fn, stage |-> "error"] ELSE [c EXCEPT !.st = st]
              /\ cache' = cache
  BY <1>2, <1>4, <1>5 DEF CompleteSQLDescribe
<1>7. PICK fits \in BOOLEAN :
         /\ Len(a) <= Len(info) => fits
         /\ c = [call EXCEPT !.info = IF sh /\ fits THEN overwritten(info, a) ELSE info, !.shared = sh /\ fits]
  BY <1>2, <1>6 DEF readGenericResponse
<1>8. PICK w, sh1 : w = (IF sh /\ fits THEN overwritten(info, a) ELSE info) /\ sh1 = (sh /\ fits)
  OBVIOUS
<1>9. c = [fn |-> fn, stage |-> "continue", query |-> q, meta |-> m, info |-> w, shared |-> sh1, st |-> st0]
  <2>1. c = [call EXCEPT !.info = w, !.shared = sh1]
    BY <1>7, <1>8, Zenon
  <2>2. call = [fn |-> fn, stage |-> "continue", query |-> q, meta |-> m, info |-> info,
                shared |-> sh, st |-> st0]
    BY <1>2
  <2>3. PICK r, w2, sh2 : r = call /\ w2 = w /\ sh2 = sh1
    OBVIOUS
  <2>4. r = [fn |-> fn, stage |-> "continue", query |-> q, meta |-> m, info |-> info,
             shared |-> sh, st |-> st0]
    BY <2>2, <2>3
  <2>5. [r EXCEPT !.info = w2, !.shared = sh2] = [[r EXCEPT !.info = w2] EXCEPT !.shared = sh2]
    BY ONLY <2>4
  <2>6. PICK r1 : r1 = [r EXCEPT !.info = w2]
    OBVIOUS
  <2>7. r1 = [fn |-> fn, stage |-> "continue", query |-> q, meta |-> m, info |-> w2,
              shared |-> sh, st |-> st0]
    BY ONLY <2>4, <2>6
  <2>8. [r1 EXCEPT !.shared = sh2]
          = [fn |-> fn, stage |-> "continue", query |-> q, meta |-> m, info |-> w2, shared |-> sh2, st |-> st0]
    BY ONLY <2>7
  <2> QED BY <2>1, <2>3, <2>5, <2>6, <2>8
<1>10. c.fn = fn /\ c.query = q /\ c.meta = m /\ c.info = w /\ c.shared = sh1 /\ c.st = st0
  BY <1>9
<1>11. Known(st, fn, m) /\ (~isTruncated(a) => Complete(st, fn, m))
  BY <1>1, <1>3, <1>4, <1>5, ChunkParsed
\* With buffers of equal length the answer fits, and overwrites the first.
<1>12. ASSUME Wide = {} PROVE sh1 /\ w = overwritten(info, a)
  <2>1. PICK all : all = describeItems(fn, m, itemsWithSqldaStart(st0))
    OBVIOUS
  <2>2. all \in Seq(ItemType) /\ Len(all) \in Nat
    BY <1>3, <2>1, AllItems
  <2>3. PICK k \in 0..Len(all) : IsBuffer(a, all, k)
    BY <1>1, <1>4, <2>1, <2>2, AnswerIs
  <2>4. Len(a) = k + 1 /\ k <= bufLen
    BY <1>1, <1>12, <2>2, <2>3 DEF IsBuffer, cutAt
  <2>5. Len(info) = bufLen + 1
    BY <1>1, <1>3, <1>12
  <2>6. fits
    BY <1>1, <1>7, <2>2, <2>4, <2>5
  <2> QED BY <1>3, <1>8, <1>12, <2>6
<1>13. CASE ~isTruncated(a)
  <2>1. finish(c, st)
    BY <1>6, <1>13
  <2>2. Complete(st, c.fn, c.meta) /\ c.meta \in Meta
    BY <1>3, <1>10, <1>11, <1>13
  <2>3. ASSUME Wide = {}, c.fn = "query" PROVE NeverFirst(c.info)
    BY <1>1, <1>3, <1>4, <1>10, <1>12, <1>13, <2>3, OverwrittenIsNeverFirst
  <2> QED BY <1>1, <2>1, <2>2, <2>3, FinishStep
<1>14. CASE isTruncated(a)
  <2>1. cache' = cache
    BY <1>6, <1>14
  <2>2. CacheInv'
    BY <1>1, <2>1 DEF CacheInv, CacheSound, FromBuffer, NeverFirst, answer, cutAt
  <2>3. CASE noProgress(st0, st)
    <3>1. call'.stage = "error"
      BY <1>6, <1>14, <2>3
    <3> QED BY <1>1, <2>2, <3>1 DEF DescribeInv, ContinueInv
  <2>4. CASE ~noProgress(st0, st)
    <3>1. call' = [c EXCEPT !.st = st]
      BY <1>6, <1>14, <2>4
    <3>2. call' = [fn |-> fn, stage |-> "continue", query |-> q, meta |-> m, info |-> w,
                   shared |-> sh1, st |-> st]
      BY <1>9, <3>1
    <3>3. /\ call'.fn = fn /\ call'.query = q /\ call'.meta = m /\ call'.info = w /\ call'.st = st
          /\ call'.stage = "continue" /\ call'.shared = sh1
      BY <3>2
    <3>4. call' = [fn |-> call'.fn, stage |-> "continue", query |-> call'.query, meta |-> call'.meta,
                   info |-> call'.info, shared |-> call'.shared, st |-> call'.st]
      BY <3>2, <3>3
    <3>5. Known(call'.st, call'.fn, call'.meta) /\ call'.meta \in Meta
      BY <1>3, <1>11, <3>3
    <3>6. ASSUME Wide = {} PROVE CutFirst(call)'
      <4>1. DOMAIN w = 1..bufLen + 1
        BY <1>3, <1>12, <3>6 DEF overwritten
      <4>2. Len(describeItems(call'.fn, call'.meta, Ones)) > bufLen'
        BY <1>1, <1>3, <3>3, <3>6
      <4>3. call'.shared /\ DOMAIN call'.info = 1..bufLen' + 1
        BY <1>1, <1>12, <3>3, <3>6, <4>1
      <4> QED BY <4>2, <4>3 DEF CutFirst
    <3>7. ContinueInv'
      BY <3>3, <3>4, <3>5, <3>6 DEF ContinueInv
    <3>8. call'.stage # "described"
      BY <3>3
    <3> QED BY <1>1, <2>2, <3>7, <3>8 DEF DescribeInv
  <2> QED BY <2>3, <2>4
<1> QED BY <1>13, <1>14

LEMMA LeaveStep ==
  ASSUME DescribeInv, ContinuationFails \/ Return \/ UNCHANGED vars
  PROVE  DescribeInv'
<1>1. bufLen' = bufLen /\ cache' = cache
  BY DEF ContinuationFails, Return, vars
<1>2. (bufLen \in Nat)' /\ CacheInv'
  BY <1>1 DEF DescribeInv, CacheInv, CacheSound, FromBuffer, NeverFirst, answer, cutAt
<1>3. CASE ContinuationFails \/ Return
  <2>1. call'.stage \in {"error", "none"}
    BY <1>3 DEF ContinuationFails, Return, Idle
  <2> QED BY <1>2, <2>1 DEF DescribeInv, ContinueInv
<1>4. CASE UNCHANGED vars
  <2>1. call' = call /\ bufLen' = bufLen
    BY <1>4 DEF vars
  <2>2. ContinueInv' /\ (call.stage = "described" /\ (Wide = {} \/ ~call.cached) => Agrees(call))'
    BY <2>1 DEF DescribeInv, ContinueInv, CutFirst, Agrees
  <2> QED BY <1>2, <2>2 DEF DescribeInv
<1> QED BY <1>3, <1>4

----------------------------------------------------------------------------
(* The theorems *)

\* What parseSQLDescribeChunk has read of a statement is always a beginning of
\* its two sections, wherever the buffers were cut; if all cut buffers are equally
\* long, an entry of descCache is what one whole buffer says or can never be
\* found again.
THEOREM DescribeInvariant == Spec => []DescribeInv
<1>1. DescribeInv /\ [Next]_vars => DescribeInv'
  <2> SUFFICES ASSUME DescribeInv, [Next]_vars PROVE DescribeInv'
    OBVIOUS
  <2>1. CASE \E q \in Query, m \in Meta : PrepareContext(q, m) \/ ExecContext(q, m) \/ QueryContext(q, m)
    BY <2>1, PrepareStep DEF PrepareContext, ExecContext, QueryContext
  <2>2. CASE CompleteSQLDescribe
    BY <2>2, ContinueStep
  <2>3. CASE ContinuationFails \/ Return \/ UNCHANGED vars
    BY <2>3, LeaveStep
  <2> QED BY <2>1, <2>2, <2>3 DEF Next
<1> QED BY <1>1, InitDescribe, PTL DEF Spec

\* However many columns and parameters a statement has, and however small the
\* server's buffer is and wherever it cuts, the descriptors that CompleteSQLDescribe hands to the
\* method describe every one of them as the server does.
THEOREM DescriptorsAreComplete == Spec => []DescribeIsComplete
<1>1. DescribeInv => DescribeIsComplete
  BY DEF DescribeInv, DescribeIsComplete
<1> QED BY <1>1, DescribeInvariant, PTL

\* Descriptors that QueryContext takes from descCache are those of the
\* statement just prepared, whatever DDL ran since they were stored and however
\* often their describe was cut, as long as the server's cut answers are equally
\* long (with others TLC finds a stale entry).
THEOREM CachedDescriptorsAreFresh == ASSUME Wide = {} PROVE Spec => []CacheIsFresh
<1>1. DescribeInv => CacheIsFresh
  BY DEF DescribeInv, CacheIsFresh
<1> QED BY <1>1, DescribeInvariant, PTL


=============================================================================
