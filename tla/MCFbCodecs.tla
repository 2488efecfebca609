----------------------------- MODULE MCFbCodecs -----------------------------
(* The conversions for TLC: one state for each input of the instance. *)
EXTENDS FbDecimal, FbTemporal, FbText, FbMessage, FbConfig, FbSrp, FbCounts

VARIABLE input

----------------------------------------------------------------------------
(* Values of the constants *)

WidthOf == [SQLShort |-> 6, SQLLong |-> 8, SQLInt64 |-> 10, SQLInt128 |-> 12]

DecTexts == [dec16 |-> 3, dec34 |-> 14]

Zone == {65535, 65000}

Runes == {"a", "space", "aTilde", "euro", "han", "emoji"}
Utf8Lengths == [a |-> 1, space |-> 1, aTilde |-> 2, euro |-> 3, han |-> 3, emoji |-> 4]

\* SJIS_0208, WIN1252 and GB18030, which needs four bytes for a rune of two.
Tables == 5 :> [han |-> 2] @@ 53 :> [aTilde |-> 1, euro |-> 1]
            @@ 69 :> [aTilde |-> 4, euro |-> 2, han |-> 2, emoji |-> 4]

Charsets == [utf8 |-> <<"UTF8", 4>>, latin1 |-> <<"ISO8859_1", 9>>]
Uppers == <<"ann", 3>> :> <<"ANN", 3>>
Login == <<"me", 2>>
Host == <<"host", 31>>

\* Any mix of the bytes will do for a hash; it must be small for KeysAgree.
Mix(bytes) == FoldLeft(LAMBDA acc, b : (3 * acc + b) % 7, 1, bytes)

----------------------------------------------------------------------------
(* Inputs *)

UpToLen(S, n) == UNION {[1..k -> S] : k \in 0..n}

Texts == {Text(neg, int, frac, exp) :
            neg \in BOOLEAN, int \in UpToLen({0, 5, 9}, 2), frac \in UpToLen({0, 4, 5}, 2), exp \in -1..2}
Numbers == {[kind |-> "text", v |-> t] : t \in {t \in Texts : t.int \o t.frac # <<>>}}
             \cup {[kind |-> "int", v |-> n] : n \in -70..70 \cup -530..-500 \cup 500..530}
             \cup {[kind |-> "bool", v |-> b] : b \in BOOLEAN}

PickNumeric ==
  \E t \in DOMAIN Bits, scale \in -2..0, x \in Numbers :
    input' = [kind |-> "numeric", typ |-> t, scale |-> scale, x |-> x]

PickDecfloat ==
  \E neg \in BOOLEAN, c \in {0, 1, 7, 8, 10, 100, 120, 899, 990, 1000, 7999, 8000, 9000, 9990, 9999},
     exp \in -9..5 :
    input' = [kind |-> "decfloat", neg |-> neg, coeff |-> c, exp |-> exp]

PickDeclet == \E c \in 0..999 : input' = [kind |-> "decfloat", neg |-> FALSE, coeff |-> c, exp |-> 0]

PickDate ==
  \E y \in {-401, -400, -101, -1, 0, 1, 1858, 1899, 1900, 1969, 1970, 2000, 2023, 2024, 2100},
     m \in 1..12, d \in 1..31 :
    /\ d <= DaysIn(y, m)
    /\ input' = [kind |-> "date", date |-> <<y, m, d>>]

PickTime ==
  \E h \in {0, 11, 23}, m \in {0, 59}, s \in {0, 59},
     ns \in {0, 1, 99999, 100000, 123456789, 999999999} :
    input' = [kind |-> "time", h |-> h, m |-> m, s |-> s, ns |-> ns]

PickZoned ==
  \E sec \in {0, 1800, 86399}, ns \in {0, 99999, 999999999}, loadable \in {{}, {65535}},
     offset \in {-43200, -12600, -75, -59, -1, 0, 1, 59, 60, 3600, 20700, 50400} :
    input' = [kind |-> "zoned", sec |-> sec, ns |-> ns, offset |-> offset, loadable |-> loadable]

PickServerZone ==
  \E tz \in {0, 1439, 1500, 2878, 2879, 5000, 65000, 65535}, loadable \in {{}, {65535}},
     minutes \in {-720, -90, 0, 1, 840} :
    input' = [kind |-> "zone", tz |-> tz, minutes |-> minutes, loadable |-> loadable]

PickText ==
  \E cs \in {0, 1, 2, 3, 4, 5, 21, 53, 68, 69}, collation \in {0, 2}, none \in {0, 4, 53, 69},
     chars \in 1..2, varying \in BOOLEAN, runes \in UpToLen(Rune, 2) :
    /\ cs \in {0, 1} => collation = 0
    /\ input' = [kind |-> "text", cs |-> cs, collation |-> collation, none |-> none,
                 chars |-> chars, varying |-> varying, runes |-> runes]

\* Columns of each type, and the lengths that meet the limits of a stack buffer.
Desc(t) == [typ |-> t, length |-> IF t = "text" THEN 5 ELSE 32]
Strings == {[null |-> FALSE, text |-> TRUE, len |-> l, enc |-> e, ok |-> TRUE] :
              <<l, e>> \in {<<0, 0>>, <<3, 3>>, <<6, 12>>, <<14, 28>>, <<16, 32>>, <<33, 33>>}}
Others == {[null |-> FALSE, text |-> FALSE, len |-> 2, enc |-> 2, ok |-> ok] : ok \in BOOLEAN}
Params(t) == {Null} \cup Others \cup (IF t \in {"text", "varying", "dec16", "dec34", "null", "other"} THEN Strings ELSE {})

PickMessage ==
  \/ \E s, t \in Type : \E v \in Params(s), w \in Params(t) :
       input' = [kind |-> "message", descs |-> <<Desc(s), Desc(t)>>, values |-> <<v, w>>]
  \/ \E s, t, u \in {"double", "timestamp", "varying"} :
       \E v \in Params(s), w \in Params(t), x \in {Null} \cup Others :
         input' = [kind |-> "message", descs |-> <<Desc(s), Desc(t), Desc(u)>>, values |-> <<v, w, x>>]

PickColumn ==
  \E t \in Type, scale \in {-2, 0}, sub \in 0..4, none \in BOOLEAN :
    input' = [kind |-> "column", desc |-> [typ |-> t, scale |-> scale, sub |-> sub], none |-> none]

\* Settings, some of them longer than one byte of length can say.
Given(key, text, num) == [key |-> key, text |-> text, num |-> num]
Queries ==
  {Given("charset", <<"latin1", 6>>, -1), Given("charset", NoText, -1), Given("none_charset", <<"utf8", 4>>, -1),
   Given("dialect", <<"3", 1>>, 3), Given("dialect", <<"1", 1>>, 1), Given("role", <<"chief", 5>>, -1),
   Given("set_bind", <<"int128 to varchar", 40>>, -1), Given("data_type_bind", <<"legacy", 6>>, -1),
   Given("timezone", <<"server", 6>>, -1), Given("timezone", <<"zone", 32>>, -1),
   Given("wire_crypt", <<"required", 8>>, -1), Given("wire_crypt", <<"always", 6>>, -1),
   Given("fetch_size", <<"0", 1>>, 0), Given("fetch_size", <<"9", 1>>, 9), Given("other", <<"x", 1>>, -1)}

PickDSN ==
  \E query \in UpToLen(Queries, 3), path \in {<<>>, <<"/", "d">>} :
    /\ \A i, j \in DOMAIN query : query[i].key = query[j].key => i = j
    /\ input' = [kind |-> "dsn", dsn |-> [path |-> path, user |-> <<"ann", 3>>, query |-> query]]

PickDatabase == \E db \in UpToLen({"/", "c", ":"}, 5) : input' = [kind |-> "database", db |-> db]

PickIdent ==
  \E user \in {<<"ann", 3>>, <<"long", 40>>}, len \in 0..70, wireCrypt \in 0..2 :
    input' = [kind |-> "ident", user |-> user, wireCrypt |-> wireCrypt, key |-> [k \in 1..len |-> <<"key", k>>]]

PickTx == \E level \in 0..8, readOnly \in BOOLEAN :
            input' = [kind |-> "tx", level |-> level, readOnly |-> readOnly]

\* An account's name is in capitals; the caller may type it in either case.
PickLogin ==
  \E plugin \in {"Srp", "Srp256"}, account \in {<<65>>, <<65, 66>>}, password \in {<<>>, <<99>>},
     salt \in {<<>>, <<0, 5>>, <<7, 1, 0>>}, a \in {0, 1, 5, 6, 9, 10, 16}, b \in 0..6, zeros \in 0..1,
     low \in SUBSET {1, 2}, padsU, padsM \in BOOLEAN :
    /\ low \subseteq DOMAIN account
    /\ input' = [kind |-> "login", plugin |-> plugin, account |-> account, password |-> password,
                 login |-> [i \in DOMAIN account |-> account[i] + (IF i \in low THEN 32 ELSE 0)],
                 salt |-> salt, a |-> a, b |-> b, zeros |-> zeros, padsU |-> padsU, padsM |-> padsM]

PickIV ==
  \E byte \in {0, 31}, counter \in {0, 1, 33, 1025} :
    input' = [kind |-> "iv", nonce |-> [i \in 1..12 |-> (byte * i) % 32], counter |-> counter]

PickCounts ==
  \E s \in {"insert", "update", "delete", "other"}, i, u \in {0, 3, 1000}, d \in {0, 40, 600000},
     cut \in 0..32 :
    input' = [kind |-> "counts", stmtType |-> s, cut |-> cut,
              n |-> [select |-> 5, insert |-> i, update |-> u, delete |-> d]]

Init == input = [kind |-> "none"]
Next ==
  /\ input.kind = "none"
  /\ \/ PickNumeric \/ PickDecfloat \/ PickDeclet \/ PickDate \/ PickTime \/ PickZoned
     \/ PickServerZone \/ PickText \/ PickMessage \/ PickColumn \/ PickDSN \/ PickDatabase \/ PickIdent
     \/ PickTx \/ PickLogin \/ PickIV \/ PickCounts

Spec == Init /\ [][Next]_input

----------------------------------------------------------------------------
(* Properties *)

\* NUMERIC and INT128 parameters arrive rounded half away from zero to the
\* column's scale or not at all (numericInt64, valueToInt128), and DECFLOAT and
\* scaled columns denote the server's number (scaledInt64, decfloatToString).
NumbersAreExact ==
  /\ input.kind = "numeric" => NumericIsExact(input.typ, input.scale, input.x, 3)
  /\ input.kind = "decfloat" => DecfloatIsExact(input.neg, input.coeff, input.exp,
                                                IF input.exp < 0 THEN -input.exp ELSE 0)

\* Dates, times and zones are kept: DateToMJD over the whole calendar,
\* TimeToTicks and its inverse, TIMESTAMP WITH TIME ZONE in both directions.
TimesAreKept ==
  /\ input.kind = "date" => DatesAreConsecutive(input.date)
  /\ input.kind = "time" => WallClockIsKept(input.h, input.m, input.s, input.ns)
  /\ input.kind = "zoned" => TimestampTZIsKept(0, input.sec, input.ns, input.offset, input.loadable)
  /\ input.kind = "zone" => ServerZoneIsKept(input.tz, input.minutes, input.loadable)

\* Text is stored in its column's charset and read back the same, also for
\* collated columns, NONE columns under none_charset, and text BLOBs.
TextsAreKept ==
  input.kind = "text" =>
    /\ TextIsKept(input.cs, input.collation, input.chars, input.none, input.varying, input.runes)
    /\ TextFits(input.cs, input.collation, input.chars, input.runes)
    /\ TextBlobIsKept(input.cs, input.none, input.runes)

\* The server, going by the BLR, and the driver, going by the descriptors, lay
\* out parameters and rows alike (appendBLRType, encodeValue, DecodeColumn),
\* whatever is NULL and whichever buffer EncodeParamsOptimalErr used, and values
\* have the Go type that ColumnTypeScanType says.
MessagesAreWhole ==
  /\ input.kind = "message" => /\ MessageIsWhole(input.descs, input.values)
                               /\ RowIsWhole(input.descs, input.values)
  /\ input.kind = "column" => ScanTypeIsTold(input.desc, input.none)

\* The server is told what the DSN and the transaction's options say, in
\* whatever order the query's map yields them and however long the texts are
\* (for a DSN without a role, see AttachIsAsConfigured).
SettingsArrive ==
  /\ input.kind = "dsn" => OrderIsIrrelevant(input.dsn) /\ AttachIsAsConfigured(input.dsn)
  /\ input.kind = "database" => DatabaseIsReachable(input.db)
  /\ input.kind = "ident" => IdentityArrives(input.user, input.key, input.wireCrypt)
  /\ input.kind = "tx" => TransactionIsAsAsked(input.level, input.readOnly)

\* SRP: both sides derive the same key and the server accepts the proof, with
\* every server unless a key begins with a zero byte, and then with one that
\* hashes as the client does (ComputeProof); ChaCha20 starts at the same place on
\* both sides (newChaCha20Cipher).
KeysAgree ==
  /\ input.kind = "login" =>
       KeysAgreeOn(input.plugin, input.account, input.login, input.password, input.salt,
                   input.a, input.b, input.zeros, input.padsU, input.padsM)
  /\ input.kind = "iv" => StreamsAgreeOn(input.nonce, input.counter)

\* RowsAffected is exact, also if the answer is cut (getRowsAffected).
CountsAreExact == input.kind = "counts" => CountsAreExactFor(input.n, input.stmtType, input.cut)

\* The claim of StackWriter.Overflowed.
OverflowReported ==
  input.kind = "message" => OverflowIsReported(input.descs, input.values)
=============================================================================
