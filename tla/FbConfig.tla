------------------------------ MODULE FbConfig ------------------------------
(***************************************************************************)
(* The data source name, and what the server is told of it: the            *)
(* configuration ParseDSN makes, the database parameter buffer of          *)
(* op_attach, the user identification block of op_connect, and the         *)
(* transaction parameter buffers.                                          *)
(*                                                                         *)
(* A text is <<name, length>>.   A byte of a buffer is a pair: <<name, k>> *)
(* is the k-th byte of a text, <<"n", v>> a number, <<"tag", t>> a tag.    *)
(***************************************************************************)
EXTENDS Integers, Sequences, SequencesExt

CONSTANTS
  ByteSize,    \* values of a byte: 256
  Canonical,   \* [charset names and aliases -> Firebird's name]: charsetByName
  Upper,       \* [texts with lower-case letters -> the same in upper case]
  OSUser,      \* what getOSUser and getHostname return
  Hostname

ASSUME ConfigAssumption == ByteSize \in Nat /\ ByteSize > 4

NoText == <<"", 0>>
Chars(text) == [k \in 1..text[2] |-> <<text[1], k>>]

----------------------------------------------------------------------------
(* ParseDSN *)

\* The part of the configuration a key of the query sets; keys are compared in
\* lower case, so that spellings are further aliases.
FieldOf(key) ==
  CASE key = "charset"      -> "Charset"
    [] key = "none_charset" -> "NoneCharset"
    [] key = "dialect"      -> "Dialect"
    [] key = "role"         -> "Role"
    [] key \in {"data_type_bind", "datatypebind", "set_bind", "isc_dpb_set_bind"} -> "DataTypeBind"
    [] key \in {"session_time_zone", "sessiontimezone",
                "isc_dpb_session_time_zone", "timezone"} -> "SessionTimeZone"
    [] key = "wire_crypt"   -> "WireCrypt"
    [] key = "fetch_size"   -> "FetchSize"
    [] OTHER                -> "none"

WireCryptOf ==
  "disabled" :> 0 @@ "false" :> 0 @@ "0" :> 0 @@ "enabled" :> 1 @@ "true" :> 1 @@ "1" :> 1
    @@ "required" :> 2

CanonicalName(text) == IF text[1] \in DOMAIN Canonical THEN Canonical[text[1]] ELSE text

\* setCharset as it would be if none_charset took its default inside the loop.
setCharsetAndNone(cfg, field, name) ==
  IF field = "Charset" THEN [cfg EXCEPT !.Charset = name, !.NoneCharset = name]
  ELSE [cfg EXCEPT !.NoneCharset = name]

setCharset(cfg, field, name) == [cfg EXCEPT ![field] = name]

\* One turn of the loop over the query.  A value has a text and, if it is the
\* decimal of a number, that number; otherwise num is -1.
parameter(acc, p) ==
  LET field == FieldOf(p.key)
  IN CASE acc.err \/ field = "none" -> acc
       [] field \in {"Charset", "NoneCharset"} ->
            [acc EXCEPT !.cfg = setCharset(@, field, CanonicalName(p.text))]
       [] field \in {"Role", "DataTypeBind", "SessionTimeZone"} ->
            [acc EXCEPT !.cfg[field] = p.text]
       [] field = "Dialect"   -> [acc EXCEPT !.err = p.num # 3]
       [] field = "WireCrypt" -> IF p.text[1] \in DOMAIN WireCryptOf
                                 THEN [acc EXCEPT !.cfg[field] = WireCryptOf[p.text[1]]]
                                 ELSE acc
       [] field = "FetchSize" -> IF p.num > 0 THEN [acc EXCEPT !.cfg[field] = p.num] ELSE acc

\* parseDatabasePath, on a sequence of characters.
isWindowsDrivePath(path) == Len(path) >= 2 /\ path[2] = ":"

parseDatabasePath(path) ==
  IF Len(path) >= 2 /\ path[1] = "/" /\ path[2] = "/" THEN Tail(path)
  ELSE IF path = <<>> \/ path[1] # "/" THEN path
  ELSE IF isWindowsDrivePath(Tail(path)) \/ ~Contains(Tail(path), "/") THEN Tail(path)
  ELSE path

\* The default of none_charset, after the loop.
noneDefault(cfg) == [cfg EXCEPT !.NoneCharset = IF @ = NoText THEN cfg.Charset ELSE @]

\* query is the order in which the map's keys happen to come.
ParseDSN(dsn) ==
  LET defaults == [Database |-> parseDatabasePath(dsn.path), User |-> dsn.user,
                   Charset |-> <<"UTF8", 4>>, NoneCharset |-> NoText, Dialect |-> 3, Role |-> NoText,
                   WireCrypt |-> 1, FetchSize |-> 200, DataTypeBind |-> NoText,
                   SessionTimeZone |-> NoText]
      r == FoldLeft(parameter, [err |-> FALSE, cfg |-> defaults], dsn.query)
  IN [err |-> r.err \/ defaults.Database = <<>>, cfg |-> noneDefault(r.cfg)]

----------------------------------------------------------------------------
(* The database parameter buffer *)

IscDpbUserName == 28
IscDpbLcCtype == 48
IscDpbSQLDialect == 63
IscDpbUtf8Filename == 77
IscDpbClientVersion == 80
IscDpbRemoteProtocol == 81
IscDpbHostName == 82
IscDpbOsUser == 83
IscDpbAuthPluginList == 85
IscDpbAuthPluginName == 86
IscDpbSessionTimeZone == 91
IscDpbSetBind == 93

\* A number in n bytes, the least significant first.
LE(v, n) == [k \in 1..n |-> <<"n", (v \div ByteSize^(k - 1)) % ByteSize>>]

\* WriteBytes, WriteString, WriteByteTag and WriteMarker.
WriteBytes(tag, bytes) == <<<<"tag", tag>>>> \o LE(Len(bytes), 4) \o bytes
WriteString(tag, text) == WriteBytes(tag, Chars(text))
WriteOptional(tag, text, given) == IF given THEN WriteString(tag, text) ELSE <<>>

DefaultPluginList == <<"Srp256,Srp", 10>>
PluginSrp256 == <<"Srp256", 6>>

\* ConnectContext's default for a charset set to nothing.
connectionCharset(cfg) == IF cfg.Charset = NoText THEN <<"UTF8", 4>> ELSE cfg.Charset

ToUpper(text) == IF text \in DOMAIN Upper THEN Upper[text] ELSE text

\* buildConnectDPB after its version byte.
buildConnectDPB(cfg) ==
  WriteString(IscDpbLcCtype, connectionCharset(cfg)) \o
  WriteBytes(IscDpbSQLDialect, <<<<"n", cfg.Dialect>>>>) \o
  WriteString(IscDpbUserName, ToUpper(cfg.User)) \o
  WriteString(IscDpbAuthPluginName, PluginSrp256) \o
  WriteString(IscDpbAuthPluginList, DefaultPluginList) \o
  WriteBytes(IscDpbUtf8Filename, <<>>) \o
  WriteString(IscDpbClientVersion, <<"go-firebird-driver/1.0", 22>>) \o
  WriteString(IscDpbRemoteProtocol, <<"TCP", 3>>) \o
  WriteString(IscDpbHostName, Hostname) \o
  WriteString(IscDpbOsUser, OSUser) \o
  WriteOptional(63, cfg.Role, cfg.Role # NoText) \o
  WriteOptional(IscDpbSetBind, cfg.DataTypeBind, cfg.DataTypeBind # NoText) \o
  WriteOptional(IscDpbSessionTimeZone, cfg.SessionTimeZone,
                cfg.SessionTimeZone # NoText /\ cfg.SessionTimeZone[1] # "server")

\* The server's view of a buffer of items with lengths of n bytes.
Broken == <<<<-1, <<>>>>>>

Items(buf, n) ==
  LET Length(p) == FoldRight(LAMBDA b, acc : b[2] + ByteSize * acc, SubSeq(buf, p + 1, p + n), 0)
      From[p \in 1..(Len(buf) + 1)] ==
        IF p = Len(buf) + 1 THEN <<>>
        ELSE IF buf[p][1] # "tag" \/ p + n > Len(buf)
                \/ \E k \in (p + 1)..(p + n) : buf[k][1] # "n" THEN Broken
        ELSE IF p + n + Length(p) > Len(buf) THEN Broken
        ELSE <<<<buf[p][2], SubSeq(buf, p + n + 1, p + n + Length(p))>>>> \o From[p + n + 1 + Length(p)]
  IN From[1]

----------------------------------------------------------------------------
(* The user identification block *)

CnctUser == 1
CnctHost == 4
CnctUserVerification == 6
CnctSpecificData == 7
CnctPluginName == 8
CnctLogin == 9
CnctPluginList == 10
CnctClientCrypt == 11

\* appendTag: the length is one byte.
appendTag(tag, bytes) == <<<<"tag", tag>>, <<"n", Len(bytes) % ByteSize>>>> \o bytes

\* appendSpecificData cuts the key in parts and numbers them from 0.
maxPart == ByteSize - 2

appendSpecificData(key) ==
  FlattenSeq([i \in 1..((Len(key) + maxPart - 1) \div maxPart) |->
    LET part == SubSeq(key, (i - 1) * maxPart + 1, IF i * maxPart < Len(key) THEN i * maxPart ELSE Len(key))
    IN appendTag(CnctSpecificData, <<<<"n", (i - 1) % ByteSize>>>> \o part)])

buildUserIdentBlock(user, key, wireCrypt) ==
  appendTag(CnctUser, Chars(OSUser)) \o
  appendTag(CnctHost, Chars(Hostname)) \o
  appendTag(CnctUserVerification, <<>>) \o
  appendTag(CnctLogin, Chars(ToUpper(user))) \o
  appendTag(CnctPluginName, Chars(PluginSrp256)) \o
  appendSpecificData(key) \o
  appendTag(CnctPluginList, Chars(DefaultPluginList)) \o
  <<<<"tag", CnctClientCrypt>>, <<"n", 4>>>> \o LE(wireCrypt, 4)

----------------------------------------------------------------------------
(* Transaction parameter buffers *)

\* buildTPB after the version byte, by isolation level of database/sql; a
\* level that Firebird has no equivalent of is an error.
isolationTPB ==
  0 :> <<"ReadCommitted", "RecVersion", "Wait">> @@ 2 :> <<"ReadCommitted", "RecVersion">>
    @@ 4 :> <<"Concurrency">> @@ 5 :> <<"Concurrency">> @@ 6 :> <<"Consistency">>

buildTPB(level, readOnly) ==
  IF level \notin DOMAIN isolationTPB THEN [err |-> TRUE, tpb |-> <<>>]
  ELSE [err |-> FALSE, tpb |-> Append(isolationTPB[level], IF readOnly THEN "Read" ELSE "Write")]

\* The implicit transaction of a statement outside a transaction.
defaultTPB == <<"ReadCommitted", "RecVersion", "Write", "Wait">>

\* What the server makes of it: the anomalies it lets happen, whether it may
\* write and whether it waits for a lock; a tag that is not there has its default.
ServerTx(tpb) ==
  [anomalies |-> CASE Contains(tpb, "Consistency")   -> {}
                   [] Contains(tpb, "ReadCommitted") -> {"nonrepeatable", "phantom", "skew"}
                   [] OTHER                          -> {"skew"},
   writes |-> ~Contains(tpb, "Read"),
   waits |-> ~Contains(tpb, "NoWait")]

\* The anomalies the caller accepts with each level.
Tolerated(level) ==
  CASE level \in {0, 2} -> {"nonrepeatable", "phantom", "skew"}
    [] level = 4        -> {"phantom", "skew"}
    [] level = 5        -> {"skew"}
    [] OTHER            -> {}

----------------------------------------------------------------------------
(* What the server is told *)

Orders(query) == {[i \in DOMAIN query |-> query[f[i]]] : f \in Permutations(DOMAIN query)}
FieldsOf(query) == [i \in DOMAIN query |-> FieldOf(query[i].key)]
Asks(query, field) == \E i \in DOMAIN query : FieldOf(query[i].key) = field

\* A DSN means the same in whatever order the map yields its parameters, unless
\* two of them set the same field.
OrderIsIrrelevant(dsn) ==
  IsInjective(FieldsOf(dsn.query)) =>
    \A q \in Orders(dsn.query) : ParseDSN([dsn EXCEPT !.query = q]).err = ParseDSN(dsn).err
      /\ (~ParseDSN(dsn).err => ParseDSN([dsn EXCEPT !.query = q]) = ParseDSN(dsn))

\* The server finds in the DPB each setting of the DSN once and nothing else,
\* whatever their lengths, and NONE columns are read in the charset of the
\* connection unless the DSN names one.  (A role is written under the tag of
\* the dialect; a charset set to nothing is UTF8 for the server only.)
AttachIsAsConfigured(dsn) ==
  LET cfg == ParseDSN(dsn).cfg
      tz == cfg.SessionTimeZone
      always == {<<IscDpbLcCtype, Chars(connectionCharset(cfg))>>, <<IscDpbSQLDialect, <<<<"n", 3>>>>>>,
                 <<IscDpbUserName, Chars(ToUpper(dsn.user))>>, <<IscDpbHostName, Chars(Hostname)>>,
                 <<IscDpbOsUser, Chars(OSUser)>>}
      bind == IF cfg.DataTypeBind = NoText THEN {} ELSE {<<IscDpbSetBind, Chars(cfg.DataTypeBind)>>}
      zone == IF tz = NoText \/ tz[1] = "server" THEN {} ELSE {<<IscDpbSessionTimeZone, Chars(tz)>>}
      constant == {IscDpbAuthPluginName, IscDpbAuthPluginList, IscDpbUtf8Filename, IscDpbClientVersion,
                   IscDpbRemoteProtocol}
      seen == Items(buildConnectDPB(cfg), 4)
  IN ~ParseDSN(dsn).err /\ cfg.Role = NoText =>
       /\ {i \in ToSet(seen) : i[1] \notin constant} = always \cup bind \cup zone
       /\ IsInjective([i \in DOMAIN seen |-> seen[i][1]])
       /\ ~Asks(dsn.query, "NoneCharset") /\ cfg.Charset # NoText
            => cfg.NoneCharset = connectionCharset(cfg)

\* Every database the server can be asked for, an alias, an absolute path or a
\* path on a drive, has a DSN: its path after a slash.
DatabaseIsReachable(db) ==
  db # <<>> /\ (db[1] = "/" \/ isWindowsDrivePath(db) \/ ~Contains(db, "/"))
    => parseDatabasePath(<<"/">> \o db) = db

\* The server reassembles the public key from its parts and reads the other
\* values of the block, if none of those is longer than its length byte can say.
IdentityArrives(user, key, wireCrypt) ==
  LET seen == Items(buildUserIdentBlock(user, key, wireCrypt), 1)
      parts == SelectSeq(seen, LAMBDA i : i[1] = CnctSpecificData)
  IN (\A t \in {OSUser, Hostname, user, DefaultPluginList} : t[2] < ByteSize) =>
       /\ FlattenSeq([i \in DOMAIN parts |-> Tail(parts[i][2])]) = key
       /\ \A i \in DOMAIN parts : parts[i][2][1] = <<"n", i - 1>>
       /\ {<<CnctUser, Chars(OSUser)>>, <<CnctHost, Chars(Hostname)>>, <<CnctLogin, Chars(ToUpper(user))>>,
           <<CnctClientCrypt, LE(wireCrypt, 4)>>} \subseteq ToSet(seen)

\* A transaction is isolated at least as well as its level asks and reads only
\* if asked; a statement outside a transaction runs as in one of default options.
TransactionIsAsAsked(level, readOnly) ==
  LET r == buildTPB(level, readOnly)
      tx == ServerTx(r.tpb)
  IN /\ ~r.err => tx.anomalies \subseteq Tolerated(level) /\ tx.writes = ~readOnly /\ tx.waits
     /\ level = 0 /\ ~readOnly => tx = ServerTx(defaultTPB)
=============================================================================
