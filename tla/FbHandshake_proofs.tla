------------------------- MODULE FbHandshake_proofs -------------------------
(* Theorems about FbHandshake, for every number of attempts and every set   *)
(* of wire_crypt settings.                                                  *)
EXTENDS FbHandshake, TLAPS

OptCipher == Cipher \cup {"none"}

\* The variables have the types of the structs they stand for.
TypeOK ==
  /\ wireCrypt \in WireCrypt /\ deadline \in BOOLEAN
  /\ client \in [attempt: 1..MaxConnRetries, pc: Pc, plugin: Plugin, sessionKey: BOOLEAN,
                 keys: Keys, cipher: OptCipher, round: {1, 2},
                 err: {"none", "login", "other"}]
  /\ server \in [offer: Keys, told: BOOLEAN, cipher: OptCipher]
  /\ ctx \in {"live", "done"}
  /\ result \in {"none", "ok", "error"}

\* The attempt has got past the choice of a cipher.
Agreed == At("attach") \/ (At("returned") /\ result = "ok")

\* What each point of an attempt says about the ciphers of the two sides.
CryptInv ==
  /\ result # "none" <=> At("returned")
  /\ client.pc \in {"dial", "accept", "proof", "contAuth", "secondProof"} =>
       client.cipher = "none" /\ server.cipher = "none"
  /\ At("crypt") => client.cipher # "none" /\ server.cipher = "none" /\ wireCrypt # "disabled"
  /\ Agreed => /\ wireCrypt = "required" => client.cipher # "none"
               /\ wireCrypt = "disabled" => client.cipher = "none"
               /\ client.cipher = server.cipher

\* What each point of an attempt says about the keys the server has sent.  A
\* session key exists only after a challenge, so that nothing is encrypted
\* before the keys of the last answer to be looked at are known.
KeysInv ==
  /\ client.keys \in {NoKeys, server.offer}
  /\ client.pc \in {"dial", "accept", "contAuth"} => ~client.sessionKey
  /\ client.pc \in {"dial", "accept"} => ~server.told
  /\ client.pc \in {"dial", "accept", "proof"} => client.round = 1
  /\ client.pc \in {"contAuth", "secondProof"} => client.round = 2
  /\ client.pc \in {"proof", "contAuth", "secondProof"} /\ server.told =>
       client.keys = server.offer
  /\ (At("crypt") \/ Agreed) /\ client.cipher # "none" /\ server.offer.iv
       /\ (client.round = 2 => server.told) => client.cipher = "ChaCha"

\* Only a failed login waits for another attempt.
LoginInv ==
  /\ At("backoff") => client.err = "login" /\ client.attempt < MaxConnRetries
  /\ LoginIsRetried

HandshakeInv == TypeOK /\ CryptInv /\ KeysInv /\ LoginInv

----------------------------------------------------------------------------
(* Steps that several actions share *)

\* The end of an attempt, retried or not (newConnection).
LEMMA FailInv ==
  ASSUME HandshakeInv, NEW err \in {"login", "other"}, Fail(err),
         client.pc \notin {"backoff", "returned"}
  PROVE  HandshakeInv'
<1> USE HandshakeAssumption DEF HandshakeInv, Fail, isTransientAuthFailure, At
<1>1. TypeOK'
  BY DEF TypeOK, Pc
<1>2. CryptInv'
  BY DEF TypeOK, CryptInv, Agreed
<1>3. KeysInv'
  BY DEF TypeOK, CryptInv, KeysInv, Agreed
<1>4. LoginInv'
  BY DEF TypeOK, LoginInv, LoginIsRetried
<1> QED BY <1>1, <1>2, <1>3, <1>4

\* selectCipher returns a cipher or none, and ChaCha for a server that offers
\* it with an IV.
LEMMA SelectCipher ==
  ASSUME NEW keys \in Keys
  PROVE  /\ selectCipher(keys) \in OptCipher
         /\ keys.iv => selectCipher(keys) = "ChaCha"
BY DEF selectCipher, OptCipher, Cipher, Keys

\* activateEncryption, if the keys at hand are the server's wherever the last
\* answer was looked at.
LEMMA ActivateInv ==
  ASSUME HandshakeInv, NEW plugin \in Plugin, NEW keys \in Keys,
         activateEncryption([client EXCEPT !.plugin = plugin, !.keys = keys]),
         client.pc \in {"accept", "proof", "contAuth", "secondProof"},
         client.sessionKey /\ (client.round = 2 => server.told) => keys = server.offer,
         keys \in {NoKeys, server.offer}
  PROVE  HandshakeInv'
<1> DEFINE c == [client EXCEPT !.plugin = plugin, !.keys = keys]
<1> DEFINE cipher == IF c.sessionKey /\ wireCrypt # "disabled" THEN selectCipher(c.keys)
                     ELSE "none"
<1>1. CASE cipher = "none" /\ wireCrypt = "required"
  <2>1. Fail("other")
    BY <1>1 DEF activateEncryption
  <2> QED BY <2>1, FailInv
<1>2. CASE ~(cipher = "none" /\ wireCrypt = "required")
  <2>1. /\ client' = [c EXCEPT !.pc = IF cipher = "none" THEN "attach" ELSE "crypt",
                               !.cipher = cipher]
        /\ UNCHANGED <<wireCrypt, deadline, server, ctx, result>>
    BY <1>2 DEF activateEncryption
  <2>2. cipher \in OptCipher /\ (cipher # "none" /\ keys.iv => cipher = "ChaCha")
        /\ (cipher # "none" => client.sessionKey /\ wireCrypt # "disabled")
    BY SelectCipher DEF HandshakeInv, TypeOK, OptCipher
  <2> HIDE DEF cipher
  <2>3. /\ client'.pc = IF cipher = "none" THEN "attach" ELSE "crypt"
        /\ client'.cipher = cipher /\ client'.sessionKey = client.sessionKey
        /\ client'.round = client.round /\ client'.attempt = client.attempt
        /\ client'.err = client.err /\ client'.keys = keys
    BY <2>1 DEF HandshakeInv, TypeOK
  <2>4. TypeOK'
    BY <2>1, <2>2 DEF HandshakeInv, TypeOK, Pc
  <2>5. CryptInv'
    BY <1>2, <2>1, <2>2, <2>3 DEF HandshakeInv, CryptInv, Agreed, At
  <2>6. KeysInv'
    BY <2>1, <2>2, <2>3 DEF HandshakeInv, KeysInv, CryptInv, Agreed, At
  <2>7. LoginInv'
    BY <2>1, <2>3 DEF HandshakeInv, LoginInv, LoginIsRetried, CryptInv, At
  <2> QED BY <2>4, <2>5, <2>6, <2>7 DEF HandshakeInv
<1> QED BY <1>1, <1>2

\* A client whose plugin and keys stay is one whose plugin and keys are replaced
\* by themselves.
LEMMA SameClient ==
  ASSUME TypeOK, NEW keys
  PROVE  /\ client = [client EXCEPT !.plugin = client.plugin, !.keys = client.keys]
         /\ [client EXCEPT !.keys = keys]
              = [client EXCEPT !.plugin = client.plugin, !.keys = keys]
BY DEF TypeOK

----------------------------------------------------------------------------
(* One lemma per action *)

\* Keys that are sent or chosen are keys a server may have.
LEMMA KeysTypes ==
  ASSUME HandshakeInv
  PROVE  /\ NoKeys \in Keys /\ client.keys \in Keys /\ server.offer \in Keys
         /\ KeysSent \subseteq Keys /\ LastKeys \subseteq Keys
         /\ \A keys \in Keys : newer(keys) \in Keys
<1>1. NoKeys \in Keys
  BY DEF NoKeys, Keys
<1>2. client.keys \in Keys /\ server.offer \in Keys
  BY DEF HandshakeInv, TypeOK
<1> QED BY <1>1, <1>2 DEF KeysSent, LastKeys, newer

\* An error status ends the attempt like any other error.
LEMMA StatusErrorInv ==
  ASSUME HandshakeInv, StatusError, client.pc \notin {"backoff", "returned"}
  PROVE  HandshakeInv'
BY FailInv DEF StatusError

\* The dialer connects or fails.
LEMMA DialInv == ASSUME HandshakeInv, dial PROVE HandshakeInv'
<1>1. CASE Fail("other")
  BY <1>1, FailInv DEF dial, At
<1>2. CASE /\ client' = [client EXCEPT !.pc = "accept"]
           /\ UNCHANGED <<wireCrypt, deadline, server, ctx, result>>
  <2>1. TypeOK'
    BY <1>2 DEF HandshakeInv, TypeOK, Pc
  <2> QED BY <1>2, <2>1 DEF HandshakeInv, TypeOK, CryptInv, KeysInv, LoginInv, LoginIsRetried,
                            Agreed, At, dial
<1> QED BY <1>1, <1>2 DEF dial

\* The server's first answer, with or without keys, in any of its forms.
LEMMA AcceptInv == ASSUME HandshakeInv, accept PROVE HandshakeInv'
<1>1. PICK plugin \in Plugin, keys \in KeysSent, challenge \in BOOLEAN, authenticated \in BOOLEAN :
        LET c == [client EXCEPT !.plugin = plugin, !.keys = keys]
        IN \/ activateEncryption(c)
           \/ /\ \/ client' = [c EXCEPT !.pc = "proof", !.sessionKey = TRUE]
                 \/ client' = [c EXCEPT !.pc = "contAuth", !.round = 2]
              /\ Tells(keys)
              /\ UNCHANGED <<wireCrypt, deadline, ctx, result>>
  BY DEF accept
<1>2. At("accept") /\ keys \in Keys /\ ~client.sessionKey
  BY KeysTypes DEF accept, HandshakeInv, KeysInv, At
<1> DEFINE c == [client EXCEPT !.plugin = plugin, !.keys = keys]
<1>3. CASE activateEncryption(c)
  BY <1>2, <1>3, ActivateInv DEF At, KeysSent
<1>4. CASE /\ \/ client' = [c EXCEPT !.pc = "proof", !.sessionKey = TRUE]
              \/ client' = [c EXCEPT !.pc = "contAuth", !.round = 2]
           /\ Tells(keys)
           /\ UNCHANGED <<wireCrypt, deadline, ctx, result>>
  <2>1. TypeOK'
    BY <1>2, <1>4 DEF HandshakeInv, TypeOK, Pc, Tells
  <2>2. /\ client'.keys = keys /\ client'.cipher = client.cipher /\ client'.err = client.err
        /\ client'.attempt = client.attempt
        /\ \/ client'.pc = "proof" /\ client'.round = client.round
           \/ client'.pc = "contAuth" /\ client'.round = 2
                /\ client'.sessionKey = client.sessionKey
        /\ server'.told = (server.told \/ keys # NoKeys)
        /\ server'.cipher = server.cipher /\ server'.offer = server.offer
    BY <1>4 DEF HandshakeInv, TypeOK, Tells
  <2>3. CryptInv'
    BY <1>2, <1>4, <2>2 DEF HandshakeInv, CryptInv, Agreed, At
  <2>4. KeysInv'
    BY <1>2, <1>4, <2>2 DEF HandshakeInv, KeysInv, CryptInv, Agreed, At, KeysSent
  <2>5. LoginInv'
    BY <1>2, <1>4, <2>2 DEF HandshakeInv, LoginInv, LoginIsRetried, CryptInv, At
  <2> QED BY <2>1, <2>3, <2>4, <2>5 DEF HandshakeInv
<1> QED BY <1>1, <1>3, <1>4

\* By the answer to the proof the keys at hand are the server's.
LEMMA ProofInv == ASSUME HandshakeInv, proof PROVE HandshakeInv'
<1>1. client.pc = "proof" /\ client.round = 1 /\ client.plugin \in Plugin
  BY DEF proof, At, HandshakeInv, KeysInv, TypeOK
<1>2. CASE StatusError
  BY <1>1, <1>2, StatusErrorInv
<1>3. ASSUME NEW keys \in LastKeys,
             activateEncryption([client EXCEPT !.keys = newer(keys)])
      PROVE  HandshakeInv'
  <2>1. newer(keys) \in Keys
    BY KeysTypes
  <2>2. newer(keys) = server.offer
    BY <1>1 DEF LastKeys, KeysSent, newer, HandshakeInv, KeysInv
  <2>3. activateEncryption([client EXCEPT !.plugin = client.plugin, !.keys = newer(keys)])
    BY <1>3, SameClient DEF HandshakeInv
  <2> QED BY <1>1, <2>1, <2>2, <2>3, ActivateInv
<1> QED BY <1>2, <1>3 DEF proof

\* A second challenge may bring the keys; without one there is no session key.
LEMMA ContAuthInv == ASSUME HandshakeInv, contAuth PROVE HandshakeInv'
<1>1. client.pc = "contAuth" /\ client.round = 2 /\ ~client.sessionKey /\ client.plugin \in Plugin
  BY DEF contAuth, At, HandshakeInv, KeysInv, TypeOK
<1>2. CASE StatusError
  BY <1>1, <1>2, StatusErrorInv
<1>3. CASE activateEncryption(client)
  <2>1. activateEncryption([client EXCEPT !.plugin = client.plugin, !.keys = client.keys])
    BY <1>3, SameClient DEF HandshakeInv
  <2>2. client.keys \in {NoKeys, server.offer}
    BY DEF HandshakeInv, KeysInv
  <2> QED BY <1>1, <2>1, <2>2, KeysTypes, ActivateInv
<1>4. ASSUME NEW keys \in KeysSent,
             client' = [client EXCEPT !.pc = "secondProof", !.sessionKey = TRUE,
                                      !.keys = newer(keys)],
             Tells(keys),
             UNCHANGED <<wireCrypt, deadline, ctx, result>>
      PROVE  HandshakeInv'
  <2>1. newer(keys) \in Keys
    BY KeysTypes
  <2>2. TypeOK'
    BY <1>4, <2>1 DEF HandshakeInv, TypeOK, Pc, Tells
  <2>3. /\ client'.keys = newer(keys) /\ client'.cipher = client.cipher
        /\ client'.err = client.err /\ client'.attempt = client.attempt
        /\ client'.pc = "secondProof" /\ client'.round = 2
        /\ server'.told = (server.told \/ keys # NoKeys)
        /\ server'.cipher = server.cipher /\ server'.offer = server.offer
    BY <1>1, <1>4 DEF HandshakeInv, TypeOK, Tells
  <2>4. CryptInv'
    BY <1>1, <1>4, <2>3 DEF HandshakeInv, CryptInv, Agreed, At
  <2>5. KeysInv'
    BY <1>1, <1>4, <2>3 DEF HandshakeInv, KeysInv, CryptInv, Agreed, At, KeysSent, newer
  <2>6. LoginInv'
    BY <1>1, <1>4, <2>3 DEF HandshakeInv, LoginInv, LoginIsRetried, CryptInv, At
  <2> QED BY <2>2, <2>4, <2>5, <2>6 DEF HandshakeInv
<1> QED BY <1>2, <1>3, <1>4 DEF contAuth

\* The answer to the second proof is not looked at: the keys are those known.
LEMMA SecondProofInv == ASSUME HandshakeInv, secondProof PROVE HandshakeInv'
<1>1. client.pc = "secondProof" /\ client.round = 2 /\ client.plugin \in Plugin
      /\ client.keys \in {NoKeys, server.offer}
      /\ (server.told => client.keys = server.offer)
  BY DEF secondProof, At, HandshakeInv, KeysInv, TypeOK
<1>2. CASE StatusError
  BY <1>1, <1>2, StatusErrorInv
<1>3. CASE activateEncryption(client)
  <2>1. activateEncryption([client EXCEPT !.plugin = client.plugin, !.keys = client.keys])
    BY <1>3, SameClient DEF HandshakeInv
  <2> QED BY <1>1, <2>1, KeysTypes, ActivateInv
<1> QED BY <1>2, <1>3 DEF secondProof

\* The server takes the client's cipher or the attempt fails.
LEMMA CryptStepInv == ASSUME HandshakeInv, crypt PROVE HandshakeInv'
<1>1. client.pc = "crypt"
  BY DEF crypt, At
<1>2. CASE Fail("other")
  BY <1>1, <1>2, FailInv
<1>3. CASE /\ server' = [server EXCEPT !.cipher = client.cipher]
           /\ client' = [client EXCEPT !.pc = "attach"]
           /\ UNCHANGED <<wireCrypt, deadline, ctx, result>>
  <2>1. TypeOK'
    BY <1>3 DEF HandshakeInv, TypeOK, Pc
  <2>2. /\ client'.pc = "attach" /\ client'.cipher = client.cipher
        /\ client'.round = client.round /\ client'.keys = client.keys
        /\ client'.err = client.err /\ client'.attempt = client.attempt
        /\ server'.cipher = client.cipher /\ server'.told = server.told
        /\ server'.offer = server.offer
    BY <1>3 DEF HandshakeInv, TypeOK
  <2>3. CryptInv' /\ KeysInv'
    BY <1>1, <1>3, <2>2 DEF HandshakeInv, CryptInv, KeysInv, Agreed, At
  <2>4. LoginInv'
    BY <1>1, <1>3, <2>2 DEF HandshakeInv, LoginInv, LoginIsRetried, CryptInv, At
  <2> QED BY <2>1, <2>3, <2>4 DEF HandshakeInv
<1> QED BY <1>2, <1>3 DEF crypt

\* The database is attached: newConnection returns the connection.
LEMMA AttachInv == ASSUME HandshakeInv, attach PROVE HandshakeInv'
<1>1. client.pc = "attach"
  BY DEF attach, At
<1>2. CASE StatusError
  BY <1>1, <1>2, StatusErrorInv
<1>3. CASE /\ client' = [client EXCEPT !.pc = "returned", !.err = "none"]
           /\ result' = "ok"
           /\ UNCHANGED <<wireCrypt, deadline, server, ctx>>
  <2>1. TypeOK'
    BY <1>3 DEF HandshakeInv, TypeOK, Pc
  <2>2. /\ client'.pc = "returned" /\ client'.cipher = client.cipher
        /\ client'.round = client.round /\ client'.keys = client.keys
        /\ client'.err = "none" /\ client'.attempt = client.attempt
    BY <1>3 DEF HandshakeInv, TypeOK
  <2>3. CryptInv' /\ KeysInv'
    BY <1>1, <1>3, <2>2 DEF HandshakeInv, CryptInv, KeysInv, Agreed, At
  <2>4. LoginInv'
    BY <1>1, <1>3, <2>2 DEF HandshakeInv, LoginInv, LoginIsRetried, At
  <2> QED BY <2>1, <2>3, <2>4 DEF HandshakeInv
<1> QED BY <1>2, <1>3 DEF attach

\* After the pause: a new attempt that knows nothing, or the end.
LEMMA BackoffInv == ASSUME HandshakeInv, backoff PROVE HandshakeInv'
<1>1. /\ client.pc = "backoff" /\ client.err = "login"
      /\ client.attempt < MaxConnRetries /\ client.attempt \in 1..MaxConnRetries
      /\ MaxConnRetries \in Nat
  BY HandshakeAssumption DEF backoff, At, HandshakeInv, LoginInv, TypeOK
<1>2. CASE /\ client' = Attempt(client.attempt + 1)
           /\ server' = [server EXCEPT !.told = FALSE, !.cipher = "none"]
           /\ UNCHANGED <<wireCrypt, deadline, ctx, result>>
  <2>1. client.attempt + 1 \in 1..MaxConnRetries
    BY <1>1
  <2>2. TypeOK'
    BY <1>2, <2>1, KeysTypes
       DEF HandshakeInv, TypeOK, Attempt, Pc, Plugin, OptCipher
  <2>3. /\ server'.told = FALSE /\ server'.cipher = "none" /\ server'.offer = server.offer
    BY <1>2 DEF HandshakeInv, TypeOK
  <2>4. CryptInv' /\ KeysInv'
    BY <1>1, <1>2, <2>3 DEF HandshakeInv, CryptInv, KeysInv, Agreed, At, Attempt
  <2>5. LoginInv'
    BY <1>2 DEF LoginInv, LoginIsRetried, At, Attempt
  <2> QED BY <2>2, <2>4, <2>5 DEF HandshakeInv
<1>3. CASE /\ ctx = "done"
           /\ client' = [client EXCEPT !.pc = "returned"]
           /\ result' = "error"
           /\ UNCHANGED <<wireCrypt, deadline, server, ctx>>
  <2>1. TypeOK'
    BY <1>3 DEF HandshakeInv, TypeOK, Pc
  <2>2. client'.pc = "returned" /\ client'.keys = client.keys
    BY <1>3 DEF HandshakeInv, TypeOK
  <2>3. CryptInv' /\ KeysInv' /\ LoginInv'
    BY <1>1, <1>3, <2>2
       DEF HandshakeInv, CryptInv, KeysInv, LoginInv, LoginIsRetried, Agreed, At
  <2> QED BY <2>1, <2>3 DEF HandshakeInv
<1> QED BY <1>2, <1>3 DEF backoff

\* The end of the context only ever allows more.
LEMMA CtxEndsInv == ASSUME HandshakeInv, ctxEnds PROVE HandshakeInv'
BY DEF HandshakeInv, ctxEnds, TypeOK, CryptInv, KeysInv, LoginInv, LoginIsRetried, Agreed, At

\* Errors that may come at any answer.
LEMMA ErrorsInv ==
  ASSUME HandshakeInv, refused \/ deadlinePasses \/ readFails
  PROVE  HandshakeInv'
<1>1. Fail("other") /\ client.pc \notin {"backoff", "returned"}
  BY DEF refused, deadlinePasses, readFails, Waiting, At
<1> QED BY <1>1, FailInv

----------------------------------------------------------------------------
(* The theorems *)

\* The inductive invariant of newConnection's attempts: at each point of the
\* exchange, which cipher the two sides use and which keys the client knows.
THEOREM HandshakeInvariant == Spec => []HandshakeInv
<1>1. Init => HandshakeInv
  <2> SUFFICES ASSUME Init PROVE HandshakeInv
    OBVIOUS
  <2>1. NoKeys \in Keys
    BY DEF NoKeys, Keys
  <2>2. 1 \in 1..MaxConnRetries
    BY HandshakeAssumption
  <2>3. TypeOK
    BY <2>1, <2>2 DEF Init, TypeOK, Attempt, Pc, Plugin, OptCipher
  <2> QED BY <2>3 DEF Init, HandshakeInv, CryptInv, KeysInv, LoginInv, LoginIsRetried, Attempt,
                      Agreed, At
<1>2. HandshakeInv /\ [Next]_vars => HandshakeInv'
  <2> SUFFICES ASSUME HandshakeInv, [Next]_vars PROVE HandshakeInv'
    OBVIOUS
  <2>1. CASE UNCHANGED vars
    BY <2>1 DEF HandshakeInv, vars, TypeOK, CryptInv, KeysInv, LoginInv, LoginIsRetried, Agreed, At
  <2> QED BY <2>1, DialInv, AcceptInv, ProofInv, ContAuthInv, SecondProofInv, CryptStepInv,
             AttachInv, BackoffInv, CtxEndsInv, ErrorsInv DEF Next
<1> QED BY <1>1, <1>2, PTL DEF Spec

\* A connection handed out is encrypted as wire_crypt says, with the same cipher
\* on both sides, whichever way the server led the client through
\* authentication and however many attempts failed before
\* (activateEncryption).
THEOREM EncryptedAsConfigured == Spec => []CryptAsConfigured
<1>1. HandshakeInv => CryptAsConfigured
  BY DEF HandshakeInv, CryptInv, CryptAsConfigured, Agreed
<1> QED BY <1>1, HandshakeInvariant, PTL

\* An encrypted connection to a server that offers ChaCha with an IV uses
\* ChaCha, unless the keys came only with an answer the client does not look
\* at (selectCipher).
THEOREM ChaChaIsPreferred == Spec => []PreferredCipher
<1>1. HandshakeInv => PreferredCipher
  BY DEF HandshakeInv, CryptInv, KeysInv, PreferredCipher, Agreed
<1> QED BY <1>1, HandshakeInvariant, PTL

\* newConnection returns isc_login only after its last attempt or after the
\* context ended.
THEOREM LoginsAreRetried == Spec => []LoginIsRetried
<1>1. HandshakeInv => LoginIsRetried
  BY DEF HandshakeInv, LoginInv
<1> QED BY <1>1, HandshakeInvariant, PTL
=============================================================================
