---------------------------- MODULE FbHandshake ----------------------------
(***************************************************************************)
(* newConnection: up to maxConnRetries attempts of wire.ConnectContext,    *)
(* which dials, authenticates with SRP, agrees on wire encryption and      *)
(* attaches the database.                                                  *)
(*                                                                         *)
(* An attempt is a sequence of round trips.  One action reads the server's *)
(* answer to one request, decides, and writes the next request; client.pc  *)
(* names the answer being waited for.  Every error return closes the       *)
(* socket, so that a later attempt shares nothing with an earlier one.     *)
(***************************************************************************)
EXTENDS Naturals

CONSTANTS
  MaxConnRetries,  \* maxConnRetries
  WireCrypt        \* the wire_crypt settings considered

ASSUME HandshakeAssumption ==
  /\ MaxConnRetries \in Nat \ {0}
  /\ WireCrypt \subseteq {"disabled", "enabled", "required"}

VARIABLES
  wireCrypt,  \* ProtocolConfig.WireCrypt
  client,     \* the attempt in progress: its number and its local variables
  server,     \* what the server can do and what it does on this socket
  deadline,   \* TRUE: the context given to Connect has a deadline
  ctx,        \* "live" or "done"
  result      \* what newConnection returned: "none", "ok", "error"

vars == <<wireCrypt, deadline, client, server, ctx, result>>

Cipher == {"ChaCha", "Arc4"}
Plugin == {"Srp256", "Srp"}

\* p_acpt_keys: the plugins the server offers and whether ChaCha's IV is there.
Keys == {k \in [plugins: SUBSET Cipher, iv: BOOLEAN] : k.iv => "ChaCha" \in k.plugins}
NoKeys == [plugins |-> {}, iv |-> FALSE]

Pc == {"dial", "accept", "proof", "contAuth", "secondProof", "crypt", "attach", "backoff",
       "returned"}
Waiting == client.pc \in Pc \ {"dial", "backoff", "returned"}

\* A new attempt: a new SRP client, nothing known of the server.
Attempt(n) ==
  [attempt |-> n, pc |-> "dial", plugin |-> "Srp256", sessionKey |-> FALSE,
   keys |-> NoKeys, cipher |-> "none", round |-> 1, err |-> "none"]

At(pc) == client.pc = pc

----------------------------------------------------------------------------
(* The end of an attempt *)

\* Mutant of isTransientAuthFailure: the error code is not recognised.
neverTransient(err) == FALSE

\* ConnectContext returns err; newConnection tries again only after isc_login,
\* the error of an SRP authentication that failed.
isTransientAuthFailure(err) == err = "login"

Fail(err) ==
  /\ LET again == isTransientAuthFailure(err) /\ client.attempt < MaxConnRetries
     IN /\ client' = [client EXCEPT !.pc = IF again THEN "backoff" ELSE "returned",
                                    !.err = err]
        /\ result' = IF again THEN "none" ELSE "error"
  /\ UNCHANGED <<wireCrypt, deadline, server, ctx>>

\* An op_response with an error status.
StatusError == \E err \in {"login", "other"} : Fail(err)

\* After the pause; when the context has ended too, either case may be taken.
backoff ==
  /\ At("backoff")
  /\ \/ /\ client' = Attempt(client.attempt + 1)
        /\ server' = [server EXCEPT !.told = FALSE, !.cipher = "none"]
        /\ UNCHANGED result
     \/ /\ ctx = "done"
        /\ client' = [client EXCEPT !.pc = "returned"]
        /\ result' = "error"
        /\ UNCHANGED server
  /\ UNCHANGED <<wireCrypt, deadline, ctx>>

----------------------------------------------------------------------------
(* Encryption *)

\* ChaCha if the server offers it with an IV, then Arc4; Arc4 as well when the
\* server's plugins are not known.
selectCipher(keys) ==
  IF "ChaCha" \in keys.plugins /\ keys.iv THEN "ChaCha"
  ELSE IF keys.plugins = {} \/ "Arc4" \in keys.plugins THEN "Arc4"
  ELSE "none"

\* Mutant of activateEncryption: required is checked only when there is a session key.
activateWithoutKey(c) ==
  LET cipher == IF c.sessionKey /\ wireCrypt # "disabled" THEN selectCipher(c.keys)
                ELSE "none"
  IN IF cipher = "none" /\ wireCrypt = "required" /\ c.sessionKey
     THEN Fail("other")
     ELSE /\ client' = [c EXCEPT !.pc = IF cipher = "none" THEN "attach" ELSE "crypt",
                                 !.cipher = cipher]
          /\ UNCHANGED <<wireCrypt, deadline, server, ctx, result>>

\* What follows authentication in an attempt whose variables are c: op_crypt is
\* sent in the clear and both directions are encrypted at once, or op_attach is
\* sent unencrypted, or wire_crypt=required makes the attempt fail.
activateEncryption(c) ==
  LET cipher == IF c.sessionKey /\ wireCrypt # "disabled" THEN selectCipher(c.keys)
                ELSE "none"
  IN IF cipher = "none" /\ wireCrypt = "required"
     THEN Fail("other")
     ELSE /\ client' = [c EXCEPT !.pc = IF cipher = "none" THEN "attach" ELSE "crypt",
                                 !.cipher = cipher]
          /\ UNCHANGED <<wireCrypt, deadline, server, ctx, result>>

\* The server takes one of its own plugins and encrypts its answer.  It refuses
\* in the clear, and what the client decrypts then is no op_response.
crypt ==
  /\ At("crypt")
  /\ \/ /\ client.cipher \in server.offer.plugins
        /\ server' = [server EXCEPT !.cipher = client.cipher]
        /\ client' = [client EXCEPT !.pc = "attach"]
        /\ UNCHANGED <<wireCrypt, deadline, ctx, result>>
     \/ Fail("other")

----------------------------------------------------------------------------
(* Authentication *)

dial ==
  /\ At("dial")
  /\ \/ /\ ctx = "live"
        /\ client' = [client EXCEPT !.pc = "accept"]
        /\ UNCHANGED <<wireCrypt, deadline, server, ctx, result>>
     \/ Fail("other")

\* The keys a message of the server may carry: its offer, or nothing yet.
KeysSent == {server.offer, NoKeys}

\* Mutant of newer: the keys of the last answer are ignored.
firstKeys(keys) == client.keys

\* Keys replace the ones known before unless they are empty.
newer(keys) == IF keys = NoKeys THEN client.keys ELSE keys

Tells(keys) == server' = [server EXCEPT !.told = @ \/ keys # NoKeys]

\* op_accept_data or op_cond_accept: the server names its plugin, and sends its
\* challenge, or asks for the public key under that plugin, or needs no proof.
accept ==
  /\ At("accept")
  /\ \E plugin \in Plugin, keys \in KeysSent, challenge, authenticated \in BOOLEAN :
       LET c == [client EXCEPT !.plugin = plugin, !.keys = keys]
       IN \/ /\ authenticated
             /\ activateEncryption(c)
          \/ /\ ~authenticated /\ challenge
             /\ client' = [c EXCEPT !.pc = "proof", !.sessionKey = TRUE]
             /\ Tells(keys)
             /\ UNCHANGED <<wireCrypt, deadline, ctx, result>>
          \/ /\ ~authenticated /\ ~challenge
             /\ client' = [c EXCEPT !.pc = "contAuth", !.round = 2]
             /\ Tells(keys)
             /\ UNCHANGED <<wireCrypt, deadline, ctx, result>>

\* op_reject, an opcode out of place, a plugin the driver does not implement,
\* or a challenge that cannot be parsed.
refused ==
  /\ At("accept") \/ At("contAuth")
  /\ Fail("other")

\* The server has sent its keys by the end of the authentication.
LastKeys == IF server.told THEN KeysSent ELSE {server.offer}

\* The answer to the proof.
proof ==
  /\ At("proof")
  /\ \/ \E keys \in LastKeys :
          activateEncryption([client EXCEPT !.keys = newer(keys)])
     \/ StatusError

\* The answer to the public key: a challenge, or the end of the authentication.
contAuth ==
  /\ At("contAuth")
  /\ \/ \E keys \in KeysSent :
          /\ client' = [client EXCEPT !.pc = "secondProof", !.sessionKey = TRUE,
                                      !.keys = newer(keys)]
          /\ Tells(keys)
          /\ UNCHANGED <<wireCrypt, deadline, ctx, result>>
     \/ activateEncryption(client)
     \/ StatusError

\* The answer to the proof of the second round; the keys in it are not looked at.
secondProof ==
  /\ At("secondProof")
  /\ activateEncryption(client) \/ StatusError

\* op_attach's answer; the server refuses what it cannot decrypt.
attach ==
  /\ At("attach")
  /\ \/ /\ client' = [client EXCEPT !.pc = "returned", !.err = "none"]
        /\ result' = "ok"
        /\ UNCHANGED <<wireCrypt, deadline, server, ctx>>
     \/ StatusError

----------------------------------------------------------------------------
(* Time and the network *)

ctxEnds ==
  /\ ctx = "live" /\ result = "none"
  /\ ctx' = "done"
  /\ UNCHANGED <<wireCrypt, deadline, client, server, result>>

\* Mutant of deadlinePasses: the deadline covers the first answer only.
deadlineOnAccept ==
  /\ At("accept") /\ deadline /\ ctx = "done"
  /\ Fail("other")

\* The deadline of the context is the deadline of the socket.
deadlinePasses ==
  /\ Waiting /\ deadline /\ ctx = "done"
  /\ Fail("other")

\* The connection is reset.
readFails ==
  /\ Waiting
  /\ Fail("other")

Init ==
  /\ wireCrypt \in WireCrypt /\ deadline \in BOOLEAN
  /\ client = Attempt(1)
  /\ \E offer \in Keys : server = [offer |-> offer, told |-> FALSE, cipher |-> "none"]
  /\ ctx = "live"
  /\ result = "none"

Next ==
  \/ dial \/ accept \/ refused \/ proof \/ contAuth \/ secondProof \/ crypt \/ attach
  \/ backoff \/ ctxEnds \/ deadlinePasses \/ readFails

\* The dialer and the timers do their work; the server may stay silent.
Fairness == WF_vars(dial) /\ WF_vars(backoff) /\ WF_vars(deadlinePasses)

Spec == Init /\ [][Next]_vars /\ Fairness

----------------------------------------------------------------------------
(* Properties *)

\* A connection handed out is encrypted with wire_crypt=required, is not with
\* disabled, and its two sides use the same cipher, whichever way the server
\* led the client through authentication.
CryptAsConfigured ==
  result = "ok" =>
    /\ wireCrypt = "required" => client.cipher # "none"
    /\ wireCrypt = "disabled" => client.cipher = "none"
    /\ client.cipher = server.cipher

\* selectCipher: "Preference order: ChaCha (if the server offers it with an IV),
\* then Arc4": an encrypted connection to such a server uses ChaCha, whichever
\* message brought the keys.  The last answer of a second round is not looked
\* at, so after a second round they must have come before it.
PreferredCipher ==
  result = "ok" /\ client.cipher # "none" /\ server.offer.iv
    /\ (client.round = 2 => server.told) => client.cipher = "ChaCha"

\* newConnection gives up on a failed authentication only after its last
\* attempt or because the context ended meanwhile.
LoginIsRetried ==
  result = "error" /\ client.err = "login" =>
    client.attempt = MaxConnRetries \/ ctx = "done"

\* ConnectContext honours the context "for the TCP dial and the whole
\* handshake": once its deadline has passed, Connect returns even if the server
\* is silent.  (A context that is merely cancelled does not reach the socket.)
ConnectHonoursContext == (ctx = "done" /\ deadline) ~> result # "none"
============================================================================
