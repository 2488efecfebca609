------------------------------- MODULE FbSrp --------------------------------
(***************************************************************************)
(* The SRP-6a exchange: the client's keys and proof (auth.go, package      *)
(* bignum) next to what a server computes from its verifier, and where     *)
(* ChaCha20 starts.  Numbers are as in the code with a small modulus, the  *)
(* hash is a parameter; a byte string is a sequence of numbers.            *)
(***************************************************************************)
EXTENDS Integers, Sequences, SequencesExt

CONSTANTS
  N, G, K,         \* the group of package bignum
  KeySize,         \* bytes of a padded key: 128
  SrpByte,         \* values of a byte: 256
  Sha(_)           \* a hash of byte strings, as a number

ASSUME SrpAssumption ==
  /\ {N, G, K, KeySize} \subseteq Nat \ {0} /\ SrpByte \in Nat \ {0, 1}
  /\ N < SrpByte^KeySize

----------------------------------------------------------------------------
(* package bignum *)

\* big.Int.Exp
Exp(base, exp) == FoldLeft(LAMBDA acc, i : (acc * base) % N, 1 % N, [i \in 1..exp |-> i])

\* Pad: all of KeySize bytes, the most significant first, of a number that has
\* no more (FillBytes panics for one that has): keys are below N.
Pad(v) == [i \in 1..KeySize |-> (v \div SrpByte^(KeySize - i)) % SrpByte]

\* big.Int.Bytes: no zeros in front, and nothing for zero.
BigToBytes(v) ==
  LET used == {i \in 1..KeySize : Pad(v)[i] # 0}
  IN IF used = {} THEN <<>>
     ELSE SubSeq(Pad(v), CHOOSE i \in used : \A j \in used : i <= j, KeySize)

ClientPublicKey(a) == Exp(G, a)

----------------------------------------------------------------------------
(* The client *)

Colon == <<58>>

\* Mutant of ToUpperUser: the name is sent and hashed as it was typed.
ToUpperNever(user) == user

\* newSRPClientWithKey: strings.ToUpper, on ASCII.
ToUpperUser(user) ==
  [i \in DOMAIN user |-> IF user[i] \in 97..122 THEN user[i] - 32 ELSE user[i]]

scramble(keyA, keyB) == Sha(Pad(keyA) \o Pad(keyB))

userHash(salt, user, password) == Sha(salt \o <<Sha(user \o Colon \o password)>>)

\* clientSessionKey: the exponent is reduced modulo N, not modulo the order of
\* the group.
clientSessionKey(user, password, salt, keyA, keyB, a) ==
  LET x == userHash(salt, user, password)
      diff == (keyB - ((K * Exp(G, x)) % N)) % N
      aux == (a + ((scramble(keyA, keyB) * x) % N)) % N
  IN Sha(BigToBytes(Exp(diff, aux)))

\* clientProof: what is hashed, and with which hash.
clientProof(plugin, user, salt, keyA, keyB, key) ==
  [hash |-> IF plugin = "Srp256" THEN "sha256" ELSE "sha1",
   over |-> <<Exp(Sha(BigToBytes(N)), Sha(BigToBytes(G))), Sha(user)>>
              \o salt \o BigToBytes(keyA) \o BigToBytes(keyB) \o <<key>>]

\* parseServerAuthData: two little-endian bytes of length, the salt, the same
\* for the key, and the key in hexadecimal up to the end.
LE16(data, at) == data[at] + SrpByte * data[at + 1]

parseServerAuthData(data) ==
  LET saltLen == LE16(data, 1)
      hexStart == 2 + saltLen + 2
  IN IF Len(data) < 4 THEN [err |-> TRUE]
     ELSE IF Len(data) <= hexStart THEN [err |-> TRUE]
     ELSE [err |-> FALSE, salt |-> SubSeq(data, 3, 2 + saltLen),
           keyB |-> FoldLeft(LAMBDA acc, d : 16 * acc + d, 0, SubSeq(data, hexStart + 1, Len(data)))]

\* ComputeProof, of a client made by newSRPClient and perhaps SetPlugin.
ComputeProof(plugin, login, password, a, data) ==
  LET user == ToUpperUser(login)
      keyA == ClientPublicKey(a)
      s == parseServerAuthData(data)
      key == clientSessionKey(user, password, s.salt, keyA, s.keyB, a)
  IN IF s.err THEN [err |-> TRUE]
     ELSE [err |-> FALSE, key |-> key, proof |-> clientProof(plugin, user, s.salt, keyA, s.keyB, key)]

\* newChaCha20Cipher: the nonce is the first 12 bytes of the server's data, the
\* next four, if they are there, the counter.
newChaCha20Cipher(data) ==
  CASE Len(data) >= 16 -> [err |-> FALSE, nonce |-> SubSeq(data, 1, 12),
                           counter |-> FoldLeft(LAMBDA acc, b : SrpByte * acc + b, 0, SubSeq(data, 13, 16))]
    [] Len(data) \in 12..15 -> [err |-> FALSE, nonce |-> SubSeq(data, 1, 12), counter |-> 0]
    [] OTHER -> [err |-> TRUE, nonce |-> <<>>, counter |-> 0]

----------------------------------------------------------------------------
(* The server, from the formulas the repository's tests give for it.  They *)
(* do not say how it hashes a key that begins with zero bytes: with them   *)
(* (pads) or without.                                                      *)

Hex(v) == LET n == CHOOSE k \in 1..8 : v < 16^k /\ (k = 1 \/ v >= 16^(k - 1))
          IN [i \in 1..n |-> (v \div 16^(n - i)) % 16]

LE16Of(n) == <<n % SrpByte, n \div SrpByte>>

KeyDigits(v) == LET n == CHOOSE k \in 0..KeySize : v < SrpByte^k /\ (k = 0 \/ v >= SrpByte^(k - 1))
             IN [i \in 1..n |-> (v \div SrpByte^(n - i)) % SrpByte]

ServerBytes(pads, v) ==
  IF pads THEN [i \in 1..(KeySize - Len(KeyDigits(v))) |-> 0] \o KeyDigits(v) ELSE KeyDigits(v)

\* B = k v + g^b, sent with the salt; zeros puts that many zeros before the digits.
ServerPublicKey(v, b) == (K * v + Exp(G, b)) % N

ServerAuthData(salt, keyB, zeros) ==
  LET hex == [i \in 1..zeros |-> 0] \o Hex(keyB)
  IN LE16Of(Len(salt)) \o salt \o LE16Of(Len(hex)) \o hex

\* x, of the account and its password; the server keeps g^x.
ServerHash(account, password, salt) == Sha(salt \o <<Sha(account \o <<58>> \o password)>>)

ServerScramble(pads, keyA, keyB) == Sha(ServerBytes(pads, keyA) \o ServerBytes(pads, keyB))

ServerKey(v, u, keyA, b) == Sha(KeyDigits(Exp((keyA * Exp(v, u)) % N, b)))

\* What the server hashes to check the client's proof.
ServerProof(pads, plugin, account, salt, keyA, keyB, key) ==
  [hash |-> IF plugin = "Srp" THEN "sha1" ELSE "sha256",
   over |-> <<Exp(Sha(KeyDigits(N)), Sha(KeyDigits(G))), Sha(account)>>
              \o salt \o ServerBytes(pads, keyA) \o ServerBytes(pads, keyB) \o <<key>>]

\* The server's data for ChaCha20: a nonce of 12 bytes, and its counter if it
\* does not start at zero.
ServerIV(nonce, counter) ==
  nonce \o (IF counter = 0 THEN <<>>
            ELSE [i \in 1..4 |-> (counter \div SrpByte^(4 - i)) % SrpByte])

\* Client and server arrive at the same session key and the server accepts the
\* proof, for every salt, every way to type the account's name and either
\* plugin.  If neither key begins with a zero byte that is so with every server;
\* if one does, only with a server that hashes it as the client does: with its
\* zeros for u, without them for the proof.  (For exponents below N, as those of
\* the code are: a has 128 bits, u and x 160, N 1024.)
KeysAgreeOn(plugin, account, login, password, salt, a, b, zeros, padsU, padsM) ==
  LET x == ServerHash(account, password, salt)
      v == Exp(G, x)
      keyA == ClientPublicKey(a)
      keyB == ServerPublicKey(v, b)
      u == ServerScramble(padsU, keyA, keyB)
      key == ServerKey(v, u, keyA, b)
      full == Len(KeyDigits(keyA)) = KeySize /\ Len(KeyDigits(keyB)) = KeySize
      c == ComputeProof(plugin, login, password, a, ServerAuthData(salt, keyB, zeros))
  IN /\ ~c.err
     /\ a + u * x < N =>
          /\ full \/ padsU => c.key = key
          /\ full \/ (padsU /\ ~padsM) =>
               c.proof = ServerProof(padsM, plugin, account, salt, keyA, keyB, key)

\* ChaCha20 starts where the server's does.
StreamsAgreeOn(nonce, counter) ==
  newChaCha20Cipher(ServerIV(nonce, counter)) = [err |-> FALSE, nonce |-> nonce, counter |-> counter]
=============================================================================
