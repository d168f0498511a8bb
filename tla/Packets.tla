------------------------------ MODULE Packets ------------------------------
(***************************************************************************)
(* The packets the execution-layer probes send: PING and PONG of           *)
(* probes/discv4_ping.rs, the EIP-8 auth packet of                         *)
(* probes/rlpx_handshake.rs.  Key material is a filler of the right        *)
(* length; hashes, signatures and MACs are checksums, the cipher flips     *)
(* every bit: what matters is what each of them covers and where it lies.  *)
(***************************************************************************)
EXTENDS Rlp

\* n bytes that depend on all of x: each is a sum of every n-th byte of x, by
\* odd weights.
Digest(n, x) ==
  [i \in 1 .. n |->
     (Len(x) + SumFunction([k \in {k \in DOMAIN x : k % n = i % n} |-> (2 * k + 1) * x[k]])) % 256]

Filler(n, b) == [i \in 1 .. n |-> b]

Cipher(x) == [i \in DOMAIN x |-> 255 - x[i]]

\* hash(32) || signature(65) || type(1) || RLP data
SignPacket(type, data) ==
  LET signature == Digest(65, <<type>> \o data)
  IN  Digest(32, signature \o <<type>> \o data) \o signature \o <<type>> \o data

Endpoint(ip, port) == RlpList(<<RlpBytes(ip), RlpUint(port), RlpUint(port)>>)

BuildPing(ip, port, expiration) ==
  SignPacket(1, RlpList(<<RlpUint(4), Endpoint(<<0, 0, 0, 0>>, 0),
                          Endpoint(ip, port), RlpUint(expiration)>>))

BuildPong(ip, port, pingHash, expiration) ==
  SignPacket(2, RlpList(<<Endpoint(ip, port), RlpBytes(pingHash), RlpUint(expiration)>>))

\* pubkey(65) || IV(16) || ciphertext || MAC(32)
EciesEncrypt(plaintext, s2) ==
  LET iv == Filler(16, 3)
  IN  Filler(65, 4) \o iv \o Cipher(plaintext) \o Digest(32, iv \o Cipher(plaintext) \o s2)

AuthBody(sig, pubkey, nonce) ==
  RlpList(<<RlpBytes(sig), RlpBytes(pubkey), RlpBytes(nonce), RlpUint(4)>>)

\* Mutant: the MAC is not counted.
SizeWithoutMac(body) == LET n == 65 + 16 + Len(body) IN <<n \div 256, n % 256>>

\* (ecies_len as u16).to_be_bytes(): the size prefix, and the s2 of the MAC.
AuthSize(body) == LET n == 65 + 16 + Len(body) + 32 IN <<n \div 256, n % 256>>

BuildAuthPacket(sig, pubkey, nonce) ==
  LET body == AuthBody(sig, pubkey, nonce)
  IN  AuthSize(body) \o EciesEncrypt(body, AuthSize(body))

=============================================================================
