-------------------------------- MODULE Rlp --------------------------------
(***************************************************************************)
(* The RLP encoder of crates/prober_core/src/rlp.rs, byte by byte.         *)
(***************************************************************************)
EXTENDS Integers, Sequences, SequencesExt

\* n.to_be_bytes() of a u64.  Bound: n < 2^31, so that the first four are 0.
ToBeBytes(n) ==
  <<0, 0, 0, 0, n \div 16777216, (n \div 65536) % 256, (n \div 256) % 256, n % 256>>

\* From the first byte that is not zero on; of 0 the last byte.
BeBytesMinimal(n) ==
  LET b == ToBeBytes(n)
      start == SelectInSeq(b, LAMBDA x : x # 0)
  IN  SubSeq(b, IF start = 0 THEN 8 ELSE start, 8)

\* Mutant: the short form stops one byte early.
ShortFormTo54(payload, short, long) ==
  IF Len(payload) < 55
  THEN <<short + Len(payload)>> \o payload
  ELSE LET len == BeBytesMinimal(Len(payload))
       IN  <<long + Len(len)>> \o len \o payload

\* What rlp_bytes and rlp_list share: a prefix that holds the length up to 55
\* bytes, and beyond them the length of the length.
Prefixed(payload, short, long) ==
  IF Len(payload) <= 55
  THEN <<short + Len(payload)>> \o payload
  ELSE LET len == BeBytesMinimal(Len(payload))
       IN  <<long + Len(len)>> \o len \o payload

RlpBytes(data) ==
  IF Len(data) = 1 /\ data[1] < 128 THEN data ELSE Prefixed(data, 128, 183)

RlpUint(n) == IF n = 0 THEN <<128>> ELSE RlpBytes(BeBytesMinimal(n))

RlpList(items) == Prefixed(FlattenSeq(items), 192, 247)

=============================================================================
