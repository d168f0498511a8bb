--------------------------- MODULE MCBeaconPeers ---------------------------
(***************************************************************************)
(* BeaconPeers with three sources and peers that exercise each filter: two *)
(* global hosts, an inbound peer, one without a direction, one without a   *)
(* TCP address, one with a port that is no u16 before a good address, and  *)
(* peers on both sides of every address block.                             *)
(***************************************************************************)
EXTENDS BeaconPeers, TLC

MCU16Tokens == {"9000", "9001"}

\* Addresses at the edges of the blocks, inside and outside.
Edges == <<
  "10.0", "126.255", "127.0", "100.63", "100.64", "100.127", "100.128", "172.15", "172.16",
  "172.31", "172.32", "192.168", "169.254", "::1", "fc01::1", "fdff::1",
  "febf::1">>

MCIp ==
  ("8.8.8.8" :> V4(8, 8)) @@ ("2001:db8::7" :> V6(8193)) @@
  ("126.255" :> V4(126, 255)) @@ ("127.0" :> V4(127, 0)) @@
  ("10.0" :> V4(10, 0)) @@ ("100.63" :> V4(100, 63)) @@
  ("100.64" :> V4(100, 64)) @@ ("100.127" :> V4(100, 127)) @@
  ("100.128" :> V4(100, 128)) @@ ("172.15" :> V4(172, 15)) @@
  ("172.16" :> V4(172, 16)) @@ ("172.31" :> V4(172, 31)) @@
  ("172.32" :> V4(172, 32)) @@ ("192.168" :> V4(192, 168)) @@
  ("169.254" :> V4(169, 254)) @@ ("::1" :> V6Loopback) @@
  ("fc01::1" :> V6(64513)) @@ ("fdff::1" :> V6(65023)) @@
  ("febf::1" :> V6(65215))

Peer(d, ip, host, proto, port) ==
  [direction |-> d, addr |-> <<"", ip, host, proto, port>>]

A == Peer("outbound", "ip4", "8.8.8.8", "tcp", "9000")
C == Peer("outbound", "ip6", "2001:db8::7", "tcp", "9001")
Inbound == Peer("inbound", "ip4", "8.8.8.8", "tcp", "9001")
NoDirection == Peer("", "ip6", "2001:db8::7", "tcp", "9000")
NoTcp == Peer("outbound", "ip4", "8.8.8.8", "udp", "9000")
Relayed ==
  [direction |-> "outbound",
   addr |-> <<"", "ip4", "172.16", "tcp", "99999", "ip4", "8.8.8.8", "tcp", "9000">>]

\* One outbound peer at every edge.
AtTheEdges ==
  [i \in DOMAIN Edges |->
     Peer("outbound", IF MCIp[Edges[i]].fam = 4 THEN "ip4" ELSE "ip6",
          Edges[i], "tcp", "9000")]

MCBodies == {<<>>, <<A, C, A>>, <<C, Inbound>>, <<Relayed, NoDirection, NoTcp>>,
             AtTheEdges}

=============================================================================
