---------------------------- MODULE PeerAddress ----------------------------
(***************************************************************************)
(* The address a live peer is probed at: parse_multiaddr and               *)
(* is_non_routable of crates/prober_core/src/probes/beacon_peers.rs.       *)
(***************************************************************************)
EXTENDS Integers, Sequences, FiniteSetsExt

CONSTANTS
  U16Tokens,   \* the address components that parse as a u16
  Ip           \* for an address component, the numbers it is written from

\* An IPv4 address by its first two octets, an IPv6 address by its first group
\* and what the seven others amount to.
V4(a, b) == [fam |-> 4, a |-> a, b |-> b]
V6(g) == [fam |-> 6, g |-> g, rest |-> 0]
V6Loopback == [fam |-> 6, g |-> 0, rest |-> 1]      \* ::1

IsV4(ip) == ip.fam = 4 /\ ip.a \in Nat /\ ip.a < 256 /\ ip.b \in Nat /\ ip.b < 256
IsV6(ip) == ip.fam = 6 /\ ip.g \in Nat /\ ip.g < 65536 /\ ip.rest \in Nat

ASSUME IpAssumption == \A t \in DOMAIN Ip : IsV4(Ip[t]) \/ IsV6(Ip[t])

\* The components of a multiaddr at which an IP address and a TCP port start.
TcpStarts(parts) ==
  {i \in 1 .. Len(parts) - 3 :
     /\ parts[i] \in {"ip4", "ip6"}
     /\ parts[i + 2] = "tcp"
     /\ parts[i + 3] \in U16Tokens}

\* The first address and port of a multiaddr, as a set of at most one pair.
ParseMultiaddr(parts) ==
  {<<parts[i + 1], parts[i + 3]>> :
     i \in {s \in TcpStarts(parts) : \A t \in TcpStarts(parts) : s <= t}}

\* starts_with("fd") on the hexadecimal text of an IPv6 group.
StartsWithFd(g) == 253 \in {g, g \div 16, g \div 256}

\* Mutant: an inclusive upper bound of the 172.16/12 block too far.
IsNonRoutableTooWide(ip) ==
  /\ ip.fam = 4
  /\ \/ ip.a \in {127, 10}
     \/ ip.a = 192 /\ ip.b = 168
     \/ ip.a = 172 /\ ip.b \in 16 .. 32
     \/ ip.a = 100 /\ ip.b \in 64 .. 127

IsNonRoutable(ip) ==
  \/ /\ ip.fam = 4
     /\ \/ ip.a \in {127, 10}
        \/ ip.a = 192 /\ ip.b = 168
        \/ ip.a = 172 /\ ip.b \in 16 .. 31
        \/ ip.a = 100 /\ ip.b \in 64 .. 127
  \/ /\ ip.fam = 6
     /\ \/ ip.g = 0 /\ ip.rest = 1
        \/ ip.g \in {65152, 64512}        \* "fe80:", "fc00:"
        \/ StartsWithFd(ip.g)

=============================================================================
