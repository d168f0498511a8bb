---------------------------- MODULE BeaconPeers ----------------------------
(***************************************************************************)
(* fetch_all of crates/prober_core/src/probes/beacon_peers.rs: one task    *)
(* per configured Beacon API asks for the connected peers, and the caller  *)
(* joins the tasks in configuration order into one list without            *)
(* duplicates.  A source that fails contributes nothing.                   *)
(***************************************************************************)
EXTENDS PeerAddress

CONSTANTS
  B,           \* cfg.probes.beacon_https.len()
  Bodies       \* the "data" arrays a Beacon API may answer with

ASSUME BeaconAssumption ==
  /\ B \in Nat
  /\ \A data \in Bodies :
       /\ data \in Seq([direction : STRING, addr : Seq(STRING)])
       /\ \A i \in DOMAIN data : \A a \in ParseMultiaddr(data[i].addr) : a[1] \in DOMAIN Ip

VARIABLES
  fetch,       \* the state of the task of each source
  body,        \* the data array each source answered with, <<>> on any error
  joined,      \* handles joined so far
  pos,         \* the last element of the current batch that was inserted
  seen,        \* the (host, port) pairs already listed
  peers        \* the LivePeers

vars == <<fetch, body, joined, pos, seen, peers>>

Sources == 1 .. B

\* The loop over data in fetch_from keeps the outbound peers with a routable
\* TCP address; a peer without a direction counts as inbound.
Keeps(peer) ==
  /\ peer.direction = "outbound"
  /\ \E a \in ParseMultiaddr(peer.addr) : ~IsNonRoutable(Ip[a[1]])

Address(peer) == CHOOSE a \in ParseMultiaddr(peer.addr) : TRUE

\* The batch that the task of source b returns, as places in its answer, and
\* what the loop has not come to yet.
Batch(b) == {i \in DOMAIN body[b] : Keeps(body[b][i])}
Rest(b) == {i \in Batch(b) : i > pos}

Fetched == joined = B

-----------------------------------------------------------------------------

Init ==
  /\ fetch = [b \in Sources |-> "pending"]
  /\ body = [b \in Sources |-> <<>>]
  /\ joined = 0
  /\ pos = 0
  /\ seen = {}
  /\ peers = <<>>

\* The request is answered with a data array.
Answer(b) ==
  /\ fetch[b] = "pending"
  /\ \E d \in Bodies : body' = [body EXCEPT ![b] = d]
  /\ fetch' = [fetch EXCEPT ![b] = "done"]
  /\ UNCHANGED <<joined, pos, seen, peers>>

\* No client, no answer within timeout_ms, no JSON or no data array.
Fail(b) ==
  /\ fetch[b] = "pending"
  /\ fetch' = [fetch EXCEPT ![b] = "done"]
  /\ UNCHANGED <<body, joined, pos, seen, peers>>

\* The task panics; its handle is an error.
PanicFetch(b) ==
  /\ fetch[b] = "pending"
  /\ fetch' = [fetch EXCEPT ![b] = "panicked"]
  /\ UNCHANGED <<body, joined, pos, seen, peers>>

\* Mutant: the handles are popped from the end of the vector.
CurrentFromEnd == B - joined

Current == joined + 1

\* Mutant: duplicates are listed.
InsertAlways ==
  /\ joined < B
  /\ fetch[Current] = "done"
  /\ pos' \in Rest(Current) /\ \A i \in Rest(Current) : pos' <= i
  /\ LET key == Address(body[Current][pos'])
     IN  /\ seen' = seen \cup {key}
         /\ peers' = Append(peers, [at |-> key, source |-> Current])
  /\ UNCHANGED <<fetch, body, joined>>

\* One element of the batch of the joined task: listed unless seen.
Insert ==
  /\ joined < B
  /\ fetch[Current] = "done"
  /\ pos' \in Rest(Current) /\ \A i \in Rest(Current) : pos' <= i
  /\ LET key == Address(body[Current][pos'])
     IN  /\ seen' = seen \cup {key}
         /\ peers' = IF key \in seen THEN peers
                     ELSE Append(peers, [at |-> key, source |-> Current])
  /\ UNCHANGED <<fetch, body, joined>>

\* Mutants: a panicked task ends the join; it is awaited for ever.
StopAtPanic ==
  /\ joined < B
  /\ \/ /\ fetch[Current] = "done"
        /\ Rest(Current) = {}
        /\ joined' = joined + 1
     \/ fetch[Current] = "panicked" /\ joined' = B
  /\ pos' = 0
  /\ UNCHANGED <<fetch, body, seen, peers>>

WaitForPanicked ==
  /\ joined < B
  /\ fetch[Current] = "done" /\ Rest(Current) = {}
  /\ joined' = joined + 1
  /\ pos' = 0
  /\ UNCHANGED <<fetch, body, seen, peers>>

\* The batch is exhausted, or the task panicked and is skipped.
NextHandle ==
  /\ joined < B
  /\ \/ fetch[Current] = "done" /\ Rest(Current) = {}
     \/ fetch[Current] = "panicked"
  /\ joined' = joined + 1
  /\ pos' = 0
  /\ UNCHANGED <<fetch, body, seen, peers>>

\* A step of a request's task or of the loop that joins them.
FetchStep ==
  \/ \E b \in Sources : Answer(b) \/ Fail(b) \/ PanicFetch(b)
  \/ Insert
  \/ NextHandle

Idle == Fetched /\ UNCHANGED vars

Next == FetchStep \/ Idle

Spec == Init /\ [][Next]_vars

-----------------------------------------------------------------------------

Targets == {peers[i].at : i \in DOMAIN peers}

\* The address blocks by their RFCs, to measure is_non_routable by: so many
\* 16-bit prefixes from the first one on.
Block(first, size) == first .. first + size - 1

Leading16(ip) == IF ip.fam = 4 THEN ip.a * 256 + ip.b ELSE ip.g

Private4(ip) ==
  /\ ip.fam = 4
  /\ \/ Leading16(ip) \in Block(10 * 256, 256)              \* 10.0.0.0/8
     \/ Leading16(ip) \in Block(172 * 256 + 16, 16)         \* 172.16.0.0/12
     \/ Leading16(ip) \in Block(192 * 256 + 168, 1)         \* 192.168.0.0/16
     \/ Leading16(ip) \in Block(127 * 256, 256)             \* 127.0.0.0/8
     \/ Leading16(ip) \in Block(100 * 256 + 64, 64)         \* 100.64.0.0/10
Loopback6(ip) == ip.fam = 6 /\ ip.g = 0 /\ ip.rest = 1      \* ::1
LinkLocal(ip) ==
  IF ip.fam = 4 THEN Leading16(ip) = 169 * 256 + 254       \* 169.254.0.0/16
                ELSE ip.g \in Block(65152, 64)             \* fe80::/10
Ula(ip) == ip.fam = 6 /\ ip.g \in Block(64512, 512)        \* fc00::/7
LocalUla(ip) == ip.fam = 6 /\ ip.g \in Block(64768, 256)   \* fd00::/8, its half in use
GlobalUnicast(ip) == ip.fam = 6 /\ ip.g \in Block(8192, 8192)     \* 2000::/3

\* The outbound addresses source b reports.
Outbound(b) ==
  UNION {ParseMultiaddr(body[b][i].addr) :
           i \in {k \in DOMAIN body[b] : body[b][k].direction = "outbound"}}

\* Those of them in none of the blocks that the comment on is_non_routable
\* names (RFC-1918, loopback, link-local, CGNAT): the rest of IPv4, and of IPv6
\* what is assigned as global unicast.
Public(b) ==
  {a \in Outbound(b) : LET ip == Ip[a[1]]
                       IN  \/ GlobalUnicast(ip)
                           \/ ip.fam = 4 /\ ~Private4(ip) /\ ~LinkLocal(ip)}

\* Those the code keeps.
Vouched(b) == {a \in Outbound(b) : ~IsNonRoutable(Ip[a[1]])}

\* No target is probed twice, however many sources know it and however
\* often one source lists it.
NoDuplicateTarget ==
  /\ seen = Targets
  /\ \A i, k \in DOMAIN peers : peers[i].at = peers[k].at => i = k

\* Every public address an outbound peer of any source has is a target, and
\* no inbound, RFC-1918, CGNAT, loopback (127/8 and ::1) or fd00::/8 address
\* is: deduplication, a failed source or a panicked one hides no peer of
\* another source, and the textual address tests cut these blocks at the right
\* octets.  (What becomes of the blocks the comment at beacon_peers.rs:40 names
\* besides is NonRoutableIsDropped.)
TargetsComplete ==
  /\ Fetched => UNION {Public(b) : b \in Sources} \subseteq Targets
  /\ \A t \in Targets :
       /\ ~Private4(Ip[t[1]]) /\ ~Loopback6(Ip[t[1]]) /\ ~LocalUla(Ip[t[1]])
       /\ \E b \in Sources : t \in Outbound(b)

\* The list does not depend on the order in which the sources answer: it
\* goes through them in configuration order, and a peer several of them
\* know is labelled with the first one.
FirstSourceLabels ==
  /\ \A i, k \in DOMAIN peers : i < k => peers[i].source <= peers[k].source
  /\ \A i \in DOMAIN peers :
       /\ peers[i].at \in Vouched(peers[i].source)
       /\ \A b \in 1 .. peers[i].source - 1 : peers[i].at \notin Vouched(b)

\* The comment on is_non_routable: "RFC-1918, loopback, link-local, IPv6 ULA
\* and CGNAT (RFC-6598)."; README.md: "Non-routable addresses (RFC-1918,
\* CGNAT, loopback, ULA) are dropped".
NonRoutableIsDropped ==
  \A t \in Targets : ~LinkLocal(Ip[t[1]]) /\ ~Ula(Ip[t[1]])

=============================================================================
