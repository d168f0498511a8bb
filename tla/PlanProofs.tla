----------------------------- MODULE PlanProofs -----------------------------
(***************************************************************************)
(* Proofs about BeaconPeers and RunPlan, for any configuration, any number *)
(* of sources and any answers.                                             *)
(***************************************************************************)
EXTENDS RunPlan, OperatorProofs

\* The list goes through the sources in configuration order.
InSourceOrder == \A i, k \in DOMAIN peers : i < k => peers[i].source <= peers[k].source

Peer == [direction : STRING, addr : Seq(STRING)]

\* Only a task that is done has an answer.
Answers ==
  /\ fetch \in [Sources -> {"pending", "done", "panicked"}]
  /\ body \in [Sources -> Seq(Peer)]
  /\ \A b \in Sources : fetch[b] # "done" => body[b] = <<>>
  /\ \A b \in Sources : body[b] = <<>> \/ body[b] \in Bodies

\* Of the sources joined everything is listed, of the current one everything
\* up to pos.
Progress ==
  /\ pos \in Nat
  /\ pos > 0 => joined < B /\ fetch[Current] = "done"
  /\ \A b \in 1 .. joined : fetch[b] # "pending" /\ Vouched(b) \subseteq seen
  /\ joined < B => \A i \in Batch(Current) : i <= pos => Address(body[Current][i]) \in seen

\* A peer has the label of the first source that knows it.
Labelled ==
  \A i \in DOMAIN peers :
    /\ peers[i].source \in Sources /\ fetch[peers[i].source] = "done"
    /\ peers[i].at \in Vouched(peers[i].source)
    /\ \A b \in 1 .. peers[i].source - 1 : peers[i].at \notin Vouched(b)

PInv ==
  /\ joined \in 0 .. B
  /\ peers \in Seq([at : seen, source : 1 .. joined + 1])
  /\ NoDuplicateTarget
  /\ InSourceOrder

LInv == PInv /\ Answers /\ Progress /\ Labelled

\* A target is listed when it has not been seen.
LEMMA ListStep ==
  ASSUME PInv, joined < B, NEW key, seen' = seen \cup {key}, joined' = joined,
         peers' = IF key \in seen THEN peers ELSE Append(peers, [at |-> key, source |-> Current])
  PROVE  PInv'
<1> DEFINE Listed == [at : seen', source : 1 .. joined + 1]
<1>1. joined \in 0 .. B /\ B \in Nat
  BY BeaconAssumption DEF PInv, BeaconAssumption
<1>2. peers \in Seq(Listed)
  <2>1. [at : seen, source : 1 .. joined + 1] \subseteq Listed
    OBVIOUS
  <2>2. peers \in Seq([at : seen, source : 1 .. joined + 1])
    BY DEF PInv
  <2> HIDE DEF Listed
  <2> QED
    BY <2>1, <2>2, SeqMonotone
<1>3. CASE key \in seen
  <2>1. seen' = seen /\ peers' = peers
    BY <1>3
  <2> QED
    BY <2>1 DEF PInv, NoDuplicateTarget, Targets, InSourceOrder
<1>4. CASE key \notin seen
  <2> DEFINE p == [at |-> key, source |-> Current]
  <2>1. p \in Listed /\ p.at = key /\ p.source = joined + 1
    BY <1>1 DEF Current
  <2> HIDE DEF p, Listed
  <2>2. /\ peers' \in Seq(Listed)
        /\ DOMAIN peers' = DOMAIN peers \cup {Len(peers) + 1}
        /\ \A i \in DOMAIN peers : i \in 1 .. Len(peers) /\ peers'[i] = peers[i]
        /\ peers'[Len(peers) + 1] = p
        /\ Len(peers) \in Nat
    BY <1>2, <1>4, <2>1 DEF p
  <2>3. \A i \in DOMAIN peers : peers[i].at \in seen /\ peers[i].source \in 1 .. joined + 1
    <3>1. \A i \in DOMAIN peers : peers[i] \in [at : seen, source : 1 .. joined + 1]
      BY SeqElements DEF PInv
    <3> QED
      BY <3>1
  <2>4. Targets' = Targets \cup {key}
    BY <2>1, <2>2 DEF Targets
  <2>5. NoDuplicateTarget'
    BY <1>4, <2>1, <2>2, <2>3, <2>4 DEF PInv, NoDuplicateTarget
  <2>6. InSourceOrder'
    BY <1>1, <2>1, <2>2, <2>3 DEF PInv, InSourceOrder
  <2> QED
    BY <1>1, <2>2, <2>5, <2>6 DEF PInv, Listed
<1> QED
  BY <1>3, <1>4

LEMMA PInvStep == PInv /\ [Next]_vars => PInv'
<1> SUFFICES ASSUME PInv, [Next]_vars PROVE PInv'
  OBVIOUS
<1>1. CASE Insert
  BY <1>1, ListStep DEF Insert
<1>2. CASE NextHandle
  <2>1. /\ joined \in 0 .. B /\ B \in Nat /\ joined' = joined + 1 /\ joined < B
        /\ UNCHANGED <<seen, peers>>
    BY <1>2, BeaconAssumption DEF NextHandle, PInv, BeaconAssumption
  <2>2. peers \in Seq([at : seen, source : 1 .. joined' + 1])
    <3>1. [at : seen, source : 1 .. joined + 1] \subseteq [at : seen, source : 1 .. joined' + 1]
      BY <2>1
    <3> QED
      BY <3>1, SeqMonotone DEF PInv
  <2> QED
    BY <2>1, <2>2 DEF PInv, NoDuplicateTarget, Targets, InSourceOrder
<1>3. CASE UNCHANGED <<joined, seen, peers>>
  BY <1>3 DEF PInv, NoDuplicateTarget, Targets, InSourceOrder
<1> QED
  BY <1>1, <1>2, <1>3 DEF Next, FetchStep, Answer, Fail, PanicFetch, Idle, vars

-----------------------------------------------------------------------------

\* A multiaddr has one address at most: its first.
LEMMA OneAddress ==
  ASSUME NEW parts \in Seq(STRING)
  PROVE  \A a, b \in ParseMultiaddr(parts) : a = b
<1>1. TcpStarts(parts) \subseteq Int
  BY DEF TcpStarts
<1>2. \A s, t \in TcpStarts(parts) : s <= t /\ t <= s => s = t
  BY <1>1
<1> QED
  BY <1>2 DEF ParseMultiaddr

\* What a source vouches for is what its batch holds.
LEMMA VouchedIsBatch ==
  ASSUME NEW b \in Sources, body[b] \in Seq(Peer)
  PROVE  Vouched(b) = {Address(body[b][i]) : i \in Batch(b)}
<1>1. \A i \in DOMAIN body[b] : body[b][i] \in Peer /\ body[b][i].addr \in Seq(STRING)
  <2>1. \A i \in DOMAIN body[b] : body[b][i] \in Peer
    BY SeqElements
  <2> QED
    BY <2>1 DEF Peer
<1>2. \A i \in DOMAIN body[b] : \A a \in ParseMultiaddr(body[b][i].addr) : Address(body[b][i]) = a
  BY <1>1, OneAddress DEF Address
<1>3. ASSUME NEW a \in Vouched(b)
      PROVE  \E i \in Batch(b) : a = Address(body[b][i])
  <2>1. PICK i \in DOMAIN body[b] :
          body[b][i].direction = "outbound" /\ a \in ParseMultiaddr(body[b][i].addr)
    BY <1>3 DEF Vouched, Outbound
  <2>2. ~IsNonRoutable(Ip[a[1]])
    BY <1>3 DEF Vouched
  <2>3. i \in Batch(b)
    BY <2>1, <2>2 DEF Batch, Keeps
  <2> QED
    BY <1>2, <2>1, <2>3
<1>4. ASSUME NEW i \in Batch(b)
      PROVE  Address(body[b][i]) \in Vouched(b)
  <2>1. i \in DOMAIN body[b] /\ body[b][i].direction = "outbound"
    BY <1>4 DEF Batch, Keeps
  <2>2. PICK a \in ParseMultiaddr(body[b][i].addr) : ~IsNonRoutable(Ip[a[1]])
    BY <1>4 DEF Batch, Keeps
  <2>3. a \in Vouched(b)
    BY <2>1, <2>2 DEF Vouched, Outbound
  <2> QED
    BY <1>2, <2>1, <2>2, <2>3
<1> QED
  BY <1>3, <1>4

\* An answer, or the lack of one, is about a source not joined yet.
LEMMA AnswerStep ==
  ASSUME LInv, NEW b \in Sources, Answer(b) \/ Fail(b) \/ PanicFetch(b)
  PROVE  LInv'
<1> USE DEF LInv
<1>1. /\ fetch[b] = "pending" /\ UNCHANGED <<joined, pos, seen, peers>>
      /\ \E state \in {"done", "panicked"} : fetch' = [fetch EXCEPT ![b] = state]
      /\ (\E d \in Bodies : body' = [body EXCEPT ![b] = d] /\ fetch' = [fetch EXCEPT ![b] = "done"])
           \/ body' = body
  BY DEF Answer, Fail, PanicFetch
<1>2. Answers'
  <2>1. \A d \in Bodies : d \in Seq(Peer)
    BY BeaconAssumption DEF BeaconAssumption, Peer
  <2> QED
    BY <1>1, <2>1 DEF Answers
<1>3. \A c \in Sources : c # b => fetch'[c] = fetch[c] /\ body'[c] = body[c]
  BY <1>1 DEF Answers
<1>4. \A c \in Sources : c # b => Vouched(c)' = Vouched(c)
  BY <1>3 DEF Vouched, Outbound
<1>5. joined \in 0 .. B /\ B \in Nat /\ b > joined
  BY <1>1, BeaconAssumption DEF PInv, Progress, Sources, BeaconAssumption
<1>6. PInv'
  BY <1>1 DEF PInv, NoDuplicateTarget, Targets, InSourceOrder
<1>7. Progress'
  <2>1. \A c \in 1 .. joined : c \in Sources /\ c # b
    BY <1>5 DEF Sources
  <2>2. \A c \in 1 .. joined : fetch'[c] # "pending" /\ Vouched(c)' \subseteq seen
    BY <1>3, <1>4, <2>1 DEF Progress
  <2>3. CASE Current = b
    <3>1. pos = 0
      BY <1>1, <2>3 DEF Progress
    <3>2. \A i \in Batch(Current)' : i \in Nat /\ i > 0
      <4>1. body'[b] \in Seq(Peer)
        BY <1>2 DEF Answers
      <4> QED
        BY <1>1, <2>3, <4>1 DEF Batch, Current
    <3> QED
      BY <1>1, <2>2, <3>1, <3>2 DEF Progress, Current
  <2>4. CASE Current # b
    <3>1. joined < B => Current \in Sources /\ Current' = Current
      BY <1>1, <1>5 DEF Current, Sources
    <3>2. joined < B => body'[Current] = body[Current] /\ fetch'[Current] = fetch[Current]
      BY <1>3, <2>4, <3>1
    <3> QED
      BY <1>1, <2>2, <3>1, <3>2 DEF Progress, Batch
  <2> QED
    BY <2>3, <2>4
<1>8. Labelled'
  <2>1. \A i \in DOMAIN peers : /\ peers[i].source \in Sources
                                /\ peers[i].source # b
                                /\ \A c \in 1 .. peers[i].source - 1 : c \in Sources /\ c # b
    <3>1. \A i \in DOMAIN peers : peers[i] \in [at : seen, source : 1 .. joined + 1]
      BY SeqElements DEF PInv
    <3>2. \A i \in DOMAIN peers : peers[i].source \in 1 .. joined + 1
      BY <3>1
    <3> QED
      BY <1>1, <1>5, <3>2 DEF Labelled, Sources
  <2> QED
    BY <1>1, <1>3, <1>4, <2>1 DEF Labelled
<1> QED
  BY <1>2, <1>6, <1>7, <1>8

LEMMA InsertStep ==
  ASSUME LInv, Insert
  PROVE  LInv'
<1> USE DEF LInv
<1> DEFINE key == Address(body[Current][pos'])
<1>1. /\ joined < B /\ fetch[Current] = "done" /\ UNCHANGED <<fetch, body, joined>>
      /\ pos' \in Rest(Current) /\ \A i \in Rest(Current) : pos' <= i
      /\ seen' = seen \cup {key}
      /\ peers' = IF key \in seen THEN peers ELSE Append(peers, [at |-> key, source |-> Current])
  BY DEF Insert
<1>2. /\ Current \in Sources /\ Current' = Current /\ Current = joined + 1
      /\ joined \in 0 .. B /\ B \in Nat
  BY <1>1, BeaconAssumption DEF PInv, Current, Sources, BeaconAssumption
<1>3. body[Current] \in Seq(Peer) /\ Batch(Current) \subseteq Nat
  BY <1>2 DEF Answers, Batch
<1>4. pos' \in Batch(Current) /\ pos' \in Nat /\ pos \in Nat /\ pos' > pos
  BY <1>1, <1>3 DEF Rest, Progress
<1>5. key \in Vouched(Current)
  BY <1>2, <1>3, <1>4, VouchedIsBatch
<1> HIDE DEF key
<1>6. PInv'
  BY <1>1, ListStep
<1>7. Answers'
  BY <1>1 DEF Answers
<1>8. Progress'
  <2>1. \A i \in Batch(Current) : i <= pos' => i <= pos \/ i = pos'
    BY <1>1, <1>3, <1>4 DEF Rest
  <2>2. \A i \in Batch(Current) : i <= pos' => Address(body[Current][i]) \in seen'
    BY <1>1, <2>1 DEF Progress, key
  <2>3. Batch(Current)' = Batch(Current) /\ \A b \in Sources : Vouched(b)' = Vouched(b)
    BY <1>1, <1>2 DEF Batch, Vouched, Outbound
  <2>4. 1 .. joined \subseteq Sources
    BY <1>2 DEF Sources
  <2>5. \A b \in 1 .. joined : fetch'[b] # "pending" /\ Vouched(b)' \subseteq seen'
    BY <1>1, <2>3, <2>4 DEF Progress
  <2> QED
    BY <1>1, <1>2, <1>4, <2>2, <2>3, <2>5 DEF Progress
<1>9. Labelled'
  <2>1. \A b \in Sources : Vouched(b)' = Vouched(b)
    BY <1>1 DEF Vouched, Outbound
  <2>2. ASSUME NEW i \in DOMAIN peers
        PROVE  peers[i].source - 1 < B /\ \A b \in 1 .. peers[i].source - 1 : b \in Sources
    BY BeaconAssumption DEF Labelled, Sources, BeaconAssumption
  <2>3. CASE key \in seen
    BY <1>1, <2>1, <2>2, <2>3 DEF Labelled
  <2>4. CASE key \notin seen
    <3> DEFINE p == [at |-> key, source |-> Current]
    <3>1. p.at = key /\ p.source = Current
      OBVIOUS
    <3> HIDE DEF p
    <3>2. /\ DOMAIN peers' = DOMAIN peers \cup {Len(peers) + 1}
          /\ \A i \in DOMAIN peers : peers'[i] = peers[i]
          /\ peers'[Len(peers) + 1] = p
      BY <1>1, <2>4 DEF PInv, p
    <3>3. \A b \in 1 .. joined : b \in Sources /\ key \notin Vouched(b)
      BY <1>2, <2>4 DEF Progress, Sources
    <3>4. \A b \in 1 .. p.source - 1 : b \in 1 .. joined
      BY <1>2, <3>1
    <3>5. ASSUME NEW i \in DOMAIN peers
          PROVE  /\ peers'[i].source \in Sources /\ fetch'[peers'[i].source] = "done"
                 /\ peers'[i].at \in Vouched(peers[i].source)'
                 /\ \A b \in 1 .. peers'[i].source - 1 : peers'[i].at \notin Vouched(b)'
      BY <1>1, <2>1, <2>2, <3>2, <3>5 DEF Labelled
    <3>6. /\ p.source \in Sources /\ fetch'[p.source] = "done"
          /\ p.at \in Vouched(Current)'
          /\ \A b \in 1 .. p.source - 1 : p.at \notin Vouched(b)'
      BY <1>1, <1>2, <1>5, <2>1, <3>1, <3>3, <3>4
    <3> QED
      BY <1>2, <3>1, <3>2, <3>5, <3>6 DEF Labelled
  <2> QED
    BY <2>3, <2>4
<1> QED
  BY <1>6, <1>7, <1>8, <1>9

\* The batch is exhausted: everything the source vouches for is listed.
LEMMA NextHandleStep ==
  ASSUME LInv, NextHandle
  PROVE  LInv'
<1> USE DEF LInv
<1>1. /\ joined < B /\ joined' = joined + 1 /\ pos' = 0
      /\ (fetch[Current] = "done" /\ Rest(Current) = {}) \/ fetch[Current] = "panicked"
      /\ UNCHANGED <<fetch, body, seen, peers>>
  BY DEF NextHandle
<1>2. /\ Current \in Sources /\ Current = joined + 1
      /\ joined \in 0 .. B /\ joined' \in 0 .. B /\ B \in Nat
  BY <1>1, BeaconAssumption DEF PInv, Current, Sources, BeaconAssumption
<1>3. body[Current] \in Seq(Peer) /\ Batch(Current) \subseteq Nat
  BY <1>2 DEF Answers, Batch
<1>4. Vouched(Current) \subseteq seen
  <2>1. CASE Rest(Current) = {}
    <3>1. \A i \in Batch(Current) : i <= pos
      BY <1>3, <2>1 DEF Rest, Progress
    <3> QED
      BY <1>1, <1>2, <1>3, <3>1, VouchedIsBatch DEF Progress
  <2>2. CASE fetch[Current] = "panicked"
    <3>1. body[Current] = <<>>
      BY <1>2, <2>2 DEF Answers
    <3>2. Batch(Current) = {}
      BY <3>1 DEF Batch
    <3> QED
      BY <1>2, <1>3, <3>2, VouchedIsBatch
  <2> QED
    BY <1>1, <2>1, <2>2
<1>5. PInv'
  BY <1>1, PInvStep DEF Next, FetchStep
<1>6. Answers'
  BY <1>1 DEF Answers
<1>7. \A b \in Sources : Vouched(b)' = Vouched(b)
  BY <1>1 DEF Vouched, Outbound
<1>8. Progress'
  <2>1. \A b \in 1 .. joined' : b \in Sources /\ (b \in 1 .. joined \/ b = Current)
    BY <1>1, <1>2 DEF Sources
  <2>2. \A b \in 1 .. joined' : fetch'[b] # "pending" /\ Vouched(b)' \subseteq seen'
    BY <1>1, <1>4, <1>7, <2>1 DEF Progress
  <2>3. joined' < B => \A i \in Batch(Current)' : i > 0
    <3>1. joined' < B => joined' + 1 \in Sources
      BY <1>1, <1>2 DEF Sources
    <3>2. \A b \in Sources : body'[b] \in Seq(Peer)
      BY <1>6 DEF Answers
    <3> QED
      BY <3>1, <3>2 DEF Current, Batch
  <2>4. joined' < B => \A i \in Batch(Current)' : i \in Nat
    <3>1. joined' < B => joined' + 1 \in Sources
      BY <1>1, <1>2 DEF Sources
    <3>2. \A b \in Sources : body'[b] \in Seq(Peer)
      BY <1>6 DEF Answers
    <3> QED
      BY <3>1, <3>2 DEF Current, Batch
  <2>5. joined' < B => \A i \in Batch(Current)' : ~(i <= pos')
    BY <1>1, <2>3, <2>4
  <2> QED
    BY <1>1, <2>2, <2>5 DEF Progress
<1>9. Labelled'
  <2>1. ASSUME NEW i \in DOMAIN peers
        PROVE  \A b \in 1 .. peers[i].source - 1 : b \in Sources
    BY BeaconAssumption DEF Labelled, Sources, BeaconAssumption
  <2> QED
    BY <1>1, <1>7, <2>1 DEF Labelled
<1> QED
  BY <1>5, <1>6, <1>8, <1>9

LEMMA LInvStep == LInv /\ [Next]_vars => LInv'
<1> SUFFICES ASSUME LInv, [Next]_vars PROVE LInv'
  OBVIOUS
<1>1. CASE Idle \/ UNCHANGED vars
  <2>1. UNCHANGED <<fetch, body, joined, pos, seen, peers>>
    BY <1>1 DEF Idle, vars
  <2> QED
    BY <2>1 DEF LInv, PInv, NoDuplicateTarget, Targets, InSourceOrder, Answers, Progress, Labelled,
                Current, Batch, Vouched, Outbound
<1> QED
  BY <1>1, AnswerStep, InsertStep, NextHandleStep DEF Next, FetchStep

LEMMA InitInv == Init => LInv
<1>1. Init => PInv
  BY BeaconAssumption DEF Init, PInv, NoDuplicateTarget, Targets, InSourceOrder, BeaconAssumption
<1>2. Init => Answers
  BY DEF Init, Answers, Sources
<1>3. Init => Progress
  <2>1. Init /\ 0 < B => Batch(1) = {}
    BY BeaconAssumption DEF Init, Batch, Sources, BeaconAssumption
  <2> QED
    BY <2>1 DEF Init, Progress, Current
<1>4. Init => Labelled
  BY DEF Init, Labelled
<1> QED
  BY <1>1, <1>2, <1>3, <1>4 DEF LInv

\* The joining loop keeps the invariant, whichever sources answer or fail.
THEOREM Invariant == Spec => []LInv
BY InitInv, LInvStep, PTL DEF Spec

\* fetch_all lists a (host, port) once, however many sources know it and
\* however often one of them does.
THEOREM TargetsAreDistinct == Spec => []NoDuplicateTarget
BY Invariant, PTL DEF LInv, PInv

\* fetch_all lists the peers in the order of the configuration, whatever the
\* order in which the sources answer, each under the first source that has it.
THEOREM FirstSourcesLabel == Spec => []FirstSourceLabels
<1>1. LInv => FirstSourceLabels
  BY DEF LInv, PInv, InSourceOrder, Labelled, FirstSourceLabels
<1> QED
  BY <1>1, Invariant, PTL

\* In the end the targets are what the sources together vouch for: no failed
\* or panicked source hides a peer of another one, and nothing else is added.
THEOREM NothingIsMissed == Spec => [](Fetched => Targets = UNION {Vouched(b) : b \in Sources})
<1>1. LInv => (Fetched => Targets = UNION {Vouched(b) : b \in Sources})
  <2> SUFFICES ASSUME LInv, Fetched
               PROVE  Targets = UNION {Vouched(b) : b \in Sources}
    OBVIOUS
  <2>1. \A b \in Sources : Vouched(b) \subseteq Targets
    BY DEF LInv, PInv, Progress, NoDuplicateTarget, Fetched, Sources
  <2>2. \A t \in Targets : \E b \in Sources : t \in Vouched(b)
    BY DEF LInv, Labelled, Targets
  <2> QED
    BY <2>1, <2>2
<1> QED
  BY <1>1, Invariant, PTL

\* What a source has sent is read from its numbers.
LEMMA AddressIsIp ==
  ASSUME LInv, NEW b \in Sources, NEW a \in Outbound(b)
  PROVE  IsV4(Ip[a[1]]) \/ IsV6(Ip[a[1]])
<1>1. PICK i \in DOMAIN body[b] : a \in ParseMultiaddr(body[b][i].addr)
  BY DEF Outbound
<1>2. body[b] \in Bodies
  BY <1>1 DEF LInv, Answers
<1>3. a[1] \in DOMAIN Ip
  BY <1>1, <1>2, BeaconAssumption DEF BeaconAssumption
<1> QED
  BY <1>3, IpAssumption DEF IpAssumption

\* The tests on octets cut the IPv4 blocks where the RFCs do.
LEMMA V4Blocks ==
  ASSUME NEW ip, IsV4(ip)
  PROVE  (IsNonRoutable(ip) <=> Private4(ip)) /\ ~Loopback6(ip) /\ ~LocalUla(ip)
<1>1. ip.a \in Nat /\ ip.a < 256 /\ ip.b \in Nat /\ ip.b < 256 /\ ip.fam = 4
  BY DEF IsV4
<1>2. PICK x \in Nat, y \in Nat : ip.a = x /\ ip.b = y /\ x < 256 /\ y < 256
  BY <1>1
<1>3. Leading16(ip) = x * 256 + y
  BY <1>1, <1>2 DEF Leading16
<1>4. /\ x \in {127, 10} <=> x * 256 + y \in Block(127 * 256, 256) \/ x * 256 + y \in Block(10 * 256, 256)
      /\ (x = 192 /\ y = 168) <=> x * 256 + y \in Block(192 * 256 + 168, 1)
      /\ (x = 172 /\ y \in 16 .. 31) <=> x * 256 + y \in Block(172 * 256 + 16, 16)
      /\ (x = 100 /\ y \in 64 .. 127) <=> x * 256 + y \in Block(100 * 256 + 64, 64)
  BY <1>2 DEF Block
<1> QED
  BY <1>1, <1>2, <1>3, <1>4 DEF IsNonRoutable, Private4, Loopback6, LocalUla

\* The text tests hit ::1 and fd00::/8 and no global unicast address.
LEMMA V6Blocks ==
  ASSUME NEW ip, IsV6(ip)
  PROVE  /\ ~Private4(ip) /\ (GlobalUnicast(ip) => ~IsNonRoutable(ip))
         /\ Loopback6(ip) \/ LocalUla(ip) => IsNonRoutable(ip)
<1>1. ip.fam = 6 /\ ip.g \in Nat
  BY DEF IsV6
<1>2. PICK g \in Nat : ip.g = g
  BY <1>1
<1>3. ASSUME 8192 <= g, g < 16384
      PROVE  /\ g \div 16 > 253 /\ g \div 256 < 253 /\ g > 253
             /\ g \div 16 \in Int /\ g \div 256 \in Int
  BY <1>3
<1>4. GlobalUnicast(ip) => 8192 <= g /\ g < 16384
  BY <1>2 DEF GlobalUnicast, Block
<1>5. GlobalUnicast(ip) => ~StartsWithFd(ip.g)
  BY <1>2, <1>3, <1>4 DEF StartsWithFd
<1>6. GlobalUnicast(ip) => ip.g \notin {0, 65152, 64512}
  BY <1>1, <1>2, <1>4
<1>7. Loopback6(ip) => IsNonRoutable(ip)
  BY DEF Loopback6, IsNonRoutable
<1>8. ASSUME LocalUla(ip) PROVE IsNonRoutable(ip)
  <2>1. 64768 <= g /\ g < 65024
    BY <1>2, <1>8 DEF LocalUla, Block
  <2>2. g \div 256 = 253
    BY <2>1
  <2> QED
    BY <1>1, <1>2, <2>2 DEF IsNonRoutable, StartsWithFd
<1> QED
  BY <1>1, <1>5, <1>6, <1>7, <1>8 DEF IsNonRoutable, Private4

LEMMA Blocks ==
  ASSUME LInv, NEW b \in Sources
  PROVE  /\ Public(b) \subseteq Vouched(b)
         /\ \A a \in Vouched(b) : ~Private4(Ip[a[1]]) /\ ~Loopback6(Ip[a[1]]) /\ ~LocalUla(Ip[a[1]])
<1>1. ASSUME NEW ip, IsV4(ip) \/ IsV6(ip)
      PROVE  /\ GlobalUnicast(ip) \/ (ip.fam = 4 /\ ~Private4(ip) /\ ~LinkLocal(ip)) => ~IsNonRoutable(ip)
             /\ Private4(ip) \/ Loopback6(ip) \/ LocalUla(ip) => IsNonRoutable(ip)
  <2>1. CASE IsV4(ip)
    BY <2>1, V4Blocks DEF IsV4, GlobalUnicast
  <2>2. CASE IsV6(ip)
    BY <2>2, V6Blocks DEF IsV6
  <2> QED
    BY <1>1, <2>1, <2>2
<1> QED
  BY <1>1, AddressIsIp DEF Public, Vouched

\* Every outbound peer of any source at an address outside the blocks the
\* code's comment names becomes a target, and no inbound, RFC-1918, CGNAT,
\* loopback or fd00::/8 one does.
THEOREM TargetsAreComplete == Spec => []TargetsComplete
<1>1. LInv => TargetsComplete
  <2> SUFFICES ASSUME LInv PROVE TargetsComplete
    OBVIOUS
  <2>1. Fetched => \A b \in Sources : Vouched(b) \subseteq Targets
    BY DEF LInv, PInv, Progress, NoDuplicateTarget, Fetched, Sources
  <2>2. \A t \in Targets : \E b \in Sources : t \in Vouched(b)
    BY DEF LInv, Labelled, Targets
  <2>3. \A b \in Sources : Vouched(b) \subseteq Outbound(b)
    BY DEF Vouched
  <2> QED
    BY <2>1, <2>2, <2>3, Blocks DEF TargetsComplete
<1> QED
  BY <1>1, Invariant, PTL

-----------------------------------------------------------------------------

Base == BuildJobs(Config, Compiled)

LEMMA ConfiguredJobs ==
  /\ \E J : Base \in Seq(J)
  /\ \A job : job \in ToSet(Base) <=> JobOf(job, Config, Compiled)
  /\ \A job \in ToSet(Base) : job.kind \notin LiveKinds
<1>1. AllLists(Config, Compiled)
  BY ConfigAssumption DEF ConfigAssumption, AllLists
<1>2. /\ Base \in Seq(PlanJobs(Config))
      /\ \A job : job \in ToSet(Base) <=> JobOf(job, Config, Compiled)
  BY <1>1, BuiltJobs DEF Base
<1>3. ASSUME NEW job \in ToSet(Base)
      PROVE  job.kind \notin LiveKinds
  <2>1. job \in PlanJobs(Config)
    BY <1>2 DEF ToSet
  <2>2. job.kind \in PlanKinds
    BY <2>1 DEF PlanJobs
  <2> QED
    BY <2>2 DEF PlanKinds, SingleKinds, LiveKinds
<1> QED
  BY <1>2, <1>3

\* The two jobs of a live peer are next to each other, in the peers' order.
LEMMA PeerJobPlaces ==
  ASSUME NEW T, NEW Src, peers \in Seq([at : T, source : Src])
  PROVE  /\ \E J : PeerJobs \in Seq(J)
         /\ Len(PeerJobs) = 2 * Len(peers)
         /\ \A i \in 1 .. Len(peers) :
              /\ PeerJobs[2 * i - 1] = [kind |-> "beacon_tcp_connect", target |-> peers[i].at]
              /\ PeerJobs[2 * i] = [kind |-> "lib_p2p_handshake", target |-> peers[i].at]
<1> DEFINE targets == [i \in DOMAIN peers |-> peers[i].at]
           kinds == <<"beacon_tcp_connect", "lib_p2p_handshake">>
           J == [kind : LiveKinds, target : T]
           rows == [i \in DOMAIN targets |-> [k \in DOMAIN kinds |-> [kind |-> kinds[k], target |-> targets[i]]]]
<1>1. Len(peers) \in Nat /\ DOMAIN peers = 1 .. Len(peers) /\ \A i \in DOMAIN peers : peers[i].at \in T
  <2>1. \A i \in DOMAIN peers : peers[i] \in [at : T, source : Src]
    BY SeqElements
  <2> QED
    BY <2>1
<1>2. \A i \in DOMAIN peers :
        /\ rows[i] \in Seq(J) /\ Len(rows[i]) = 2
        /\ rows[i][1] = [kind |-> "beacon_tcp_connect", target |-> peers[i].at]
        /\ rows[i][2] = [kind |-> "lib_p2p_handshake", target |-> peers[i].at]
  BY <1>1 DEF LiveKinds
<1>3. PeerJobs = FlattenSeq(rows)
  BY DEF PeerJobs, LivePeerJobs, JobsFor
<1>4. DOMAIN rows = DOMAIN peers
  OBVIOUS
<1> HIDE DEF rows, J
<1>5. rows \in Seq(Seq(J)) /\ Len(rows) = Len(peers)
  <2>1. rows = [i \in 1 .. Len(peers) |-> rows[i]]
    BY <1>1, <1>4 DEF rows
  <2>2. \A i \in 1 .. Len(peers) : rows[i] \in Seq(J)
    BY <1>1, <1>2
  <2> QED
    BY <2>1, <2>2, <1>1, IsSequence
<1>6. FlattenSeq(rows) \in Seq(J)
  BY <1>5, FlattenElements
<1>7. /\ Len(FlattenSeq(rows)) = 2 * Len(rows)
      /\ \A i \in 1 .. Len(rows) : /\ FlattenSeq(rows)[2 * i - 1] = rows[i][1]
                                   /\ FlattenSeq(rows)[2 * i] = rows[i][2]
  BY <1>2, <1>4, <1>5, FlattenPairs
<1> QED
  BY <1>1, <1>2, <1>3, <1>5, <1>6, <1>7

\* Where run_plan is, and what it has made of the configuration and the peers.
PhaseInv ==
  /\ phase \in {"building", "fetching", "running", "done"}
  /\ phase \in {"building", "fetching"} => jobs = IF phase = "building" THEN <<>> ELSE Base
  /\ phase \in {"running", "done"} => Fetched /\ jobs = Base \o PeerJobs
  /\ phase = "done" => results = jobs

PlanInv == LInv /\ PhaseInv

LEMMA PlanInvStep == PlanInv /\ [PlanNext]_planVars => PlanInv'
<1> SUFFICES ASSUME PlanInv, [PlanNext]_planVars PROVE PlanInv'
  OBVIOUS
<1>1. [Next]_vars
  BY DEF PlanNext, Build, Fetch, Extend, RunAll, Reported, planVars, Next
<1>2. LInv'
  BY <1>1, LInvStep DEF PlanInv
<1>3. vars' = vars => PeerJobs' = PeerJobs /\ Fetched' = Fetched
  BY DEF vars, PeerJobs, Fetched
<1>4. Base' = Base
  BY DEF Base
<1>5. PhaseInv'
  <2>1. CASE Build
    BY <2>1, <1>4 DEF Build, PhaseInv, Base
  <2>2. CASE Fetch
    BY <2>2, <1>4 DEF Fetch, PhaseInv, PlanInv
  <2>3. CASE Extend
    BY <2>3, <1>3, <1>4 DEF Extend, PhaseInv, PlanInv
  <2>4. CASE RunAll
    BY <2>4, <1>3, <1>4 DEF RunAll, PhaseInv, PlanInv
  <2>5. CASE UNCHANGED planVars
    BY <2>5, <1>3, <1>4 DEF planVars, PhaseInv, PlanInv
  <2> QED
    BY <2>1, <2>2, <2>3, <2>4, <2>5 DEF PlanNext, Reported
<1> QED
  BY <1>2, <1>5 DEF PlanInv

\* A finished run_plan reports the whole plan and nothing else, whatever the
\* Beacon APIs answer and whatever is configured.
THEOREM ReportIsComplete == PlanSpec => []ReportCoversPlan
<1>1. PlanInit => PlanInv
  BY InitInv DEF PlanInit, PlanInv, PhaseInv
<1>2. PlanInv => ReportCoversPlan
  <2> SUFFICES ASSUME PlanInv, phase = "done" PROVE ReportCoversPlan
    BY DEF ReportCoversPlan
  <2> DEFINE n == Len(Base)
  <2>1. results = Base \o PeerJobs /\ Fetched /\ LInv
    BY DEF PlanInv, PhaseInv
  <2>2. /\ Len(peers) \in Nat /\ DOMAIN peers = 1 .. Len(peers)
        /\ peers \in Seq([at : seen, source : 1 .. joined + 1])
    BY <2>1 DEF LInv, PInv
  <2>3. /\ \E J : PeerJobs \in Seq(J)
        /\ Len(PeerJobs) = 2 * Len(peers)
        /\ \A i \in 1 .. Len(peers) :
             /\ PeerJobs[2 * i - 1] = [kind |-> "beacon_tcp_connect", target |-> peers[i].at]
             /\ PeerJobs[2 * i] = [kind |-> "lib_p2p_handshake", target |-> peers[i].at]
    BY <2>2, PeerJobPlaces
  <2>4. PICK J, K : Base \in Seq(J) /\ PeerJobs \in Seq(K)
    BY <2>3, ConfiguredJobs
  <2>5. /\ results \in Seq(J \cup K) /\ SideBySide(results, Base, PeerJobs)
        /\ ToSet(results) = ToSet(Base) \cup ToSet(PeerJobs)
    <3>1. Base \in Seq(J \cup K) /\ PeerJobs \in Seq(J \cup K)
      BY <2>4
    <3> QED
      BY <3>1, <2>1, ConcatPlaces, Concatenated
  <2>6. /\ n \in Nat /\ DOMAIN results = 1 .. n + 2 * Len(peers) /\ DOMAIN Base = 1 .. n
        /\ \A i \in 1 .. n : results[i] = Base[i] /\ Base[i] \in ToSet(Base)
        /\ \A i \in 1 .. 2 * Len(peers) : results[n + i] = PeerJobs[i]
    BY <2>3, <2>4, <2>5 DEF SideBySide, ToSet
  <2>7. UNION {Vouched(b) : b \in Sources} = Targets
    <3>1. \A b \in Sources : Vouched(b) \subseteq Targets
      BY <2>1 DEF LInv, PInv, Progress, NoDuplicateTarget, Fetched, Sources
    <3>2. \A t \in Targets : \E b \in Sources : t \in Vouched(b)
      BY <2>1 DEF LInv, Labelled, Targets
    <3> QED
      BY <3>1, <3>2
  \* The results of the peers, by place.
  <2>8. \A i \in 1 .. Len(peers) :
          /\ n + 2 * i - 1 \in DOMAIN results /\ n + 2 * i \in DOMAIN results
          /\ results[n + 2 * i - 1] = [kind |-> "beacon_tcp_connect", target |-> peers[i].at]
          /\ results[n + 2 * i] = [kind |-> "lib_p2p_handshake", target |-> peers[i].at]
    <3> SUFFICES ASSUME NEW i \in 1 .. Len(peers)
                 PROVE  /\ n + 2 * i - 1 \in DOMAIN results /\ n + 2 * i \in DOMAIN results
                        /\ results[n + 2 * i - 1] = [kind |-> "beacon_tcp_connect", target |-> peers[i].at]
                        /\ results[n + 2 * i] = [kind |-> "lib_p2p_handshake", target |-> peers[i].at]
      OBVIOUS
    <3> HIDE DEF n
    <3>1. /\ 2 * i - 1 \in 1 .. 2 * Len(peers) /\ 2 * i \in 1 .. 2 * Len(peers)
          /\ n + 2 * i - 1 = n + (2 * i - 1)
          /\ n + 2 * i - 1 \in 1 .. n + 2 * Len(peers) /\ n + 2 * i \in 1 .. n + 2 * Len(peers)
      BY <2>2, <2>6
    <3> QED
      BY <3>1, <2>3, <2>6
  <2>14. \A i \in 1 .. Len(peers) :
           /\ results[n + 2 * i - 1].kind = "beacon_tcp_connect" /\ results[n + 2 * i - 1].target = peers[i].at
           /\ results[n + 2 * i].kind = "lib_p2p_handshake" /\ results[n + 2 * i].target = peers[i].at
    <3> TAKE i \in 1 .. Len(peers)
    <3>1. /\ results[n + 2 * i - 1] = [kind |-> "beacon_tcp_connect", target |-> peers[i].at]
          /\ results[n + 2 * i] = [kind |-> "lib_p2p_handshake", target |-> peers[i].at]
      BY <2>8
    <3> QED
      BY ONLY <3>1
  <2>9. \A j \in DOMAIN results :
          \/ j \in 1 .. n
          \/ \E i \in 1 .. Len(peers) : j = n + 2 * i - 1 \/ j = n + 2 * i
    <3> SUFFICES ASSUME NEW j \in 1 .. n + 2 * Len(peers), j \notin 1 .. n
                 PROVE  \E i \in 1 .. Len(peers) : j = n + 2 * i - 1 \/ j = n + 2 * i
      BY <2>6
    <3> HIDE DEF n
    <3> DEFINE i == (j - n + 1) \div 2
    <3>1. i \in 1 .. Len(peers) /\ (j = n + 2 * i - 1 \/ j = n + 2 * i)
      BY <2>2, <2>6
    <3> QED
      BY <3>1
  <2>10. \A i \in 1 .. n : results[i].kind \notin LiveKinds
    BY <2>6, ConfiguredJobs
  <2>11. ASSUME NEW s \in DOMAIN Plan, Plan[s][1] \in Compiled,
                NEW t \in ToSet(Config[Plan[s][1]]), NEW k \in ToSet(Plan[s][2])
         PROVE  ResultsOf(k, t) # {}
    <3>1. JobOf([kind |-> k, target |-> t], Config, Compiled)
      BY <2>11 DEF JobOf, ToSet
    <3>2. [kind |-> k, target |-> t] \in ToSet(results)
      BY <3>1, <2>5, ConfiguredJobs
    <3> QED
      BY <3>2 DEF ResultsOf, ToSet
  <2>12. ASSUME NEW a \in Targets
         PROVE  \E i \in DOMAIN results : /\ ResultsOf("beacon_tcp_connect", a) = {i}
                                          /\ ResultsOf("lib_p2p_handshake", a) = {i + 1}
    <3>1. PICK i \in 1 .. Len(peers) : peers[i].at = a
      BY <2>2 DEF Targets
    <3>2. \A q \in 1 .. Len(peers) : peers[q].at = a => q = i
      BY <3>1, <2>1, <2>2 DEF LInv, PInv, NoDuplicateTarget
    <3> HIDE DEF n
    <3>3. ASSUME NEW j \in DOMAIN results, results[j] = [kind |-> "beacon_tcp_connect", target |-> a]
          PROVE  j = n + 2 * i - 1
      <4>1. j \notin 1 .. n
        BY <3>3, <2>10 DEF LiveKinds
      <4>2. PICK q \in 1 .. Len(peers) : j = n + 2 * q - 1 \/ j = n + 2 * q
        BY <4>1, <2>9
      <4>5. results[j].kind = "beacon_tcp_connect" /\ results[j].target = a
        BY <3>3
      <4>3. j # n + 2 * q
        BY <4>5, <2>14
      <4>4. peers[q].at = a
        BY <4>2, <4>3, <4>5, <2>14
      <4> QED
        BY <4>2, <4>3, <4>4, <3>2
    <3>4. ASSUME NEW j \in DOMAIN results, results[j] = [kind |-> "lib_p2p_handshake", target |-> a]
          PROVE  j = n + 2 * i
      <4>1. j \notin 1 .. n
        BY <3>4, <2>10 DEF LiveKinds
      <4>2. PICK q \in 1 .. Len(peers) : j = n + 2 * q - 1 \/ j = n + 2 * q
        BY <4>1, <2>9
      <4>5. results[j].kind = "lib_p2p_handshake" /\ results[j].target = a
        BY <3>4
      <4>3. j # n + 2 * q - 1
        BY <4>5, <2>14
      <4>4. peers[q].at = a
        BY <4>2, <4>3, <4>5, <2>14
      <4> QED
        BY <4>2, <4>3, <4>4, <3>2
    <3>5. ResultsOf("beacon_tcp_connect", a) = {n + 2 * i - 1}
      BY <3>1, <3>3, <2>8 DEF ResultsOf
    <3>6. ResultsOf("lib_p2p_handshake", a) = {n + 2 * i}
      BY <3>1, <3>4, <2>8 DEF ResultsOf
    <3>7. n + 2 * i - 1 + 1 = n + 2 * i
      BY <2>6
    <3> QED
      BY <3>1, <3>5, <3>6, <3>7, <2>8
  <2>13. ASSUME NEW i \in DOMAIN results
         PROVE  \/ results[i].kind \in LiveKinds /\ results[i].target \in Targets
                \/ \E s \in DOMAIN Plan :
                     /\ Plan[s][1] \in Compiled
                     /\ results[i].kind \in ToSet(Plan[s][2])
                     /\ results[i].target \in ToSet(Config[Plan[s][1]])
    <3>1. CASE i \in 1 .. n
      <4>1. JobOf(results[i], Config, Compiled)
        BY <3>1, <2>6, ConfiguredJobs
      <4> QED
        BY <4>1 DEF JobOf, ToSet
    <3>2. CASE \E q \in 1 .. Len(peers) : i = n + 2 * q - 1 \/ i = n + 2 * q
      BY <3>2, <2>2, <2>14 DEF Targets, LiveKinds
    <3> QED
      BY <3>1, <3>2, <2>9
  <2> QED
    BY <2>7, <2>11, <2>12, <2>13 DEF ReportCoversPlan
<1> QED
  BY <1>1, <1>2, PlanInvStep, PTL DEF PlanSpec

\* While run_plan waits for the peers it does what fetch_all does, and
\* nothing to its state before or after.
THEOREM PlanFetches == PlanSpec => Spec
<1>1. PlanInit => Init
  BY DEF PlanInit
<1>2. [PlanNext]_planVars => [Next]_vars
  BY DEF PlanNext, Build, Fetch, Extend, RunAll, Reported, planVars, Next
<1> QED
  BY <1>1, <1>2, PTL DEF PlanSpec, Spec

=============================================================================
