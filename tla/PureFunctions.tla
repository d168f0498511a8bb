--------------------------- MODULE PureFunctions ---------------------------
(***************************************************************************)
(* The pure parts of the program, each against a reference that is written *)
(* from what the result is for and not from the code: a behaviour picks    *)
(* one input of one function and stays there.                              *)
(***************************************************************************)
EXTENDS Summary, Packets, JobPlan, ResultsPage, GeoReports

CONSTANTS
  Attempts,        \* what summarize_attempts is called with
  Thresholds,      \* the min_successes of jobs
  Strings, Numbers,   \* what is encoded as RLP
  Ports, Secrets,     \* what packets are made of besides a number, the time
  PeerCounts,      \* how many live peers a run has found
  Stored, Others, Selections  \* reports in the database and selected kinds

VARIABLES
  function,        \* which function's input it is
  input

\* Bounds: what Rlp.tla takes for a number, and a length of which a list of
\* two still has one.
MaxNumber == 2147483647
MaxLength == 1000000000

Byte == 0 .. 255

\* A verdict for every address a boot node has in one of the two lists.
BootAddresses == {node.at : node \in ToSet(BootNodes) \cup ToSet(BootNodesAgain)}
Verdicts == [BootAddresses -> BOOLEAN]

\* A time is not NoRtt.
TimesAssumption ==
  /\ NoRtt \notin Nat
  /\ \A a \in Attempts : a \in Seq(AttemptResult(Nat))
  /\ Thresholds \subseteq Nat

\* Bytes are bytes, and a port has two.
BytesAssumption ==
  /\ \A s \in Strings : s \in Seq(Byte) /\ Len(s) <= MaxLength
  /\ \A n \in Numbers : n \in Nat /\ n <= MaxNumber
  /\ \A p \in Ports : p \in Nat /\ p < 65536
  /\ Secrets \subseteq Byte

\* No two reports arrive at once, and no kind is blank or a comma.
ReportsAssumption ==
  /\ Limit \in Nat /\ IsFiniteSet(Others)
  /\ \A r \in Stored \cup Others :
       /\ r.at \in Nat /\ r.runs \in Seq(ToSet(r.runs))
       /\ \A i \in DOMAIN r.runs : r.runs[i].ok \in BOOLEAN
  /\ \A r \in Stored, q \in Others : r.at # q.at
  /\ \A p, q \in Others : p.at = q.at => p = q
  /\ \A s \in Selections : s \in Seq(ToSet(s) \ {Comma, Blank})

\* The server's limit of 500 results leaves room for 216 peers.
PeersAssumption == PeerCounts \subseteq 0 .. 216

ASSUME FunctionsAssumption ==
  TimesAssumption /\ BytesAssumption /\ ReportsAssumption /\ PeersAssumption

Init ==
  \/ function = "summarize_attempts" /\ input \in Attempts
  \/ function = "rlp" /\ input \in Strings \X Numbers
  \/ function = "packets" /\ input \in Ports \X Numbers \X Secrets
  \/ function = "mismatch" /\ input \in Verdicts \X Verdicts
  \/ function = "page" /\ input \in PeerCounts
  \/ function = "geo_reports" /\ input \in {<<r, o, s>> : r \in Stored, o \in SUBSET Others, s \in Selections}

Done == UNCHANGED <<function, input>>

Spec == Init /\ [][Done]_<<function, input>>

-----------------------------------------------------------------------------

Timed == {i \in DOMAIN input : input[i].rtt # NoRtt}

Rtt == [i \in Timed |-> input[i].rtt]

\* The summary of any attempts, in any order, is what its fields are named
\* for: the counts are those of the attempts that are ok and of those that are
\* not, every attempt in one of them, and the verdict is the first against
\* min_successes; min and max bound the times of all the measured attempts,
\* failed ones included, and are two of them, avg is their mean rounded down,
\* and with no time there is none of the three.
SummaryMatchesReference ==
  function = "summarize_attempts" =>
    \A m \in Thresholds :
      LET s == SummarizeAttempts(input, m)
          n == Cardinality(Timed)
          total == SumFunction(Rtt)
      IN  /\ s.success_count = Cardinality({i \in DOMAIN input : input[i].ok})
          /\ s.failure_count = Cardinality({i \in DOMAIN input : ~input[i].ok})
          /\ s.success_count + s.failure_count = Len(input)
          /\ s.ok <=> Cardinality({i \in DOMAIN input : input[i].ok}) >= m
          /\ Timed = {} => {s.min_rtt, s.avg_rtt, s.max_rtt} = {NoRtt}
          /\ Timed # {} =>
               /\ \E i \in Timed : s.min_rtt = Rtt[i]
               /\ \E i \in Timed : s.max_rtt = Rtt[i]
               /\ \A i \in Timed : s.min_rtt <= Rtt[i] /\ Rtt[i] <= s.max_rtt
               /\ s.avg_rtt * n <= total /\ total < (s.avg_rtt + 1) * n

-----------------------------------------------------------------------------
\* A strict RLP reader: a byte string becomes the items in it, the payload of
\* a list left as it is, and anything not in its shortest form becomes Bad.

Bad == [list |-> FALSE, bytes |-> <<256>>]
Str(bytes) == [list |-> FALSE, bytes |-> bytes]
Lst(bytes) == [list |-> TRUE, bytes |-> bytes]

Number(bytes) ==
  LET value[k \in 0 .. Len(bytes)] == IF k = 0 THEN 0 ELSE 256 * value[k - 1] + bytes[k]
  IN  value[Len(bytes)]

\* The item at place i of b: where its payload starts and how long it is.
Header(b, i) ==
  LET base == IF b[i] >= 192 THEN 192 ELSE 128
      long == b[i] - base - 55                  \* bytes of the length, if > 0
      size == SubSeq(b, i + 1, i + long)
  IN  IF b[i] < 128 THEN [list |-> FALSE, from |-> i, len |-> 1, ok |-> TRUE]
      ELSE IF long <= 0
      THEN [list |-> b[i] >= 192, from |-> i + 1, len |-> b[i] - base,
            ok |-> ~(b[i] = 129 /\ i < Len(b) /\ b[i + 1] < 128)]
      ELSE IF i + long > Len(b)
      THEN [list |-> FALSE, from |-> i, len |-> 1, ok |-> FALSE]
      ELSE [list |-> b[i] >= 192, from |-> i + long + 1, len |-> Number(size),
            ok |-> size[1] # 0 /\ Number(size) > 55]

Items(b) ==
  LET read[i \in 1 .. Len(b) + 1] ==
        LET h == Header(b, i)
            next == h.from + h.len
        IN  IF i = Len(b) + 1 THEN <<>>
            ELSE IF ~h.ok \/ next \notin i + 1 .. Len(b) + 1 THEN <<Bad>>
            ELSE <<[list |-> h.list, bytes |-> SubSeq(b, h.from, next - 1)]>> \o read[next]
  IN  read[1]

\* The bytes a number is to be read from: none for 0, and no leading zero.
Canonical(n, item) ==
  /\ ~item.list
  /\ item.bytes # <<>> => item.bytes[1] # 0
  /\ Number(item.bytes) = n

\* What is encoded can be read back by a strict reader, which takes nothing
\* but the shortest form: at the lengths 55 and 56, 255 and 256, for single
\* bytes on both sides of 0x80, for 0 and for numbers around a power of 256,
\* alone and in nested lists.
RlpDecodes ==
  function = "rlp" =>
    LET s == input[1]
        n == input[2]
        Single(b) == Items(b)[1]
        outer == Single(RlpList(<<RlpBytes(s), RlpUint(n), RlpList(<<RlpBytes(s)>>)>>))
        inner == Items(outer.bytes)
    IN  /\ Items(RlpBytes(s)) = <<Str(s)>>
        /\ Len(Items(RlpUint(n))) = 1 /\ Canonical(n, Single(RlpUint(n)))
        /\ outer.list /\ Len(inner) = 3
        /\ inner[1] = Str(s) /\ Canonical(n, inner[2])
        /\ inner[3].list /\ Items(inner[3].bytes) = <<Str(s)>>

\* What a discv4 node reads in a packet: its items, if the hash covers what
\* follows it and the signature the type and the data.
Discv4Items(packet, type) ==
  LET data == SubSeq(packet, 99, Len(packet))
  IN  IF /\ SubSeq(packet, 1, 32) = Digest(32, SubSeq(packet, 33, Len(packet)))
         /\ SubSeq(packet, 33, 97) = Digest(65, <<type>> \o data)
         /\ packet[98] = type
      THEN Items(data) ELSE <<Bad>>

\* What an EIP-8 node reads: the size, as many bytes, and of these the items
\* of the body, if the MAC covers IV, ciphertext and size.
AuthItems(packet) ==
  LET size == SubSeq(packet, 1, 2)
      iv == SubSeq(packet, 2 + 65 + 1, 2 + 65 + 16)
      ct == SubSeq(packet, 2 + 65 + 16 + 1, Len(packet) - 32)
  IN  IF /\ Len(packet) = 2 + Number(size)
         /\ SubSeq(packet, Len(packet) - 31, Len(packet)) = Digest(32, iv \o ct \o size)
      THEN Items(Cipher(ct)) ELSE <<Bad>>

\* Every packet the probes send is one its receiver can read, whatever the
\* port, the time and the key material: PING with four items, the PONG that
\* carries the hash of the PING it answers, and the auth packet, whose size
\* prefix counts what follows it and is under the MAC.
PacketsRead ==
  function = "packets" =>
    LET port == input[1]
        time == input[2]
        secret == input[3]
        ip == <<secret, 0, 127, 128>>
        ping == BuildPing(ip, port, time)
        i == Items(Discv4Items(ping, 1)[1].bytes)
        from == Items(i[2].bytes)
        to == Items(i[3].bytes)
        o == Items(Discv4Items(BuildPong(ip, port, SubSeq(ping, 1, 32), time), 2)[1].bytes)
        back == Items(o[1].bytes)
        auth == BuildAuthPacket(Filler(65, secret), Filler(64, secret), Filler(32, secret))
        a == Items(AuthItems(auth)[1].bytes)
    IN  /\ Len(i) = 4 /\ Canonical(4, i[1]) /\ i[2].list /\ i[3].list /\ Canonical(time, i[4])
        /\ Len(from) = 3 /\ from[1] = Str(<<0, 0, 0, 0>>) /\ Canonical(0, from[2]) /\ Canonical(0, from[3])
        /\ Len(to) = 3 /\ to[1] = Str(ip) /\ Canonical(port, to[2]) /\ Canonical(port, to[3])
        /\ Len(o) = 3 /\ o[1].list /\ o[2] = Str(SubSeq(ping, 1, 32)) /\ Canonical(time, o[3])
        /\ Len(back) = 3 /\ back[1] = Str(ip) /\ Canonical(port, back[2]) /\ Canonical(port, back[3])
        /\ Len(a) = 4 /\ a[1] = Str(Filler(65, secret)) /\ a[2] = Str(Filler(64, secret))
        /\ a[3] = Str(Filler(32, secret)) /\ Canonical(4, a[4])

-----------------------------------------------------------------------------

AllCompiled == DOMAIN DefaultConfig

\* The results of the app's configuration, under their labels, when the TCP
\* and the UDP probes of the boot nodes find what tcp and udp say of their
\* addresses and all else passes.
BootResults(tcp, udp) ==
  LET jobs == BuildJobs(DefaultConfig, AllCompiled)
  IN  [i \in DOMAIN jobs |->
         [kind |-> jobs[i].kind, target |-> TargetLabel(jobs[i]),
          ok |-> CASE jobs[i].kind = "p2p_tcp_connect" -> tcp[jobs[i].target.at]
                   [] jobs[i].kind = "discv4_ping" -> udp[jobs[i].target.at]
                   [] OTHER -> TRUE]]

\* The note names a boot node exactly if the TCP probe of its address passed
\* and the UDP probe of the same address failed.  The results are matched by
\* the names in their labels, so the page has to find the name in each, no
\* two nodes may share one, and the two lists of the configuration have to
\* give an address the same name.
MismatchIsReal ==
  function = "mismatch" =>
    LET results == BootResults(input[1], input[2])
        failed == {n \in DOMAIN BootNodes : input[1][BootNodes[n].at] /\ ~input[2][BootNodes[n].at]}
    IN  DetectUdpTcpMismatch({results[i] : i \in Tables(results)[2]}) =
          {<<BootNodes[n].name>> : n \in failed}

Peers(n) == [i \in 1 .. n |-> Target("publicnode-peer", i)]

\* Every result of the app's report, with any number of live peers, stands in
\* exactly one table of the page, has a label, is found by the map under the
\* section of the same number, and is a row of its own: no two rows have the
\* same kind and target.  And with no more than 216 peers the report is one
\* the collector takes.
ShownOnce ==
  function = "page" =>
    LET results == BuildJobs(DefaultConfig, AllCompiled) \o LivePeerJobs(Peers(input))
        tables == Tables(results)
    IN  /\ \A i \in DOMAIN results :
             /\ \E t \in 1 .. 3 : /\ {u \in 1 .. 3 : i \in tables[u]} = {t}
                                /\ results[i].kind \in ProbeSections[t]
             /\ results[i].kind \in KindLabels
             /\ \A k \in DOMAIN results : results[i] = results[k] => i = k
        /\ Len(results) <= 500

-----------------------------------------------------------------------------

\* The runs and the reports that count for some kinds, of which none means all.
Matching(r, kinds) == {i \in DOMAIN r.runs : kinds = {} \/ r.runs[i].kind \in kinds}

Due(reports, kinds) ==
  {r \in reports : /\ r.located = {"latitude", "longitude"} /\ r.age <= 12
                   /\ kinds = {} \/ Matching(r, kinds) # {}}

\* The rows are what the docstring of fetch_geo_reports says: "One row per
\* geolocated report from the last 12 months. With `kinds`, the counts only
\* cover those probe kinds and reports that match none of them drop out
\* entirely."  Beyond the limit it is the oldest that are left out.
RowsMatch(features, due, kinds) ==
  /\ \A f \in ToSet(features) : \E r \in due : f.at = r.at
  /\ \A r \in due :
       IF Cardinality({q \in due : q.at > r.at}) >= Limit THEN {f \in ToSet(features) : f.at = r.at} = {}
       ELSE \E f \in {f \in ToSet(features) : f.at = r.at} :
              /\ {g \in ToSet(features) : g.at = r.at} = {f}
              /\ f.total = Cardinality(Matching(r, kinds))
              /\ f.ok_count = Cardinality({i \in Matching(r, kinds) : r.runs[i].ok})
              /\ f.total = f.ok_count + f.fail_count
  /\ \A i, k \in DOMAIN features : i < k => features[i].at > features[k].at

GeoRowsMatch ==
  function = "geo_reports" =>
    LET reports == {input[1]} \cup input[2]
        kinds == ToSet(input[3])
    IN  RowsMatch(GetGeoReports(reports, input[3]), Due(reports, kinds), kinds)

=============================================================================
