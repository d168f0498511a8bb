# A TLA+ model of eth-conn-probes

The repository measures whether a machine can reach Ethereum's infrastructure:
a Rust library runs network probes, a desktop/Android app (Tauri + React) and a
command-line program start it and post the report, and a FastAPI server stores
the reports and draws them on a map. This directory holds TLA+ modules that
model the parts of it with state, order and failure in them, the TLC
configurations that check them on small instances, and TLAPS proofs.

Run one check with `tlc -config MCRunJobs.cfg MCRunJobs`, one proof with
`tlapm RunJobsProofs.tla`. `PROJECT.json` lists the runs, the source lines behind
every definition, and for each property a mutation of the code that breaks it.

## 1. Inventory

| component | state | operations | talks to |
|---|---|---|---|
| Run plan (`lib.rs`, `probes/mod.rs` `build_jobs`, `build_live_peer_jobs`) | none; one report per call | config sections become jobs, live peers become two jobs each | live peer discovery, job runner |
| Job runner (`probes/mod.rs` `run_jobs`) | tasks, a tokio semaphore, the collected runs | spawn, acquire, attempt, finish or panic, await in order | `ProbeFn::run`, the tokio runtime |
| Configuration (`config.rs`, `config/default.toml`) | none; the sections of targets the app is built with | default, parse | run plan |
| Attempt summary (`model.rs`) | none | counts, min/mean/max, verdict | job runner |
| Live peer discovery (`probes/beacon_peers.rs`) | join handles, `seen`, `peers` | one request per Beacon API, filter, deduplicate | Beacon REST APIs |
| Probes (`probes/*.rs`, 15 `ProbeFn`s) | a socket or request per attempt | connect, send, judge the answer, time out | remote nodes and providers |
| RLP and packets (`rlp.rs`, `discv4_ping.rs`, `rlpx_handshake.rs`) | none | encode, hash, sign, seal | the two probes |
| Report delivery (`commands.rs`, CLI `main.rs`, `reporting.rs`) | the outcome of one run | run, POST, queue or fail | collector, offline queue |
| Offline queue (`queue.rs`) | `queued_reports.jsonl` | append a line; parse, count and truncate | file system; other commands of the app |
| Client id (`commands.rs`) | `client_id.txt` | read or create | file system |
| Collector (`main.py`, `storage.py`, `db.py`, `base.sql`) | three tables, a pool of five connections | validate, one transaction per report, the map's query | PostgreSQL, GeoIP database |
| Geo reports (`storage.py`, `main.py`, `commands.rs`) | none | filter, count by verdict, newest 2000 | collector's tables, map view |
| Map view (`MapView.jsx`) | selected kinds, map readiness, status, points shown | toggle kinds, reload, show | collector, through the app's command |
| Run page (`App.jsx`) | last report, busy flag | run; label the results and divide them into tables, note TCP without UDP | commands |

**Interactions.** `run_plan` builds the jobs, awaits `fetch_all`, appends the jobs
of the live peers and awaits `run_jobs`. The app then POSTs the report and, if
that fails, appends it to the queue; the CLI prints the report before it POSTs and
exits with an error if the POST fails. Flushing the queue is a registered command of the app
(`flush_queued_reports`) that no page calls today. Several app commands can be under way
at once (Tauri runs each as a task), and they share the queue file and the client
id file with no lock.
The server's handlers share the pool and meet in PostgreSQL's unique index on
`run_id`. The map asks the collector through a command and shares its React state
with every request under way.

**What is hard.**

* *Concurrency*: tasks race for permits, end in any order, and may panic while
  they hold one; posts of one run race in the database; queue commands race on a
  file; answers to the map overtake each other.
* *Failure*: Beacon APIs fail, remotes close, reset or say nothing at any point of
  a handshake, statements fail in mid-transaction, the app or the server dies between two
  steps, the answer to a POST is lost or late.
* *Ordering and limits*: reports are collected by position, peers deduplicated across
  sources in configuration order; pool of five, 500 results, address-block edges,
  RLP's length classes.
* *Copies*: the kinds of probes are listed four times, the boot nodes twice, the
  aggregate behind the map twice; nothing in the code compares them.

**What makes each component correct.** Runner: every permit returns, no waiter is
forgotten or overtaken, one report per job at its place, and the run ends.
Discovery: exactly the public outbound peers, once, labelled by the first source
that knows them. Probes: the verdict follows from what the remote did and in
which order, and an attempt always ends. Delivery: *sent* means stored, and a report
that is neither sent nor queued is never silently gone. Queue: a queued report
stays whole and single until a flush clears it. Client id: once there, it stays.
Collector: stored once, whole, only then acknowledged, and shown from then on. Map: it
settles on what is selected. Packets: their receiver can read them. Page: every result
stands in one table, under its label, and the map's filter reaches it.

## 2. Modules

| module | models | state and actions |
|---|---|---|
| `Summary` | `summarize_attempts` | operators only |
| `RunJobs` | `run_jobs` | `handles`, `task`, `results`, `permits`, `queue`, `out`; `Spawn` is one turn of the loop, `Enqueue`/`TakePermit` are `acquire`, `Attempt` one `run()`, `Finish`/`Panic` end the task and drop its permit, `CollectOk`/`CollectErr` are `h.await` |
| `JobReport` | what a caller of `run_jobs` relies on | `verdict`, `reported` |
| `JobPlan` | `build_jobs`, `build_live_peer_jobs`, `default_config` | operators; the built-in configuration with its targets, each list as it is written there |
| `Labels` | the `target_label`s of `build_jobs`, `parseTarget` of `App.jsx` | operators; a label is a sequence of tokens (address, parenthesis, name, parenthesis) that one side writes and the other takes apart |
| `PeerAddress` | `parse_multiaddr`, `is_non_routable` | operators; an address is the octets or the group its text begins with |
| `RunPlan` | `run_plan` | extends `BeaconPeers` and `JobPlan` by `phase`, `jobs`, `results`; `Build`, `Fetch` (a step of `fetch_all`), `Extend`, `RunAll` |
| `BeaconPeers` | `fetch_all`, `fetch_from` | `fetch`, `body`, `joined`, `pos`, `seen`, `peers`; `Answer`, `Fail`, `PanicFetch` per task, `Insert`/`NextHandle` for the joining loop |
| `Attempt` | one `ProbeFn::run` and its TCP remote | `pc`, `up`, `down`, `remote`, `result`; the remote says, hangs up, resets, or is cut off by a filter |
| `RlpxHandshake`, `Libp2pHandshake`, `Discv4Ping`, `WssSession` | five probes (`WssSession` is both WebSocket probes) | one action per await and outcome of `run()` |
| `HttpExchange` | `https_jsonrpc`, `https_jsonrpc_write`, `beacon_https`, `http_control` | one request; `remote` is what the server has sent of its answer, a body is the fields the verdicts look for |
| `DnsCompare` | `dns_compare` | the system resolver, then DoH, then the verdict on both |
| `ConnectProbe` | `dns_resolve`, `tcp_connect`, `tls_handshake`, `discv5_ping` | a chain of calls under one timeout; the kinds `p2p_tcp_connect` and `beacon_tcp_connect` are `tcp_connect` |
| `ProbeAttempts` | an attempt of any of them | adds `kind`; dispatches to the instances |
| `Rlp`, `Packets` | `rlp.rs`; `sign_packet`, `build_ping`, `build_pong`, `ecies_encrypt`, `build_auth_packet` | operators on byte strings |
| `ResultsPage` | `KIND_LABELS`, the tables and the note of `App.jsx`, the kinds of the map's filter | operators; every list of kinds is a copy of its own |
| `ReportQueue` | `append_queued_report`, `flush_queue`, the ends of their commands | the file as a sequence of whole lines and torn pieces; open, write, read and truncate are separate steps, and `Crash` is the app being killed |
| `ClientId` | `load_or_create_client_id` | `idFile`, `loading`, `id`; to resolve the path, to read, truncate and write are separate steps, each may fail, and `IdCrash` is the app being killed |
| `Collector` | `POST /report`, `insert_report`, `GET /api/geo-reports`, the pool | a state per request and per query, open transactions, stored rows; `Conflict` waits, as `ON CONFLICT` does, for the other transaction; `Select` is the query's snapshot |
| `GeoReports` | the aggregate of `fetch_geo_reports` and its way to the map | operators on sets of reports |
| `IdempotentStore` | what the collector promises its clients | `stored`, `answer` |
| `ReportDelivery` | `run_probes` and the CLI's `run`, `send_report`, the network, with `Collector` as an instance | `client`, `net`, `disk`, `printed`, and the collector's variables |
| `MapView` | filter, `loadData`, the effects, the tab that mounts it | selected kinds, requests under way, points shown, status; `OpenMap`, `CloseMap` |
| `Orders` | `sort()` | `Ascending`: the numbers of a set in their order, chosen by what sorted means |
| `PureFunctions` | the pure operators, one input per behaviour | references: a strict RLP reader, the receivers of the packets, the docstring of the aggregate |
| `MC*` | TLC instances | values of the constants, reference definitions |
| `RunJobsProofs`, `CollectorProofs`, `DeliveryProofs`, `AppProofs`, `PlanProofs`, `ProbeProofs`, `FunctionProofs` | | the theorems about `RunJobs`, `Collector`, `ReportDelivery`, the app's `ReportQueue`, `ClientId` and `MapView`, `BeaconPeers` and `RunPlan`, `ProbeAttempts`, `PureFunctions` |
| `OperatorProofs` | | lemmas about the operators the models are built from, and about the jobs `JobPlan` makes |

`ReportDelivery` composes client and server; `ProbeAttempts` composes the probes;
`RunPlan` composes the plan with the discovery of peers;
`RunJobs` sees a probe as a member of `Outcomes`, and `ProbeAttempts` shows
that `run()` always returns one. Operators named in a comment that begins with
`Mutant:` are the mutations `PROJECT.json` uses; no specification refers to them.

### Abstractions worth knowing

* Nothing has a clock. A timeout can happen whenever the awaited thing has not
  happened; `tokio::time::timeout` polls the protocol before the timer, so what has arrived
  already is read. `reqwest`'s timeout can fire at any time, also when the answer
  is on its way.
* tokio's semaphore is fair: a dropped permit goes to the head of the waiters.
  `RunJobs` models this, and that a task may find a free permit only when nobody waits.
* A crash of the app loses its commands; a write cut off by it leaves a torn line.
* PostgreSQL is modelled from its use: a transaction's rows are visible when it
  commits, an insert that meets the unique key of an open transaction waits for it,
  a failed statement rolls back. The connection may break while COMMIT is sent, so
  a post may fail although its run is stored.
* The HTTP probes judge the final response (`reqwest` follows redirects), and a body
  that breaks off is judged as an empty one; an `expect_body` is not the empty string.
* `run_jobs` is one step of `RunPlan`, from the jobs to one result each in job order:
  what `JobReport` promises and `RunJobs` implements.
* Hashes, signatures and MACs are checksums of what they cover, key material is a filler
  of the right length, and the cipher flips bits: a packet is read back only if each of
  them was taken over the right bytes.
* The two files of the app's data directory are independent: no code touches both, so that
  a behaviour of `MCReportQueue` is about the one or the other.
* `ReportDelivery` leaves out the map's queries, which meet the posts only in the pool.
* Closing the map's tab drops the component's state: answers to its requests go nowhere.
* `discv4_ping` looks only at the type byte of a packet. Strays of other senders
  include PINGs and PONGs, and a stray PONG passes the attempt as it does in the code.

## 3. Runs

| run | instance | states | shows |
|---|---|---|---|
| `functions` | up to 4 attempts with times 1, 4, 6 or none; strings of 0 to 256 bytes and numbers at the edges of RLP; PING, PONG and auth packets; all verdicts of the built-in boot nodes; 0 to 216 live peers; up to 4 stored reports and a limit of 2 | 6 thousand | summary, RLP, packets, tables, note and aggregate agree with references that share no code with them |
| `run_jobs` | 4 jobs, 2 permits, 2 attempts | 41 thousand | permits conserved, no lost wakeup, FIFO, reports at their places, refinement of the fair `JobReport`, so that it returns |
| `run_plan` | 3 sources, 5 bodies, 11 sections of 0 to 3 targets, built without `discv5` | 3 thousand | targets exact at the block edges, no duplicates, order independent of the answers; the report covers the plan and the peers and nothing else; return |
| `non_routable` | 2 sources | | **violated**: unique-local and link-local addresses become targets |
| `probe_attempts` | 15 kinds, remotes that send up to 3 messages | 31 thousand | the verdict of each probe, no standoff, every attempt ends |
| `libp2p_echo` | up to 2 messages | | **violated**: an echoed header does not suffice |
| `collector` | 3 posts of one run, 1 oversized post of another, 1 query; pool of 2 | 197 thousand | stored whole and once, acknowledged only then and shown from then on, every request ends, refinement of `IdempotentStore` |
| `report_queue` | 2 reports and 2 flushes; 3 runs that load the client id | 23 thousand | queued reports stay whole and single; a torn line blocks all later flushes; commands end; the client id stays, and every later run that can read it gets it |
| `report_queue_count` | 2 reports, 1 flush | | **violated**: a flush clears more than it counts |
| `report_delivery` | 2 app runs, one with an oversized report, 1 CLI run, pool of 1 | 32 thousand | sent means stored; no silent loss; every client returns |
| `map_view` | 3 clicks, tab switches among them, 2 sections | 11 thousand | settled without overlap means the selected kinds are shown; Loading ends |
| `map_view_filter` | 3 clicks | | **violated**: the map may settle on an older filter |

**Why these bounds.** `functions`: four attempts are enough for an unmeasured, a fastest, a
slowest and a middle one with a mean that is rounded; the strings and numbers lie on both
sides of each class of RLP; 216 live peers are the most the collector takes, and every number up to it is
an input, as is every verdict of the boot nodes, so that nothing is left of these two; the reports lie on both sides of the year, of
the limit and of the filter. `run_jobs`: with 4 jobs on 2 permits there are two running
and two waiting, the least at which a waiter can be overtaken; a panic can hit a
permit holder while others wait. `run_plan`: three sources give one that fails between two that
know the same peer; the bodies put peers on both sides of every block edge, and
repeat one within a body and across bodies. `probe_attempts`: three messages are one more
than any protocol reads before its verdict, so a late message can try
to change it. `collector`: two posts wait for a third while the pool is exhausted by
them, so the map's query queues behind duplicates and must see what had been acknowledged
before it came. `report_queue`: two flushes
and two appends give every order of read, append and truncate, with a crash
at any point; three runs give two first ones that race and one that comes later.
`report_delivery`: one connection, so a client can time out while its
request waits for another's. `map_view`: three clicks give two requests under
way and a filter changed once more after them. Where a theorem of section 4 states
the property, it holds for every other size as well.

**Deadlock** is checked in every run: the models stutter explicitly when the work is done.

### Fairness

* `RunJobs`: weak fairness of each task and of the collector, as the multi-threaded runtime
  polls every ready task. An attempt returns because every probe has a timeout;
  `AttemptEnds` checks that for the probes modelled.
* `RunPlan`: it is one task that is polled until it returns, and `reqwest`'s timeout bounds every
  request to a Beacon API, so each fetch ends.
* `ProbeAttempts`: only the probe's own steps are fair: the timer, the
  resolver (`lookup_host` of discv4 has no timeout of ours but does answer), the kernel's connect.
  The remote and the network owe nothing.
* `ReportQueue`: a command under way takes its next step; crashes are not fair and do not have to happen.
* `Collector`: handlers are polled and PostgreSQL answers each statement or fails it
  (`command_timeout=10`); asyncpg's pool hands a connection to its waiters in turn, so that a
  post or a query that finds one free again and again gets it (strong fairness of acquiring).
* `ReportDelivery`: only the client's steps, its timeout among them. Server and
  network may stop for ever.
* `MapView`: React runs a pending effect, and some request under way is answered or fails,
  as `reporting.timeout_ms` has it in the command behind it. The user owes nothing.

## 4. Proofs

Every theorem holds for all values of the constants that the named assumptions of the
modules allow (`RunConfigAssumption`, `BeaconAssumption`, `IpAssumption`,
`CollectorAssumption`, `DeliveryAssumption`, `RunsAssumption`, ...): any number of jobs,
sources, requests, reports, flushes, clicks and messages. `FunctionsAssumption` has four parts:
times are numbers; bytes are bytes, a port has two, a number fits in four (as in
`ToBeBytes`, whose upper four are 0) and a string is no longer than a billion, so that a list of two
still has a length of four bytes; no two stored reports arrive at the same instant (the query's order of such
two is PostgreSQL's choice), and no kind is blank or a comma, with which the app joins them; and not more
live peers than the collector takes.

| theorem | says |
|---|---|
| `RunJobsProofs!TypeCorrect` | every variable keeps its type |
| `RunJobsProofs!PermitsAreConserved` | free permits plus running tasks are `Parallelism`, through panics too |
| `RunJobsProofs!WakeupsAreNotLost` | the semaphore's queue is exactly the waiting tasks, each once, and empty while a permit is free |
| `RunJobsProofs!WaitersAreServedInOrder` | no task that queued later gets its permit first |
| `RunJobsProofs!ReportsAreComplete` | the runs collected are those of jobs 1, 2, … in order, a panicked one as a failure |
| `RunJobsProofs!OkIsEarned` | an ok report means all attempts were made and the threshold was reached |
| `RunJobsProofs!Refinement` | `RunJobs` implements the safety part of `JobReport` |
| `RunJobsProofs!ZeroParallelism` | with `parallelism = 0` and at least one job nothing is ever reported: `run_jobs` hangs |
| `CollectorProofs!TypeCorrect`, `Atomicity`, `AcknowledgedStays`, `OneIsNew` | a run is in the tables whole or not at all; what was acknowledged stays; one post of a run is told that it is new |
| `CollectorProofs!MapIsUpToDate` | the map shows every run acknowledged before it asked, and none that is taken back |
| `CollectorProofs!Refinement` | `Collector` implements `IdempotentStore` |
| `DeliveryProofs!SentReportsAreStored`, `ReportsAreNotLost` | sent means stored; a report that was to be sent is somewhere, or its client says that it is not |
| `AppProofs!QueuedReportsAreKept`, `ReportsAreQueuedOnce`, `PoisonIsForEver` | the queue file keeps a queued report, once, until a flush truncates it; a torn line blocks every later flush |
| `AppProofs!IdIsForEver` | once an id is in the file and no run is about to replace it, it stays there and is what every run returns that knows the path, until one cannot read the file |
| `PlanProofs!TargetsAreDistinct`, `FirstSourcesLabel`, `NothingIsMissed` | no target twice; a target carries the name of the first source that vouches for it; the targets are what the sources together vouch for |
| `PlanProofs!TargetsAreComplete` | and these are all the public outbound peers and none of RFC 1918, CGNAT, loopback (IPv4 and IPv6) or fd00::/8, for every IPv4 address and every IPv6 group: the octet and text tests cut these blocks where the RFCs do |
| `PlanProofs!ReportIsComplete` | the report has the targets of every compiled section and two results per live peer, each once and nothing else, for any configuration |
| `PlanProofs!PlanFetches` | `RunPlan` implements `BeaconPeers`, so that all of the above holds inside `run_plan` |
| `AppProofs!SettlesOnSelected` | without overlapping requests the map settles on what is selected |
| `ProbeProofs!NobodyWaitsForNobody`, `VerdictsAreEvidenced`, `FirstMessagesStand`, `EvidenceIsTaken` | the verdicts of the probes, against remotes that send any number of messages in any order: no pass without the evidence its protocol calls for, none refused that has it, and the first lines or the first text decide both ways |
| `FunctionProofs!SummaryIsCorrect` | the counts are the numbers of attempts that succeeded and that failed, the verdict compares the former with the threshold, and least, greatest and mean time are those of the attempts, however many and in whatever order |
| `FunctionProofs!GeoRowsAreRight` | the map's rows are those the docstring of `fetch_geo_reports` promises, for any stored reports and any filter |
| `FunctionProofs!RlpIsReadBack` | what `rlp_bytes`, `rlp_uint` and `rlp_list` encode, alone and nested, is read back by a reader that takes only the shortest form |
| `FunctionProofs!PacketsAreRead` | the receivers of PING, PONG and auth packet find hash, signature, size and MAC right and read what was put in |
| `FunctionProofs!PageShowsAllOnce`, `MismatchesAreReal` | every result of the app's report is in one table, labelled, known to the map and a row of its own; the note names exactly the boot nodes at whose address TCP answered and UDP did not, whatever the verdicts |

**Runner.** `PermitsConserved` is not inductive alone: that a dropped permit may be
handed to the queue's head needs that this head is a waiting task and that nobody
waits while a permit is free. `SemaphoreInv` joins the types, `PermitsConserved` and
`NoLostWakeup`; it is preserved by each action on its own (`TakePermitSemaphore`,
`EnqueueSemaphore`, `DropPermitSemaphore`, ...), with two lemmas that count the running
tasks when one starts or ends. The reports need more: `IInv` adds that a finished
task has all its results and that what was collected is what `ProbeRun` or
`PanickedRun` gives for tasks that can no longer change (`ReportsStable`). From `IInv`, `OkIsEarned`
and `Refinement` follow per step.

**Collector.** `IInv` joins the five invariants of the run with `AnsweredIsDone` (a request under
way has no answer yet, and one whose transaction is over knows how it ended) and `AskedIsStored` (what had been acknowledged when
a query came is stored). The lemmas `InsertEffect`, `CommitEffect` and `RollBackEffect` say
once what an action does to `Stored` and to the owners of open rows; the steps
of the invariant and those of the refinement both cite them. `StoredGrows`, that no step takes
a stored run away, comes from the refinement and is what `Delivery` needs.

**Delivery.** `DInv` reuses the collector's `IInv` through an instance of
`CollectorProofs`: every step of `ReportDelivery` is a step of the collector or leaves it
alone (`ServerSteps`), so what is stored only grows. `ReportIsSomewhere` says where a
report is at each stage of its client.

**App files.** `QueuedOnce` needs that a report in the file has had its write
(`WrittenBefore`) and that a flush truncates once, at its end (`WipedAtEnd`). `PoisonStays` and
`IdSticks` are step properties on top of the type invariants. `IdSticks` is about the file and about who reads it:
while nobody is between reading and writing, no step changes the file and whoever has the path and returns, returns what is in it. A run
that cannot read a file that is there makes up an id and replaces the old one, as the code does; the property speaks up to that step.

**Peers.** `LInv` adds to the types and the order of the list that of the
joined sources everything vouched for has been seen, of the current one everything up
to `pos` (`Progress`), and that a listed peer is not vouched for by an earlier source (`Labelled`).
`V4Blocks` and `V6Blocks` compare the tests of `IsNonRoutable` with the blocks as ranges of numbers. Link-local addresses
(169.254.0.0/16, fe80::/10) and fc00::/8 are in neither half of `TargetsComplete`: it asks neither that they be targets nor that they
not be, since `non_routable` shows what the code does with them, and a repair of that leaves `TargetsComplete` true.

**Plan.** The phases of `run_plan` carry what has been built: after `Build` the jobs are those of the
compiled sections, after `Extend` with two per target behind them, after `RunAll` one result each.
That these are the report's sections, each once, is a lemma about `FlattenSeq` (`FlattenPairs`).

**Operators.** The library's induction theorems take an operator, which the provers cannot instantiate.
`OperatorProofs` has induction all the same: a set of numbers that is not empty has a least element (`Smallest`,
from `WFMin` and `NatLessThanWellFounded`), and so a set that has 0 and with `n` also `n + 1`
has every number (`Induction`). The recursive functions inside `FlattenSeq`, `FoldFunction` and the reader's
`Items` are then first shown to exist, as functions with their equation, and used through
that equation only (`FlattenJoins`, `AddsExists`, `ItemsRead`). On top of these lie what the other
modules cite: `FlattenElements` and `FlattenCuts` (which place of the result comes from which place of
which part), `SumAlong` (a sum does not depend on the order it is taken in), and `CanBeSorted` with
`AscendingSorts`: the sequence `Ascending` chooses exists.

**Functions.** An input does not change (`StaysAtInput`), so that each theorem is a lemma about any input.
*Summary*: the sorted times are the times (`TimesAreSorted`), so first and last are least and greatest, and the sum, which
does not depend on the order, bounds the mean. *Rows*: what the endpoint makes of the query is what was selected
(`KindsAreSent`), and the first `Limit` of the due reports in descending order are those with fewer than `Limit` later ones.
*RLP*: `Encodes` says of a byte string that it has one of the three forms a payload may have; the encoder's
results do (`PrefixedEncodes`, with `BigEndian` for the length of the length), and the header of a
string of this form leads the reader over exactly its bytes (`HeaderTakes`). `ItemsOfCut` follows the reader
from one cut of a concatenation to the next, by induction from the last item to the first.
*Packets*: `SignedParts` and `SealedParts` name the places of the parts, so that what the receiver takes the
checksums of is what the sender took them of, and what it decodes is the list of `ItemsOfCut`.
*Page*: of any configuration, `build_jobs` makes the jobs of the compiled sections and no other (`BuiltJobs`), and none twice
if no section has a target twice, because no kind is in two sections (`OwnKinds`, `BuiltDistinct`). Of the app's
configuration `DefaultTargets` counts the targets and shows their names to differ: 67 jobs, so that 216 peers with two
jobs each stay below 500 and 217 would not. The note is about addresses and names its nodes by what it reads out of two
labels, so it rests on three facts: the two lists of boot nodes agree (`BootListsAgree`), `parseTarget` reads from a label
the name `build_jobs` wrote into it (`NameOfLabel`), and no two nodes share a name or an address (`BootNames`).

**Map.** `LastLoadIsCurrent`: as long as no two requests overlap, the last one has asked for
what is selected or the effect that will ask for it is due; `NoMapNoLoad` covers the tab.

**Probes.** Each kind has its invariant, joined in `ProbeInv`: `Discv4Inv` (while nothing is
lost, a datagram of the endpoint proof is on its way, owed or unread: `SomebodyMoves`); for the TCP
probes `Stream`, that what the remote has said is what has been read followed by what is
still in the socket, so that "the first" line or frame can be spoken of; `HttpInv`, that a
pass is backed by a body that has come whole, with the field and the status of this probe's own table (`Backed`); `DnsInv`, that what was kept of the system resolver's
answer is its answer. `RemoteStep` is proved once for all TCP probes.
`FirstMessagesDecide` has two halves. As an invariant: what passes, or is refused for its content, was so on the first lines or the
first text. As a step property: a first text that has arrived waits to be read whatever comes in behind it, the timer included, and then
decides; likewise the first line, and the bytes that follow the /noise proposal. A reset that overtakes data in the socket
(`Attempt!Reset`) is the exception both name: such a text is never read, and the attempt ends as `network`. `PassIsAReaction` cannot ask more of an RLPx pass than
that the remote reacted: a FIN it sent before the auth packet reached it is read as a reaction, as the code does.

**Only model-checked:** every liveness property and the refinement of the fair `JobReport`
(TLAPS here proves neither liveness under fairness nor `ENABLED`; the refinement of its safety part
is `RunJobsProofs!Refinement`). Every safety invariant that a passing run checks is also a theorem.

## 5. Where the code and its documents disagree

* `non_routable`: `is_non_routable` is said to drop link-local and unique local
  addresses; it knows them by the text prefixes `fe80:`, `fc00:` and `fd` only.
* `libp2p_echo`: the header echo is said to decide; the timeout overrides it.
* `report_queue_count`: a flush is said to count what it clears.
* `map_view_filter`: an older answer can replace a newer one on the map.

Seen, and not made runs: `docs/DESIGN.md:768` calls the live peers "inbound-only",
the code keeps the outbound ones, as its own comment says. The comment of
`rlpx_handshake.rs` counts every reaction as a success and only a timeout as a failure, but a
reset that comes before the auth packet is written is a `network` failure and a refused
connection `tcp_blocked`. `README.md:143` says a report whose POST failed is queued; if
the append fails too it is not, and the outcome still reads `queued` with the reason
`queue_failed=...` (`NoSilentLoss` counts that as told). `README.md:339` has a provider that
answers 403 flagged as not ok; `https_jsonrpc_write` looks at the body first, so a 403 with
a JSON-RPC error in it passes there. `docs/DESIGN.md:1690` has three probes generated for each
`discv5_consensus` entry; `build_jobs` makes one. `docs/DESIGN.md:379` counts a RST after the auth
packet as unreachable; the code passes it. `docs/DESIGN.md:359` puts the static public key in the auth body and
`:370` the MAC over IV and ciphertext; the code sends the ephemeral key and includes the size prefix in
the MAC. `docs/DESIGN.md:787` calls the kind `libp2p_handshake`; reports say
`lib_p2p_handshake`, and so do the lists of the page (`ShownOnce` fails with the documented name).
The note of `App.jsx:374` says that DiscV4 "times out"; any failure of the UDP probe counts.

`README.md:149` and `docs/DESIGN.md:610` have one `client_id` per installation. Two first runs at
once return an id each, and so does a run whose write fails; what is left in the file, which can be
the torn beginning of an id, is the id from then on (`IdSticks`), and the server's `_to_uuid`
stores a torn one as NULL. A run with more than 216 live peers makes a report of more than 500 results, which
the collector refuses each time it is posted (`ShownOnce` has the bound, `ReportDelivery` such a
report). `?kinds=,` means all kinds, as no filter does; the app does not send it.

Documented nowhere: an HTTP
probe's timeout carries an RTT, a socket probe's does not; `http_control` without an `expect_body` passes
on the status of an answer whose body never came.

## 6. Not modelled

* Reading `config/default.toml` with serde and the CLI's arguments: library calls without state of
  their own. The defaults themselves are `JobPlan`.
* The lookup in the GeoLite2 database: a library call whose result (located or not) is an input of `GeoReports`.
* The columns of the collector's tables and the conversions of their values, and with them the
  SMALLINT limits of `base.sql`: a failing statement is modelled at every INSERT, its cause is not.
* The run page's controls, its Reason column and the order of its rows; popups, markers and layout of the map.
* The cryptographic primitives behind the packets, TLS, and what a time-out lasts: nothing has a clock, so that
  the resolver in front of the timeout of `discv4_ping` and the two timeouts of `dns_compare` are hazards no property covers.
* Build, packaging and deployment: no program state.

## 7. What could follow

The run page's `handleRun` and its busy flag next to the commands; the ranges of the columns, from the report's
u32 and usize fields to SMALLINT.
