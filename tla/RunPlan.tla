------------------------------ MODULE RunPlan ------------------------------
(***************************************************************************)
(* run_plan of crates/prober_core/src/lib.rs: the jobs of the configured   *)
(* targets, then the live peers of the Beacon APIs (BeaconPeers), then two *)
(* jobs per peer, and all of them run.  What run_jobs makes of the jobs is *)
(* RunJobs; here it is one result per job, in job order, as JobReport      *)
(* promises.                                                               *)
(***************************************************************************)
EXTENDS BeaconPeers, JobPlan

CONSTANTS
  Config,      \* cfg.probes: for each section its targets (control_http: one if enabled)
  Compiled     \* the sections whose Cargo feature is on, or that need none

ASSUME ConfigAssumption ==
  /\ Len(Config["beacon_https"]) = B
  /\ Compiled \subseteq DOMAIN Config
  /\ \A s \in DOMAIN Config : Config[s] \in Seq(ToSet(Config[s]))

VARIABLES
  phase,       \* where run_plan is
  jobs,
  results

planVars == <<vars, phase, jobs, results>>

\* Mutant: a peer is only connected to.
LivePeerTcpOnly == JobsFor([i \in DOMAIN peers |-> peers[i].at], <<"beacon_tcp_connect">>)

PeerJobs == LivePeerJobs([i \in DOMAIN peers |-> peers[i].at])

-----------------------------------------------------------------------------

PlanInit ==
  /\ Init
  /\ phase = "building"
  /\ jobs = <<>>
  /\ results = <<>>

Build ==
  /\ phase = "building"
  /\ jobs' = BuildJobs(Config, Compiled)
  /\ phase' = "fetching"
  /\ UNCHANGED <<vars, results>>

\* fetch_all, until it returns.
Fetch ==
  /\ phase = "fetching"
  /\ FetchStep
  /\ UNCHANGED <<phase, jobs, results>>

Extend ==
  /\ phase = "fetching"
  /\ Fetched
  /\ jobs' = jobs \o PeerJobs
  /\ phase' = "running"
  /\ UNCHANGED <<vars, results>>

RunAll ==
  /\ phase = "running"
  /\ results' = jobs
  /\ phase' = "done"
  /\ UNCHANGED <<vars, jobs>>

Reported == phase = "done" /\ UNCHANGED planVars

PlanNext == Build \/ Fetch \/ Extend \/ RunAll \/ Reported

PlanSpec == PlanInit /\ [][PlanNext]_planVars

\* run_plan is polled until it returns, and a request to a Beacon API ends
\* within its timeout.  Every step comes closer to the end, so that one
\* fairness condition does for the tasks and the loop that joins them.
PlanFairSpec == PlanSpec /\ WF_planVars(Build \/ Fetch \/ Extend \/ RunAll)

-----------------------------------------------------------------------------

LiveKinds == {"beacon_tcp_connect", "lib_p2p_handshake"}

ResultsOf(kind, target) == {i \in DOMAIN results : results[i] = [kind |-> kind, target |-> target]}

\* The report covers the plan and nothing else: every configured target of a
\* section that is compiled in has a result of each of the section's kinds,
\* whatever became of the Beacon APIs; every routable outbound peer that any
\* of them reported has one TCP and one libp2p result, next to each other;
\* and no other target was probed.
ReportCoversPlan ==
  phase = "done" =>
    /\ \A s \in DOMAIN Plan : Plan[s][1] \in Compiled =>
         \A t \in ToSet(Config[Plan[s][1]]), k \in ToSet(Plan[s][2]) : ResultsOf(k, t) # {}
    /\ \A a \in UNION {Vouched(b) : b \in Sources} :
         \E i \in DOMAIN results :
           /\ ResultsOf("beacon_tcp_connect", a) = {i}
           /\ ResultsOf("lib_p2p_handshake", a) = {i + 1}
    /\ \A i \in DOMAIN results :
         \/ /\ results[i].kind \in LiveKinds
            /\ results[i].target \in UNION {Vouched(b) : b \in Sources}
         \/ \E s \in DOMAIN Plan :
              /\ Plan[s][1] \in Compiled
              /\ results[i].kind \in ToSet(Plan[s][2])
              /\ results[i].target \in ToSet(Config[Plan[s][1]])

\* A dead, slow or broken Beacon API never keeps run_plan from returning.
PlanEnds == <>(phase = "done")

=============================================================================
