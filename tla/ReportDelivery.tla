--------------------------- MODULE ReportDelivery ---------------------------
(***************************************************************************)
(* The way of a report from a client to the collector: run_probes of the   *)
(* app (commands.rs), the run command of the CLI (prober_cli/main.rs) and  *)
(* send_report (reporting.rs) on one side, the Collector on the other, and *)
(* a network between them that loses requests and answers.                 *)
(*                                                                         *)
(* A client is one of                                                      *)
(*    probing     run_plan is running                                      *)
(*    waiting     in send_report                                           *)
(*    appending   the app's POST failed; the report goes to the queue file *)
(*    sent, queued, queue_failed, skipped    what run_probes returns; the  *)
(*                CLI exits with success when sent or skipped              *)
(*    send_error  the CLI exits with an error, its report printed before   *)
(*    error       run_plan failed, there is no report                      *)
(***************************************************************************)
EXTENDS Integers, FiniteSets

CONSTANTS
  Requests, RunIds, RunId(_), Rows(_), Results(_), WellFormed(_),
  MaxProbeResults, PoolSize, NoRequest,     \* those of Collector
  App                \* the requests made by the app, the others are the CLI's

VARIABLES
  client,    \* where the client of each request stands
  net,       \* the requests under way to the server
  disk,      \* the reports in the app's queue file
  printed,   \* the reports the CLI has printed
  state, answer, outcome, report, rows      \* those of Collector

\* The map's queries, which meet the posts only in the pool, are left out.
Server == INSTANCE Collector WITH Queries <- {}, query <- <<>>, asked <- <<>>, seen <- <<>>

\* The collector can handle the requests.
ASSUME DeliveryAssumption == Server!CollectorAssumption

serverVars == <<state, answer, outcome, report, rows>>
clientVars == <<client, net, disk, printed>>
vars == <<client, net, disk, printed, state, answer, outcome, report, rows>>

Returned == {"sent", "queued", "queue_failed", "skipped", "send_error", "error"}

-----------------------------------------------------------------------------

Init ==
  /\ Server!Init
  /\ client = [r \in Requests |-> "probing"]
  /\ net = {}
  /\ disk = {}
  /\ printed = {}

Goes(r, s) == client' = [client EXCEPT ![r] = s]

\* run_plan returns an error.
PlanFails(r) ==
  /\ client[r] = "probing"
  /\ Goes(r, "error")
  /\ UNCHANGED <<net, disk, printed, serverVars>>

\* The report is there; the CLI prints it before it does anything else.
PrintReport(r) == printed' = IF r \in App THEN printed ELSE printed \cup {r}

\* --no-send, no_send or reporting.enabled = false.
Skip(r) ==
  /\ client[r] = "probing"
  /\ PrintReport(r)
  /\ Goes(r, "skipped")
  /\ UNCHANGED <<net, disk, serverVars>>

\* send_report posts the report.
Post(r) ==
  /\ client[r] = "probing"
  /\ PrintReport(r)
  /\ Goes(r, "waiting")
  /\ net' = net \cup {r}
  /\ UNCHANGED <<disk, serverVars>>

\* Mutant: any answer counts, error_for_status is missing.
SucceedsAnyhow(r) ==
  /\ client[r] = "waiting"
  /\ answer[r] \notin {"none", "lost"}
  /\ Goes(r, "sent")
  /\ UNCHANGED <<net, disk, printed, serverVars>>

\* A 2xx answer arrives in time.
Succeeds(r) ==
  /\ client[r] = "waiting"
  /\ answer[r] \in {"new", "known"}
  /\ Goes(r, "sent")
  /\ UNCHANGED <<net, disk, printed, serverVars>>

\* Mutant: the request has no timeout.
SendFailsOnAnswer(r) ==
  /\ client[r] = "waiting"
  /\ answer[r] \in {"refused", "failed", "lost"}
  /\ Goes(r, IF r \in App THEN "appending" ELSE "send_error")
  /\ UNCHANGED <<net, disk, printed, serverVars>>

\* Another status, a broken connection, or nothing within timeout_ms: the
\* request may be lost, still under way, in progress or even done.
SendFails(r) ==
  /\ client[r] = "waiting"
  /\ Goes(r, IF r \in App THEN "appending" ELSE "send_error")
  /\ UNCHANGED <<net, disk, printed, serverVars>>

\* Mutant: the result of the append is ignored.
QueueAnyhow(r) ==
  /\ client[r] = "appending"
  /\ disk' \in {disk, disk \cup {r}}
  /\ Goes(r, "queued")
  /\ UNCHANGED <<net, printed, serverVars>>

\* append_queued_report
Queue(r) ==
  /\ client[r] = "appending"
  /\ \/ disk' = disk \cup {r} /\ Goes(r, "queued")
     \/ disk' = disk /\ Goes(r, "queue_failed")
  /\ UNCHANGED <<net, printed, serverVars>>

\* A request under way never arrives.
Lose(r) ==
  /\ r \in net
  /\ net' = net \ {r}
  /\ UNCHANGED <<client, disk, printed, serverVars>>

\* A request arrives and the handler starts on it.
Arrive(r) ==
  /\ r \in net
  /\ Server!Refuse(r) \/ Server!Accept(r)
  /\ net' = net \ {r}
  /\ UNCHANGED <<client, disk, printed>>

ServerStep(r) ==
  /\ \/ Server!AcquireConnection(r)
     \/ Server!InsertReport(r)
     \/ Server!Conflict(r)
     \/ Server!InsertRow(r)
     \/ Server!Commit(r)
     \/ Server!StatementFails(r)
     \/ Server!Reply(r)
  /\ UNCHANGED clientVars

ServerCrash == Server!Crash /\ UNCHANGED clientVars

ClientStep(r) ==
  PlanFails(r) \/ Skip(r) \/ Post(r) \/ Succeeds(r) \/ SendFails(r) \/ Queue(r)

Quiet == (\A r \in Requests : client[r] \in Returned) /\ UNCHANGED vars

Next ==
  \/ \E r \in Requests :
       \/ PlanFails(r) \/ Skip(r) \/ Post(r)
       \/ Succeeds(r) \/ SendFails(r) \/ Queue(r)
       \/ Lose(r) \/ Arrive(r) \/ ServerStep(r)
  \/ ServerCrash
  \/ Quiet

Spec == Init /\ [][Next]_vars

\* The client's own steps, its timeout among them, are the only ones that
\* are bound to happen: the network and the server owe it nothing.
FairSpec == Spec /\ \A r \in Requests : WF_vars(ClientStep(r))

-----------------------------------------------------------------------------

\* A report the client calls sent is in the collector's tables, whole, and
\* stays there: no crash, roll back or lost answer makes a client drop a
\* report the server does not have.
SentIsStored ==
  \A r \in Requests : client[r] = "sent" => RunId(r) \in Server!Stored

\* A report that was to be sent is never silently gone: when its client is
\* done it is in the collector, in the queue file, on the CLI's output, or
\* the app was told that queueing failed.
NoSilentLoss ==
  \A r \in Requests :
    client[r] \in {"sent", "queued", "send_error"} =>
      RunId(r) \in Server!Stored \/ r \in disk \/ r \in printed

\* A client returns whatever the network and the server do or fail to do.
ClientReturns == \A r \in Requests : <>(client[r] \in Returned)

=============================================================================
