--------------------------- MODULE DeliveryProofs ---------------------------
(***************************************************************************)
(* Proofs about ReportDelivery, for any clients and requests, from what    *)
(* CollectorProofs establishes about the server.                           *)
(***************************************************************************)
EXTENDS ReportDelivery, TLAPS

ServerProofs ==
  INSTANCE CollectorProofs WITH Queries <- {}, query <- <<>>, asked <- <<>>, seen <- <<>>

\* Where a report is while its client goes on.
ReportIsSomewhere ==
  \A r \in Requests :
    /\ client[r] = "waiting" => r \in App \cup printed
    /\ client[r] = "appending" => r \in App
    /\ client[r] = "send_error" => r \in printed
    /\ client[r] = "queued" => r \in disk

DInv ==
  /\ ServerProofs!IInv
  /\ DOMAIN client = Requests
  /\ SentIsStored
  /\ ReportIsSomewhere

\* The assumption about the server, under the name CollectorProofs has for it.
LEMMA ServerAssumption == ServerProofs!CollectorAssumption
BY DeliveryAssumption DEF Server!CollectorAssumption, ServerProofs!CollectorAssumption,
   Server!IsFiniteSet, ServerProofs!IsFiniteSet

\* The server's part of a step is a step of Collector.
LEMMA ServerSteps ==
  [Next]_vars => [ServerProofs!Next]_(ServerProofs!vars)
<1> SUFFICES ASSUME [Next]_vars PROVE [ServerProofs!Next]_(ServerProofs!vars)
  OBVIOUS
<1> USE DEF Server!mapVars, ServerProofs!mapVars, Server!Finish, ServerProofs!Finish
<1>1. ASSUME NEW r \in Requests, ClientStep(r) \/ Lose(r)
      PROVE  UNCHANGED ServerProofs!vars
  BY <1>1 DEF ClientStep, PlanFails, Skip, Post, Succeeds, SendFails, Queue, Lose,
     serverVars, ServerProofs!vars
<1>2. ASSUME NEW r \in Requests, Server!Refuse(r) \/ Server!Accept(r)
      PROVE  ServerProofs!Handle(r)
  BY <1>2 DEF Server!Refuse, Server!Accept, Server!Accepts, ServerProofs!Handle,
     ServerProofs!Refuse, ServerProofs!Accept, ServerProofs!Accepts
<1>3. ASSUME NEW r \in Requests, Server!AcquireConnection(r)
      PROVE  ServerProofs!Handle(r)
  BY <1>3 DEF Server!AcquireConnection, Server!Holding, ServerProofs!Handle,
     ServerProofs!AcquireConnection, ServerProofs!Holding, Server!Cardinality,
     ServerProofs!Cardinality
<1>4. ASSUME NEW r \in Requests, Server!InsertReport(r) \/ Server!Conflict(r)
      PROVE  ServerProofs!Handle(r)
  BY <1>4 DEF Server!InsertReport, Server!Conflict, Server!Owners, ServerProofs!Handle,
     ServerProofs!InsertReport, ServerProofs!Conflict, ServerProofs!Owners
<1>5. ASSUME NEW r \in Requests,
             Server!InsertRow(r) \/ Server!Commit(r) \/ Server!Reply(r)
      PROVE  ServerProofs!Handle(r)
  BY <1>5 DEF Server!InsertRow, Server!Commit, Server!Reply, ServerProofs!Handle,
     ServerProofs!InsertRow, ServerProofs!Commit, ServerProofs!Reply
<1>6. ASSUME NEW r \in Requests, Server!StatementFails(r)
      PROVE  ServerProofs!Handle(r)
  BY <1>6 DEF Server!StatementFails, Server!RollBack, ServerProofs!Handle,
     ServerProofs!StatementFails, ServerProofs!RollBack
<1>7. CASE ServerCrash
  <2>1. ServerProofs!Crash
    BY <1>7 DEF ServerCrash, Server!Crash, Server!RollBack, Server!InFlight,
       Server!QueriesInFlight, ServerProofs!Crash, ServerProofs!RollBack,
       ServerProofs!InFlight, ServerProofs!QueriesInFlight
  <2> QED
    BY <2>1 DEF ServerProofs!Next
<1>8. CASE Quiet \/ UNCHANGED vars
  BY <1>8 DEF Quiet, vars, ServerProofs!vars
<1>9. (\E r \in Requests : ServerProofs!Handle(r)) => ServerProofs!Next
  BY DEF ServerProofs!Next
<1> QED
  BY <1>1, <1>2, <1>3, <1>4, <1>5, <1>6, <1>7, <1>8, <1>9
  DEF Next, ClientStep, Arrive, ServerStep

\* What is stored stays stored.
LEMMA ServerKeeps ==
  ASSUME ServerProofs!IInv, [Next]_vars
  PROVE  Server!Stored \subseteq Server!Stored'
<1>1. /\ Server!Stored = ServerProofs!Stored
      /\ Server!Stored' = ServerProofs!Stored'
  BY DEF Server!Stored, Server!Owners, ServerProofs!Stored, ServerProofs!Owners
<1>2. [ServerProofs!Next]_(ServerProofs!vars)
  BY ServerSteps
<1>3. ServerProofs!Stored \subseteq ServerProofs!Stored'
  BY <1>2, ServerAssumption, ServerProofs!StoredGrows
<1> QED
  BY <1>1, <1>3

-----------------------------------------------------------------------------

LEMMA InitDInv == Init => DInv
<1> SUFFICES ASSUME Init PROVE DInv
  OBVIOUS
<1>1. ServerProofs!Init
  BY DEF Init, Server!Init, ServerProofs!Init
<1>2. ServerProofs!IInv
  BY <1>1, ServerAssumption, ServerProofs!InitIInv
<1> QED
  BY <1>2 DEF Init, DInv, SentIsStored, ReportIsSomewhere

LEMMA DInvStep == DInv /\ [Next]_vars => DInv'
<1> SUFFICES ASSUME DInv, [Next]_vars PROVE DInv'
  OBVIOUS
<1>1. ServerProofs!IInv'
  BY ServerSteps, ServerAssumption, ServerProofs!IInvStep DEF DInv
<1>2. Server!Stored \subseteq Server!Stored'
  BY ServerKeeps DEF DInv
<1>3. \A r \in Requests : answer[r] \in {"new", "known"} => RunId(r) \in Server!Stored
  BY DEF DInv, ServerProofs!IInv, ServerProofs!AcknowledgedIsStored, Server!Stored,
     Server!Owners, ServerProofs!Stored, ServerProofs!Owners
<1>4. ASSUME NEW r \in Requests, PlanFails(r) \/ Skip(r) \/ Post(r)
      PROVE  DInv'
  BY <1>1, <1>2, <1>4 DEF PlanFails, Skip, Post, PrintReport, Goes, DInv, SentIsStored,
     ReportIsSomewhere
<1>5. ASSUME NEW r \in Requests, Succeeds(r)
      PROVE  DInv'
  <2>1. SentIsStored'
    BY <1>2, <1>3, <1>5 DEF Succeeds, Goes, DInv, SentIsStored
  <2> QED
    BY <1>1, <1>5, <2>1 DEF Succeeds, Goes, DInv, ReportIsSomewhere
<1>6. ASSUME NEW r \in Requests, SendFails(r) \/ Queue(r)
      PROVE  DInv'
  BY <1>1, <1>2, <1>6 DEF SendFails, Queue, Goes, DInv, SentIsStored, ReportIsSomewhere
<1>7. CASE UNCHANGED <<client, disk, printed>>
  BY <1>1, <1>2, <1>7 DEF DInv, SentIsStored, ReportIsSomewhere
<1> QED
  BY <1>4, <1>5, <1>6, <1>7
  DEF Next, Lose, Arrive, ServerStep, ServerCrash, clientVars, Quiet, vars

\* Clients, network and server never leave the invariant together.
THEOREM Invariant == Spec => []DInv
BY InitDInv, DInvStep, PTL DEF Spec

\* SendOutcome::Sent of the app and the CLI's exit with success: the report
\* is in the collector, for any number of clients, retries, lost messages,
\* failed statements and crashes.
THEOREM SentReportsAreStored == Spec => []SentIsStored
BY Invariant, PTL DEF DInv

\* run_probes and the CLI's run: a report that was to be sent is stored, in
\* the queue file or printed, or the client said that it is not.
THEOREM ReportsAreNotLost == Spec => []NoSilentLoss
<1>1. DInv => NoSilentLoss
  BY DEF DInv, NoSilentLoss, SentIsStored, ReportIsSomewhere
<1> QED
  BY <1>1, Invariant, PTL

=============================================================================
