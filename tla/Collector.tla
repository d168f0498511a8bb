----------------------------- MODULE Collector -----------------------------
(***************************************************************************)
(* The server: the handlers of POST /report and GET /api/geo-reports in    *)
(* server/app/main.py, the transaction of insert_report and the query of   *)
(* fetch_geo_reports in server/app/storage.py, the connection pool of      *)
(* server/app/db.py and the tables of server/base.sql.                     *)
(*                                                                         *)
(* Requests are handled concurrently; each await of a database call lets   *)
(* the others run.  A request is one of                                    *)
(*    new        not received yet                                          *)
(*    acquiring  valid; awaits pool.acquire()                              *)
(*    inserting  has a connection; its INSERT INTO reports is running      *)
(*    writing    owns the row of its run; inserts probe runs and attempts  *)
(*    replying   its transaction is over, the response is not sent         *)
(*    done       answered, or gone with a server that died                 *)
(* and a query of the map new, acquiring, reading or done.                 *)
(***************************************************************************)
EXTENDS Integers, FiniteSets

CONSTANTS
  Requests,          \* the POSTs clients make
  Queries,           \* the GETs of the map
  RunIds,            \* the UUIDs that name runs
  RunId(_),          \* the run_id of a request's body
  Rows(_),           \* rows its results and their attempts amount to
  Results(_),        \* len(results)
  WellFormed(_),     \* body small enough, JSON, an object, run_id a UUID
  MaxProbeResults,   \* MAX_PROBE_RESULTS
  PoolSize,          \* max_size of the pool
  NoRequest

ASSUME CollectorAssumption ==
  /\ \A r \in Requests : RunId(r) \in RunIds /\ Rows(r) \in Nat
  /\ \A r \in Requests : Results(r) \in Nat /\ WellFormed(r) \in BOOLEAN
  /\ PoolSize \in Nat
  /\ IsFiniteSet(Requests) /\ IsFiniteSet(Queries)
  /\ NoRequest \notin Requests

VARIABLES
  state,     \* where the handling of each request stands
  answer,    \* what it has been told ("none" while it is being handled)
  outcome,   \* what insert_report returned or raised, before it is told
  report,    \* for each run, the request whose row is in reports
  rows,      \* rows of each run in probe_runs and probe_attempts
  query,     \* where each query stands
  asked,     \* the runs that had been acknowledged when it came
  seen       \* the runs its rows are made from

mapVars == <<query, asked, seen>>
vars == <<state, answer, outcome, report, rows, mapVars>>

\* Requests and queries that hold a connection of the pool.
Holding ==
  {<<"post", r>> : r \in {q \in Requests : state[q] \in {"inserting", "writing"}}}
    \cup {<<"get", q>> : q \in {p \in Queries : query[p] = "reading"}}

\* The requests whose transaction has written the row of run i and is open.
Owners(i) == {r \in Requests : state[r] = "writing" /\ RunId(r) = i}

\* The runs other connections can see.
Stored == {i \in RunIds : report[i] # NoRequest /\ Owners(i) = {}}

-----------------------------------------------------------------------------

Init ==
  /\ state = [r \in Requests |-> "new"]
  /\ answer = [r \in Requests |-> "none"]
  /\ outcome = [r \in Requests |-> "none"]
  /\ report = [i \in RunIds |-> NoRequest]
  /\ rows = [i \in RunIds |-> 0]
  /\ query = [q \in Queries |-> "new"]
  /\ asked = [q \in Queries |-> {}]
  /\ seen = [q \in Queries |-> {}]

Finish(r, a) ==
  /\ state' = [state EXCEPT ![r] = "done"]
  /\ answer' = [answer EXCEPT ![r] = a]

\* The checks at the head of the handler.
Accepts(r) == WellFormed(r) /\ Results(r) <= MaxProbeResults

\* The rate limiter, or one of the checks, turns the request away.
Refuse(r) ==
  /\ state[r] = "new"
  /\ Finish(r, "refused")
  /\ UNCHANGED <<outcome, report, rows, mapVars>>

\* Body read and checked; the handler reaches insert_report.
Accept(r) ==
  /\ state[r] = "new"
  /\ Accepts(r)
  /\ state' = [state EXCEPT ![r] = "acquiring"]
  /\ UNCHANGED <<answer, outcome, report, rows, mapVars>>

\* pool.acquire() hands over a free connection and the transaction begins.
AcquireConnection(r) ==
  /\ state[r] = "acquiring"
  /\ Cardinality(Holding) < PoolSize
  /\ state' = [state EXCEPT ![r] = "inserting"]
  /\ UNCHANGED <<answer, outcome, report, rows, mapVars>>

\* Mutant: run_id is not UNIQUE, a retry takes the run over.
InsertAgain(r) ==
  /\ state[r] = "inserting"
  /\ Owners(RunId(r)) = {}
  /\ report' = [report EXCEPT ![RunId(r)] = r]
  /\ rows' = [rows EXCEPT ![RunId(r)] = 0]
  /\ state' = [state EXCEPT ![r] = "writing"]
  /\ UNCHANGED <<answer, outcome, mapVars>>

\* INSERT ... ON CONFLICT (run_id) DO NOTHING inserts the row.  While another
\* open transaction has written a row with that run_id the statement waits
\* for it to end.
InsertReport(r) ==
  /\ state[r] = "inserting"
  /\ Owners(RunId(r)) = {}
  /\ report[RunId(r)] = NoRequest
  /\ report' = [report EXCEPT ![RunId(r)] = r]
  /\ state' = [state EXCEPT ![r] = "writing"]
  /\ UNCHANGED <<answer, outcome, rows, mapVars>>

\* Mutants: the conflict is reported without waiting for the transaction
\* that owns the row; the missing id is returned instead of False; the
\* insert is tried again from the start.
ConflictAtOnce(r) ==
  /\ state[r] = "inserting"
  /\ report[RunId(r)] # NoRequest
  /\ state' = [state EXCEPT ![r] = "replying"]
  /\ outcome' = [outcome EXCEPT ![r] = "known"]
  /\ UNCHANGED <<answer, report, rows, mapVars>>

ConflictReturnsId(r) ==
  /\ state[r] = "inserting"
  /\ Owners(RunId(r)) = {}
  /\ report[RunId(r)] # NoRequest
  /\ state' = [state EXCEPT ![r] = "replying"]
  /\ outcome' = [outcome EXCEPT ![r] = NoRequest]
  /\ UNCHANGED <<answer, report, rows, mapVars>>

ConflictRetried(r) ==
  /\ state[r] = "inserting"
  /\ Owners(RunId(r)) = {}
  /\ report[RunId(r)] # NoRequest
  /\ state' = [state EXCEPT ![r] = "acquiring"]
  /\ UNCHANGED <<answer, outcome, report, rows, mapVars>>

\* The row is there: no id comes back and insert_report returns False.
Conflict(r) ==
  /\ state[r] = "inserting"
  /\ Owners(RunId(r)) = {}
  /\ report[RunId(r)] # NoRequest
  /\ state' = [state EXCEPT ![r] = "replying"]
  /\ outcome' = [outcome EXCEPT ![r] = "known"]
  /\ UNCHANGED <<answer, report, rows, mapVars>>

\* One statement of the loops over results and attempts.
InsertRow(r) ==
  /\ state[r] = "writing"
  /\ rows[RunId(r)] < Rows(r)
  /\ rows' = [rows EXCEPT ![RunId(r)] = @ + 1]
  /\ UNCHANGED <<state, answer, outcome, report, mapVars>>

\* The loops are over: the transaction commits, and insert_report returns
\* True, or raises when the connection breaks before COMMIT is confirmed.
Commit(r) ==
  /\ state[r] = "writing"
  /\ rows[RunId(r)] = Rows(r)
  /\ state' = [state EXCEPT ![r] = "replying"]
  /\ \E result \in {"new", "failed"} : outcome' = [outcome EXCEPT ![r] = result]
  /\ UNCHANGED <<answer, report, rows, mapVars>>

\* What the open transactions of R leave behind when they roll back.
RollBack(R) ==
  LET undone == {RunId(r) : r \in {q \in R : state[q] = "writing"}}
  IN  /\ report' = [i \in RunIds |-> IF i \in undone THEN NoRequest ELSE report[i]]
      /\ rows' = [i \in RunIds |-> IF i \in undone THEN 0 ELSE rows[i]]

\* Mutant: no conn.transaction(), every statement has committed by itself.
StatementFailsHalfway(r) ==
  /\ state[r] \in {"inserting", "writing"}
  /\ Finish(r, "failed")
  /\ UNCHANGED <<outcome, report, rows, mapVars>>

\* A statement raises (command_timeout, a value the column cannot hold, a
\* lost connection): the transaction rolls back and the response is a 500.
StatementFails(r) ==
  /\ state[r] \in {"inserting", "writing"}
  /\ RollBack({r})
  /\ Finish(r, "failed")
  /\ UNCHANGED <<outcome, mapVars>>

Reply(r) ==
  /\ state[r] = "replying"
  /\ Finish(r, outcome[r])
  /\ UNCHANGED <<outcome, report, rows, mapVars>>

\* The handler of a query; the rate limiter may turn it away.
RefuseQuery(q) ==
  /\ query[q] = "new"
  /\ query' = [query EXCEPT ![q] = "failed"]
  /\ UNCHANGED <<state, answer, outcome, report, rows, asked, seen>>

Acknowledged == {RunId(r) : r \in {p \in Requests : answer[p] \in {"new", "known"}}}

Ask(q) ==
  /\ query[q] = "new"
  /\ query' = [query EXCEPT ![q] = "acquiring"]
  /\ asked' = [asked EXCEPT ![q] = Acknowledged]
  /\ UNCHANGED <<state, answer, outcome, report, rows, seen>>

AcquireForQuery(q) ==
  /\ query[q] = "acquiring"
  /\ Cardinality(Holding) < PoolSize
  /\ query' = [query EXCEPT ![q] = "reading"]
  /\ UNCHANGED <<state, answer, outcome, report, rows, asked, seen>>

\* Mutant: the rows are read, or were written, outside a transaction.
SelectUncommitted(q) ==
  /\ query[q] = "reading"
  /\ seen' = [seen EXCEPT ![q] = {i \in RunIds : report[i] # NoRequest}]
  /\ query' = [query EXCEPT ![q] = "answered"]
  /\ UNCHANGED <<state, answer, outcome, report, rows, asked>>

\* The SELECT sees what is committed when it starts; the connection goes back
\* and the features are sent.
Select(q) ==
  /\ query[q] = "reading"
  /\ seen' = [seen EXCEPT ![q] = Stored]
  /\ query' = [query EXCEPT ![q] = "answered"]
  /\ UNCHANGED <<state, answer, outcome, report, rows, asked>>

SelectFails(q) ==
  /\ query[q] = "reading"
  /\ query' = [query EXCEPT ![q] = "failed"]
  /\ UNCHANGED <<state, answer, outcome, report, rows, asked, seen>>

\* The server process dies and is restarted: Postgres rolls back what was
\* open, and no request in flight is ever answered.
InFlight == {r \in Requests : state[r] \notin {"new", "done"}}

QueriesInFlight == {q \in Queries : query[q] \in {"acquiring", "reading"}}

Crash ==
  /\ InFlight # {} \/ QueriesInFlight # {}
  /\ RollBack(InFlight)
  /\ state' = [r \in Requests |-> IF r \in InFlight THEN "done" ELSE state[r]]
  /\ answer' = [r \in Requests |-> IF r \in InFlight THEN "lost" ELSE answer[r]]
  /\ query' = [q \in Queries |-> IF q \in QueriesInFlight THEN "failed" ELSE query[q]]
  /\ UNCHANGED <<outcome, asked, seen>>

\* Every request has been dealt with.
Quiet ==
  /\ \A r \in Requests : state[r] = "done"
  /\ \A q \in Queries : query[q] \in {"answered", "failed"}
  /\ UNCHANGED vars

Handle(r) ==
  \/ Refuse(r)
  \/ Accept(r)
  \/ AcquireConnection(r)
  \/ InsertReport(r)
  \/ Conflict(r)
  \/ InsertRow(r)
  \/ Commit(r)
  \/ StatementFails(r)
  \/ Reply(r)

HandleQuery(q) ==
  RefuseQuery(q) \/ Ask(q) \/ AcquireForQuery(q) \/ Select(q) \/ SelectFails(q)

Next ==
  \/ \E r \in Requests : Handle(r)
  \/ \E q \in Queries : HandleQuery(q)
  \/ Crash
  \/ Quiet

Spec == Init /\ [][Next]_vars

\* The event loop runs every handler that can go on, Postgres ends every
\* statement, and a connection that keeps coming free is eventually given to
\* each waiter: asyncpg serves its waiters in order.
FairSpec ==
  /\ Spec
  /\ \A r \in Requests : WF_vars(Handle(r)) /\ SF_vars(AcquireConnection(r))
  /\ \A q \in Queries : WF_vars(HandleQuery(q)) /\ SF_vars(AcquireForQuery(q))

-----------------------------------------------------------------------------

\* The places of a handler of /report, the answers it gives, and what is stored
\* or written for each run id.
TypeOK ==
  /\ state \in [Requests -> {"new", "acquiring", "inserting", "writing",
                             "replying", "done"}]
  /\ answer \in [Requests -> {"none", "new", "known", "refused", "failed", "lost"}]
  /\ outcome \in [Requests -> {"none", "new", "known", "failed"}]
  /\ report \in [RunIds -> Requests \cup {NoRequest}]
  /\ rows \in [RunIds -> Nat]
  /\ query \in [Queries -> {"new", "acquiring", "reading", "answered", "failed"}]
  /\ asked \in [Queries -> SUBSET RunIds]
  /\ seen \in [Queries -> SUBSET RunIds]

\* No reader ever sees part of a report: whatever fails or crashes, a run is
\* in the tables with all its rows or not at all, except inside the one open
\* transaction that is writing it.
AllOrNothing ==
  \A i \in RunIds :
    /\ \A r \in Owners(i) : report[i] = r
    /\ report[i] = NoRequest => rows[i] = 0
    /\ i \in Stored => rows[i] = Rows(report[i])

\* {"ok": true} is the truth: the run is stored whole at that moment, also
\* when the answer is new = false because another request, perhaps in flight
\* when this one came, inserted it.
AcknowledgedIsStored ==
  \A r \in Requests :
    {answer[r], outcome[r]} \cap {"new", "known"} # {} => RunId(r) \in Stored

\* Of the requests that carry one run_id, at most one is told it is new, and
\* it is the one whose rows are kept.
OneNewPerRun ==
  \A r \in Requests : outcome[r] = "new" => report[RunId(r)] = r

\* The map shows every report whose client had been told, before the map
\* asked, that it is stored; and it shows none that a roll back or a crash
\* takes away again.
MapSeesAcknowledged ==
  \A q \in Queries :
    query[q] = "answered" => asked[q] \subseteq seen[q] /\ seen[q] \subseteq Stored

\* Every request and every query is answered or dies with the server;
\* duplicates that hold connections while they wait for each other never
\* block the pool for good.
EveryRequestEnds ==
  /\ \A r \in Requests : <>(state[r] = "done")
  /\ \A q \in Queries : <>(query[q] \in {"answered", "failed"})

Abstract == INSTANCE IdempotentStore WITH stored <- Stored

\* The handler implements the idempotent store.
ImplementsIdempotentStore == Abstract!Spec

=============================================================================
