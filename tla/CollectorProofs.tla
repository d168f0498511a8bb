-------------------------- MODULE CollectorProofs --------------------------
(***************************************************************************)
(* Proofs about Collector, for any requests, queries, runs and pool size.  *)
(***************************************************************************)
EXTENDS Collector, TLAPS

\* A request that is being handled has not been answered yet, and one whose
\* transaction is over knows how it ended.
AnsweredIsDone ==
  \A r \in Requests :
    /\ state[r] # "done" => answer[r] = "none"
    /\ state[r] = "replying" => outcome[r] \in {"new", "known", "failed"}

\* What had been acknowledged when a query came is still there.
AskedIsStored == \A q \in Queries : asked[q] \subseteq Stored

IInv ==
  /\ TypeOK
  /\ AllOrNothing
  /\ AcknowledgedIsStored
  /\ OneNewPerRun
  /\ MapSeesAcknowledged
  /\ AnsweredIsDone
  /\ AskedIsStored

USE CollectorAssumption DEF CollectorAssumption

\* A step that leaves the tables and the open transactions alone leaves what
\* is stored alone.
LEMMA TablesUntouched ==
  ASSUME report' = report,
         \A r \in Requests : state'[r] = "writing" <=> state[r] = "writing"
  PROVE  Stored' = Stored /\ \A i \in RunIds : Owners(i)' = Owners(i)
<1>1. \A i \in RunIds : Owners(i)' = Owners(i)
  BY DEF Owners
<1> QED
  BY <1>1 DEF Stored

\* Only one transaction at a time has a run's row.
LEMMA OneOwner ==
  ASSUME AllOrNothing, NEW i \in RunIds, NEW r \in Owners(i)
  PROVE  Owners(i) = {r} /\ report[i] = r
BY DEF AllOrNothing

\* Inserting the row of a run stores nothing yet.
LEMMA InsertEffect ==
  ASSUME IInv, NEW r \in Requests, InsertReport(r)
  PROVE  /\ Stored' = Stored
         /\ \A i \in RunIds : Owners(i)' = IF i = RunId(r) THEN {r} ELSE Owners(i)
<1>1. \A i \in RunIds : Owners(i)' = IF i = RunId(r) THEN {r} ELSE Owners(i)
  BY DEF InsertReport, Owners, IInv, TypeOK
<1>2. RunId(r) \notin Stored /\ RunId(r) \notin Stored'
  BY <1>1 DEF InsertReport, Stored
<1>3. \A i \in RunIds : i # RunId(r) => report'[i] = report[i]
  BY DEF InsertReport, IInv, TypeOK
<1> QED
  BY <1>1, <1>2, <1>3 DEF Stored

\* A commit stores the run, which was not stored before.
LEMMA CommitEffect ==
  ASSUME IInv, NEW r \in Requests, Commit(r)
  PROVE  /\ RunId(r) \notin Stored
         /\ Stored' = Stored \cup {RunId(r)}
         /\ report[RunId(r)] = r
         /\ \A i \in RunIds : Owners(i)' = IF i = RunId(r) THEN {} ELSE Owners(i)
<1>1. r \in Owners(RunId(r))
  BY DEF Commit, Owners
<1>2. Owners(RunId(r)) = {r} /\ report[RunId(r)] = r
  BY <1>1, OneOwner DEF IInv
<1>3. \A i \in RunIds : Owners(i)' = Owners(i) \ {r}
  BY DEF Commit, Owners, IInv, TypeOK
<1>4. \A i \in RunIds : i # RunId(r) => r \notin Owners(i)
  BY DEF Owners
<1> QED
  BY <1>1, <1>2, <1>3, <1>4 DEF Commit, Stored

\* Rolling back the open transactions among R, whose requests end with them,
\* takes nothing away that was stored.
LEMMA RollBackEffect ==
  ASSUME IInv, NEW R \in SUBSET Requests, RollBack(R),
         \A r \in Requests : state'[r] = "writing" <=> state[r] = "writing" /\ r \notin R
  PROVE  /\ Stored' = Stored
         /\ \A i \in RunIds : Owners(i)' = Owners(i) \ R
         /\ \A i \in Stored : report'[i] = report[i] /\ rows'[i] = rows[i]
<1> DEFINE undone == {RunId(r) : r \in {q \in R : state[q] = "writing"}}
<1>1. \A i \in RunIds : Owners(i)' = Owners(i) \ R
  BY DEF Owners
<1>2. \A i \in undone : \E r \in R : r \in Owners(i) /\ Owners(i) = {r}
  BY OneOwner DEF Owners, IInv
<1>3. \A i \in RunIds : i \notin undone => Owners(i) \cap R = {}
  BY DEF Owners
<1>4. \A i \in RunIds : /\ report'[i] = IF i \in undone THEN NoRequest ELSE report[i]
                        /\ rows'[i] = IF i \in undone THEN 0 ELSE rows[i]
  BY DEF RollBack
<1>5. \A i \in undone : i \in RunIds /\ i \notin Stored /\ i \notin Stored'
  BY <1>2, <1>4 DEF Stored
<1>6. \A i \in RunIds : i \notin undone => (i \in Stored' <=> i \in Stored)
  BY <1>1, <1>3, <1>4 DEF Stored
<1>7. Stored \subseteq RunIds /\ Stored' \subseteq RunIds
  BY DEF Stored
<1> QED
  BY <1>1, <1>4, <1>5, <1>6, <1>7

-----------------------------------------------------------------------------

LEMMA InitIInv == Init => IInv
<1> SUFFICES ASSUME Init PROVE IInv
  OBVIOUS
<1>1. TypeOK
  BY DEF Init, TypeOK
<1>2. Stored = {} /\ \A i \in RunIds : Owners(i) = {}
  BY DEF Init, Stored, Owners
<1> QED
  BY <1>1, <1>2 DEF Init, IInv, AllOrNothing, AcknowledgedIsStored, OneNewPerRun,
     MapSeesAcknowledged, AnsweredIsDone, AskedIsStored

\* The types, action by action.
LEMMA TypeStep == TypeOK /\ [Next]_vars => TypeOK'
<1> SUFFICES ASSUME TypeOK, [Next]_vars PROVE TypeOK'
  OBVIOUS
<1> USE DEF TypeOK
<1>1. ASSUME NEW r \in Requests, Refuse(r) \/ Accept(r) \/ AcquireConnection(r)
      PROVE  TypeOK'
  BY <1>1 DEF Refuse, Accept, AcquireConnection, Finish, mapVars
<1>2. ASSUME NEW r \in Requests, InsertReport(r) \/ Conflict(r) \/ InsertRow(r)
      PROVE  TypeOK'
  BY <1>2 DEF InsertReport, Conflict, InsertRow, mapVars
<1>3. ASSUME NEW r \in Requests, Commit(r)
      PROVE  TypeOK'
  BY <1>3 DEF Commit, mapVars
<1>4. ASSUME NEW r \in Requests, StatementFails(r)
      PROVE  TypeOK'
  BY <1>4 DEF StatementFails, RollBack, Finish, mapVars
<1>5. ASSUME NEW r \in Requests, Reply(r)
      PROVE  TypeOK'
  BY <1>5 DEF Reply, Finish, mapVars
<1>6. ASSUME NEW q \in Queries, HandleQuery(q)
      PROVE  TypeOK'
  <2>1. Acknowledged \subseteq RunIds /\ Stored \subseteq RunIds
    BY DEF Acknowledged, Stored
  <2> QED
    BY <1>6, <2>1 DEF HandleQuery, RefuseQuery, Ask, AcquireForQuery, Select, SelectFails
<1>7. CASE Crash
  BY <1>7 DEF Crash, RollBack
<1>8. CASE Quiet \/ UNCHANGED vars
  BY <1>8 DEF Quiet, vars, mapVars
<1> QED
  BY <1>1, <1>2, <1>3, <1>4, <1>5, <1>6, <1>7, <1>8 DEF Next, Handle

\* A step that leaves the tables and the transactions alone and acknowledges
\* only what is stored.
LEMMA QuietStep ==
  ASSUME IInv, TypeOK', AnsweredIsDone', report' = report, rows' = rows,
         \A r \in Requests : state'[r] = "writing" <=> state[r] = "writing",
         \A r \in Requests : \/ answer'[r] \notin {"new", "known"}
                             \/ answer'[r] \in {answer[r], outcome[r]},
         \A r \in Requests : \/ outcome'[r] = outcome[r]
                             \/ outcome'[r] = "known" /\ RunId(r) \in Stored,
         \A q \in Queries : asked'[q] \subseteq Stored,
         \A q \in Queries : query'[q] = "answered" =>
                              asked'[q] \subseteq seen'[q] /\ seen'[q] \subseteq Stored
  PROVE  IInv'
<1>1. Stored' = Stored /\ \A i \in RunIds : Owners(i)' = Owners(i)
  BY TablesUntouched
<1>2. AllOrNothing'
  BY <1>1 DEF IInv, AllOrNothing
<1>3. AcknowledgedIsStored'
  BY <1>1 DEF IInv, AcknowledgedIsStored
<1>4. OneNewPerRun'
  BY DEF IInv, OneNewPerRun
<1>5. MapSeesAcknowledged' /\ AskedIsStored'
  BY <1>1 DEF MapSeesAcknowledged, AskedIsStored
<1> QED
  BY <1>2, <1>3, <1>4, <1>5 DEF IInv

\* What a step has to show once it is known that nothing stored gets lost.
LEMMA KeepsAcknowledged ==
  ASSUME IInv, Stored \subseteq Stored',
         \A r \in Requests : \/ {answer'[r], outcome'[r]} \cap {"new", "known"} = {}
                             \/ RunId(r) \in Stored'
                             \/ answer'[r] = answer[r] /\ outcome'[r] = outcome[r],
         UNCHANGED <<asked, seen>>,
         \A q \in Queries : query'[q] = "answered" => query[q] = "answered"
  PROVE  AcknowledgedIsStored' /\ MapSeesAcknowledged' /\ AskedIsStored'
<1>1. AcknowledgedIsStored'
  BY DEF IInv, AcknowledgedIsStored
<1>2. MapSeesAcknowledged' /\ AskedIsStored'
  BY DEF IInv, MapSeesAcknowledged, AskedIsStored
<1> QED
  BY <1>1, <1>2

LEMMA InsertStep ==
  ASSUME IInv, TypeOK', NEW r \in Requests, InsertReport(r)
  PROVE  IInv'
<1>1. /\ Stored' = Stored
      /\ \A i \in RunIds : Owners(i)' = IF i = RunId(r) THEN {r} ELSE Owners(i)
  BY InsertEffect
<1>2. /\ \A i \in RunIds : report'[i] = IF i = RunId(r) THEN r ELSE report[i]
      /\ UNCHANGED <<answer, outcome, rows, query, asked, seen>>
  BY DEF InsertReport, mapVars, IInv, TypeOK
<1>3. RunId(r) \notin Stored /\ report[RunId(r)] = NoRequest
  BY DEF InsertReport, Stored
<1>4. AllOrNothing'
  BY <1>1, <1>2, <1>3 DEF IInv, AllOrNothing
<1>5. AcknowledgedIsStored' /\ MapSeesAcknowledged' /\ AskedIsStored'
  BY <1>1, <1>2, KeepsAcknowledged
<1>6. OneNewPerRun'
  BY <1>2, <1>3 DEF IInv, OneNewPerRun
<1>7. AnsweredIsDone'
  BY DEF InsertReport, IInv, TypeOK, AnsweredIsDone
<1> QED
  BY <1>4, <1>5, <1>6, <1>7 DEF IInv

LEMMA InsertRowStep ==
  ASSUME IInv, TypeOK', NEW r \in Requests, InsertRow(r)
  PROVE  IInv'
<1>1. Stored' = Stored /\ \A i \in RunIds : Owners(i)' = Owners(i)
  BY TablesUntouched DEF InsertRow
<1>2. r \in Owners(RunId(r)) /\ RunId(r) \notin Stored /\ report[RunId(r)] = r
  BY OneOwner DEF InsertRow, Owners, Stored, IInv
<1>3. /\ \A i \in RunIds : i # RunId(r) => rows'[i] = rows[i]
      /\ UNCHANGED <<state, answer, outcome, report, query, asked, seen>>
  BY DEF InsertRow, mapVars, IInv, TypeOK
<1>4. AllOrNothing'
  BY <1>1, <1>2, <1>3 DEF IInv, AllOrNothing
<1>5. AcknowledgedIsStored' /\ MapSeesAcknowledged' /\ AskedIsStored'
  BY <1>1, <1>3, KeepsAcknowledged
<1> QED
  BY <1>3, <1>4, <1>5 DEF IInv, OneNewPerRun, AnsweredIsDone

LEMMA CommitStep ==
  ASSUME IInv, TypeOK', NEW r \in Requests, Commit(r)
  PROVE  IInv'
<1>1. /\ RunId(r) \notin Stored
      /\ Stored' = Stored \cup {RunId(r)}
      /\ report[RunId(r)] = r
      /\ \A i \in RunIds : Owners(i)' = IF i = RunId(r) THEN {} ELSE Owners(i)
  BY CommitEffect
<1>2. /\ rows[RunId(r)] = Rows(r)
      /\ outcome'[r] \in {"new", "failed"}
      /\ \A p \in Requests : p # r => outcome'[p] = outcome[p]
      /\ UNCHANGED <<answer, report, rows, query, asked, seen>>
  BY DEF Commit, mapVars, IInv, TypeOK
<1>3. AllOrNothing'
  BY <1>1, <1>2 DEF IInv, AllOrNothing
<1>4. AcknowledgedIsStored' /\ MapSeesAcknowledged' /\ AskedIsStored'
  BY <1>1, <1>2, KeepsAcknowledged
<1>5. OneNewPerRun'
  BY <1>1, <1>2 DEF IInv, OneNewPerRun
<1>6. AnsweredIsDone'
  BY <1>2 DEF Commit, IInv, TypeOK, AnsweredIsDone
<1> QED
  BY <1>3, <1>4, <1>5, <1>6 DEF IInv

\* A failed statement and a crash, R being the requests that end.
LEMMA RollBackStep ==
  ASSUME IInv, TypeOK', AnsweredIsDone', NEW R \in SUBSET Requests, RollBack(R),
         \A r \in Requests : state'[r] = "writing" <=> state[r] = "writing" /\ r \notin R,
         \A r \in Requests : answer'[r] \in {answer[r], "failed", "lost"},
         UNCHANGED <<outcome, asked, seen>>,
         \A q \in Queries : query'[q] = "answered" => query[q] = "answered"
  PROVE  IInv'
<1>1. /\ Stored' = Stored
      /\ \A i \in RunIds : Owners(i)' = Owners(i) \ R
      /\ \A i \in Stored : report'[i] = report[i] /\ rows'[i] = rows[i]
  BY RollBackEffect
<1>2. ASSUME NEW i \in RunIds
      PROVE  \/ report'[i] = report[i] /\ rows'[i] = rows[i]
             \/ report'[i] = NoRequest /\ rows'[i] = 0 /\ Owners(i)' = {}
  <2> DEFINE undone == {RunId(r) : r \in {q \in R : state[q] = "writing"}}
  <2>1. CASE i \in undone
    <3>1. PICK r \in R : state[r] = "writing" /\ RunId(r) = i
      BY <2>1
    <3>2. Owners(i) = {r}
      BY <3>1, OneOwner DEF Owners, IInv
    <3> QED
      BY <1>1, <2>1, <3>2 DEF RollBack
  <2>2. CASE i \notin undone
    BY <2>2 DEF RollBack
  <2> QED
    BY <2>1, <2>2
<1>3. AllOrNothing'
  BY <1>1, <1>2 DEF IInv, AllOrNothing
<1>4. AcknowledgedIsStored' /\ MapSeesAcknowledged' /\ AskedIsStored'
  BY <1>1, KeepsAcknowledged DEF IInv, AcknowledgedIsStored
<1>5. OneNewPerRun'
  BY <1>1 DEF IInv, OneNewPerRun, AcknowledgedIsStored
<1> QED
  BY <1>3, <1>4, <1>5 DEF IInv

\* The invariant is inductive.
LEMMA IInvStep == IInv /\ [Next]_vars => IInv'
<1> SUFFICES ASSUME IInv, [Next]_vars PROVE IInv'
  OBVIOUS
<1> USE DEF mapVars
<1>0. TypeOK /\ TypeOK' /\ AnsweredIsDone /\ AskedIsStored /\ MapSeesAcknowledged
  BY TypeStep DEF IInv
<1>1. ASSUME NEW r \in Requests, Refuse(r) \/ Accept(r) \/ AcquireConnection(r)
      PROVE  IInv'
  <2>1. AnsweredIsDone'
    BY <1>0, <1>1 DEF Refuse, Accept, AcquireConnection, Finish, TypeOK, AnsweredIsDone
  <2>2. /\ \A p \in Requests : state'[p] = "writing" <=> state[p] = "writing"
        /\ \A p \in Requests : answer'[p] \in {answer[p], "refused"}
        /\ UNCHANGED <<outcome, report, rows, query, asked, seen>>
    BY <1>0, <1>1 DEF Refuse, Accept, AcquireConnection, Finish, TypeOK
  <2> QED
    BY <1>0, <2>1, <2>2, QuietStep DEF AskedIsStored, MapSeesAcknowledged
<1>2. ASSUME NEW r \in Requests, Conflict(r)
      PROVE  IInv'
  <2>1. AnsweredIsDone'
    BY <1>0, <1>2 DEF Conflict, TypeOK, AnsweredIsDone
  <2>2. RunId(r) \in Stored
    BY <1>2 DEF Conflict, Stored
  <2>3. /\ \A p \in Requests : state'[p] = "writing" <=> state[p] = "writing"
        /\ \A p \in Requests : outcome'[p] = IF p = r THEN "known" ELSE outcome[p]
        /\ UNCHANGED <<answer, report, rows, query, asked, seen>>
    BY <1>0, <1>2 DEF Conflict, TypeOK
  <2> QED
    BY <1>0, <2>1, <2>2, <2>3, QuietStep DEF AskedIsStored, MapSeesAcknowledged
<1>3. ASSUME NEW r \in Requests, Reply(r)
      PROVE  IInv'
  <2>1. AnsweredIsDone'
    BY <1>0, <1>3 DEF Reply, Finish, TypeOK, AnsweredIsDone
  <2>2. /\ \A p \in Requests : state'[p] = "writing" <=> state[p] = "writing"
        /\ \A p \in Requests : answer'[p] \in {answer[p], outcome[p]}
        /\ UNCHANGED <<outcome, report, rows, query, asked, seen>>
    BY <1>0, <1>3 DEF Reply, Finish, TypeOK
  <2> QED
    BY <1>0, <2>1, <2>2, QuietStep DEF AskedIsStored, MapSeesAcknowledged
<1>4. ASSUME NEW r \in Requests, InsertReport(r) \/ InsertRow(r) \/ Commit(r)
      PROVE  IInv'
  BY <1>0, <1>4, InsertStep, InsertRowStep, CommitStep
<1>5. ASSUME NEW r \in Requests, StatementFails(r)
      PROVE  IInv'
  <2>1. AnsweredIsDone'
    BY <1>0, <1>5 DEF StatementFails, Finish, TypeOK, AnsweredIsDone
  <2>2. /\ \A p \in Requests : state'[p] = "writing" <=> state[p] = "writing" /\ p \notin {r}
        /\ \A p \in Requests : answer'[p] \in {answer[p], "failed", "lost"}
        /\ RollBack({r}) /\ UNCHANGED <<outcome, query, asked, seen>>
    BY <1>0, <1>5 DEF StatementFails, Finish, TypeOK
  <2> QED
    BY <1>0, <2>1, <2>2, RollBackStep
<1>6. ASSUME NEW q \in Queries, HandleQuery(q)
      PROVE  IInv'
  <2>1. AnsweredIsDone'
    BY <1>0, <1>6 DEF HandleQuery, RefuseQuery, Ask, AcquireForQuery, Select, SelectFails,
       AnsweredIsDone
  <2>2. UNCHANGED <<state, answer, outcome, report, rows>>
    BY <1>6 DEF HandleQuery, RefuseQuery, Ask, AcquireForQuery, Select, SelectFails
  <2>3. Acknowledged \subseteq Stored
    BY DEF Acknowledged, IInv, AcknowledgedIsStored
  <2>4. \A p \in Queries : asked'[p] \subseteq Stored
    BY <1>0, <1>6, <2>3 DEF HandleQuery, RefuseQuery, Ask, AcquireForQuery, Select,
       SelectFails, AskedIsStored, TypeOK
  <2>5. \A p \in Queries : query'[p] = "answered" =>
                             asked'[p] \subseteq seen'[p] /\ seen'[p] \subseteq Stored
    BY <1>0, <1>6 DEF HandleQuery, RefuseQuery, Ask, AcquireForQuery, Select,
       SelectFails, AskedIsStored, MapSeesAcknowledged, TypeOK
  <2> QED
    BY <1>0, <2>1, <2>2, <2>4, <2>5, QuietStep
<1>7. CASE Crash
  <2>1. AnsweredIsDone'
    BY <1>0, <1>7 DEF Crash, InFlight, TypeOK, AnsweredIsDone
  <2>2. /\ \A p \in Requests :
             state'[p] = "writing" <=> state[p] = "writing" /\ p \notin InFlight
        /\ \A p \in Requests : answer'[p] \in {answer[p], "failed", "lost"}
        /\ \A q \in Queries : query'[q] = "answered" => query[q] = "answered"
        /\ RollBack(InFlight) /\ UNCHANGED <<outcome, asked, seen>>
        /\ InFlight \in SUBSET Requests
    BY <1>0, <1>7 DEF Crash, InFlight, QueriesInFlight, TypeOK
  <2> QED
    BY <1>0, <2>1, <2>2, RollBackStep
<1>8. CASE Quiet \/ UNCHANGED vars
  <2>1. UNCHANGED vars
    BY <1>8 DEF Quiet
  <2> QED
    BY <1>0, <2>1, QuietStep DEF vars, AnsweredIsDone, AskedIsStored, MapSeesAcknowledged
<1> QED
  BY <1>1, <1>2, <1>3, <1>4, <1>5, <1>6, <1>7, <1>8 DEF Next, Handle

\* The collector never leaves the invariant, whatever requests come and in
\* whatever order its awaits, statements, failures and crashes happen.
THEOREM Invariant == Spec => []IInv
BY InitIInv, IInvStep, PTL DEF Spec

\* Handlers, transactions and tables keep their types.
THEOREM TypeCorrect == Spec => []TypeOK
BY Invariant, PTL DEF IInv

\* The transaction of insert_report: for any number of concurrent posts, each
\* run is in the tables with all its rows or not at all.
THEOREM Atomicity == Spec => []AllOrNothing
BY Invariant, PTL DEF IInv

\* {"ok": true} means that the run is stored, for new and for known runs.
THEOREM AcknowledgedStays == Spec => []AcknowledgedIsStored
BY Invariant, PTL DEF IInv

\* ON CONFLICT (run_id) DO NOTHING tells at most one of the requests with one
\* run_id that its report is new.
THEOREM OneIsNew == Spec => []OneNewPerRun
BY Invariant, PTL DEF IInv

\* The answer to a query of the map has every run acknowledged before it, and
\* none that is taken away later.
THEOREM MapIsUpToDate == Spec => []MapSeesAcknowledged
BY Invariant, PTL DEF IInv

-----------------------------------------------------------------------------

\* A commit is the abstract store's Store, the reply its Acknowledge or Refuse,
\* a failure or a crash its Refuse; every other step changes neither what is
\* stored nor what clients have been told.
LEMMA StepSimulation == IInv /\ [Next]_vars => [Abstract!Next]_(Abstract!vars)
<1> SUFFICES ASSUME IInv, [Next]_vars PROVE [Abstract!Next]_(Abstract!vars)
  OBVIOUS
<1> USE DEF mapVars, Abstract!vars
<1>0. TypeOK /\ AnsweredIsDone /\ AcknowledgedIsStored
  BY DEF IInv
<1>1. ASSUME NEW R \in SUBSET Requests, NEW a \in {"refused", "failed", "lost"},
             \A r \in R : answer[r] = "none",
             answer' = [r \in Requests |-> IF r \in R THEN a ELSE answer[r]],
             Stored' = Stored
      PROVE  Abstract!Next
  BY <1>1 DEF Abstract!Next, Abstract!Refuse
<1>2. ASSUME NEW r \in Requests, Refuse(r)
      PROVE  Abstract!Next
  <2>1. Stored' = Stored
    BY <1>0, <1>2, TablesUntouched DEF Refuse, Finish, TypeOK
  <2>2. /\ {r} \in SUBSET Requests
        /\ \A p \in {r} : answer[p] = "none"
        /\ answer' = [p \in Requests |-> IF p \in {r} THEN "refused" ELSE answer[p]]
    BY <1>0, <1>2 DEF Refuse, Finish, TypeOK, AnsweredIsDone
  <2> QED
    BY <1>1, <2>1, <2>2
<1>3. ASSUME NEW r \in Requests, Accept(r) \/ AcquireConnection(r) \/ Conflict(r)
      PROVE  UNCHANGED Abstract!vars
  BY <1>0, <1>3, TablesUntouched DEF Accept, AcquireConnection, Conflict, TypeOK
<1>4. ASSUME NEW r \in Requests, InsertReport(r)
      PROVE  UNCHANGED Abstract!vars
  BY <1>4, InsertEffect DEF InsertReport
<1>5. ASSUME NEW r \in Requests, InsertRow(r)
      PROVE  UNCHANGED Abstract!vars
  BY <1>5, TablesUntouched DEF InsertRow
<1>6. ASSUME NEW r \in Requests, Commit(r)
      PROVE  Abstract!Next
  <2>1. RunId(r) \notin Stored /\ Stored' = Stored \cup {RunId(r)}
    BY <1>6, CommitEffect
  <2>2. answer[r] = "none" /\ answer' = answer
    BY <1>0, <1>6 DEF Commit, AnsweredIsDone
  <2> QED
    BY <2>1, <2>2 DEF Abstract!Next, Abstract!Store
<1>7. ASSUME NEW r \in Requests, StatementFails(r)
      PROVE  Abstract!Next
  <2>1. \A p \in Requests : state'[p] = "writing" <=> state[p] = "writing" /\ p \notin {r}
    BY <1>0, <1>7 DEF StatementFails, Finish, TypeOK
  <2>2. Stored' = Stored
    BY <1>7, <2>1, RollBackEffect DEF StatementFails
  <2>3. /\ {r} \in SUBSET Requests
        /\ \A p \in {r} : answer[p] = "none"
        /\ answer' = [p \in Requests |-> IF p \in {r} THEN "failed" ELSE answer[p]]
    BY <1>0, <1>7 DEF StatementFails, Finish, TypeOK, AnsweredIsDone
  <2> QED
    BY <1>1, <2>2, <2>3
<1>8. ASSUME NEW r \in Requests, Reply(r)
      PROVE  Abstract!Next
  <2>1. Stored' = Stored
    BY <1>0, <1>8, TablesUntouched DEF Reply, Finish, TypeOK
  <2>2. /\ answer[r] = "none"
        /\ answer' = [answer EXCEPT ![r] = outcome[r]]
        /\ outcome[r] \in {"new", "known", "failed"}
    BY <1>0, <1>8 DEF Reply, Finish, AnsweredIsDone
  <2>3. CASE outcome[r] = "failed"
    <3>1. answer' = [p \in Requests |-> IF p \in {r} THEN "failed" ELSE answer[p]]
      BY <1>0, <2>2, <2>3 DEF TypeOK
    <3> QED
      BY <1>1, <2>1, <2>2, <3>1
  <2>4. CASE outcome[r] \in {"new", "known"}
    <3>1. RunId(r) \in Stored
      BY <1>0, <2>4 DEF AcknowledgedIsStored
    <3> QED
      BY <2>1, <2>2, <2>4, <3>1 DEF Abstract!Next, Abstract!Acknowledge
  <2> QED
    BY <2>2, <2>3, <2>4
<1>9. ASSUME NEW q \in Queries, HandleQuery(q)
      PROVE  UNCHANGED Abstract!vars
  BY <1>9, TablesUntouched DEF HandleQuery, RefuseQuery, Ask, AcquireForQuery, Select,
     SelectFails
<1>10. CASE Crash
  <2>1. /\ \A r \in Requests :
             state'[r] = "writing" <=> state[r] = "writing" /\ r \notin InFlight
        /\ InFlight \in SUBSET Requests
    BY <1>0, <1>10 DEF Crash, InFlight, TypeOK
  <2>2. Stored' = Stored
    BY <1>10, <2>1, RollBackEffect DEF Crash
  <2>3. /\ \A r \in InFlight : answer[r] = "none"
        /\ answer' = [r \in Requests |-> IF r \in InFlight THEN "lost" ELSE answer[r]]
    BY <1>0, <1>10 DEF Crash, InFlight, AnsweredIsDone
  <2> QED
    BY <1>1, <2>1, <2>2, <2>3
<1>11. CASE Quiet \/ UNCHANGED vars
  BY <1>11, TablesUntouched DEF Quiet, vars
<1> QED
  BY <1>2, <1>3, <1>4, <1>5, <1>6, <1>7, <1>8, <1>9, <1>10, <1>11 DEF Next, Handle

\* What is stored stays stored.
LEMMA StoredGrows == IInv /\ [Next]_vars => Stored \subseteq Stored'
BY StepSimulation DEF Abstract!Next, Abstract!Store, Abstract!Acknowledge, Abstract!Refuse,
   Abstract!vars

\* POST /report implements the idempotent store that base.sql promises
\* clients which retry.
THEOREM Refinement == Spec => ImplementsIdempotentStore
<1>1. Init => Abstract!Init
  BY DEF Init, Stored, Abstract!Init
<1> QED
  BY <1>1, Invariant, StepSimulation, PTL DEF Spec, ImplementsIdempotentStore, Abstract!Spec

=============================================================================
