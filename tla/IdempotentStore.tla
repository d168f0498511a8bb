-------------------------- MODULE IdempotentStore --------------------------
(***************************************************************************)
(* What the collector promises its clients (base.sql: "the UNIQUE          *)
(* constraint silently rejects duplicates so retries from the app are      *)
(* safe"): a run is stored once, whole, by one request, and a request is   *)
(* acknowledged only when its run is stored.                               *)
(***************************************************************************)
CONSTANTS Requests, RunIds, RunId(_)

VARIABLES
  stored,     \* the runs in the store
  answer      \* what each request has been told

vars == <<stored, answer>>

Init ==
  /\ stored = {}
  /\ answer = [r \in Requests |-> "none"]

\* The run of r becomes visible, all of it, in one step.
Store(r) ==
  /\ answer[r] = "none"
  /\ RunId(r) \notin stored
  /\ stored' = stored \cup {RunId(r)}
  /\ UNCHANGED answer

\* {"ok": true, ...}
Acknowledge(r) ==
  /\ answer[r] = "none"
  /\ RunId(r) \in stored
  /\ \E a \in {"new", "known"} : answer' = [answer EXCEPT ![r] = a]
  /\ UNCHANGED stored

\* Refused, failed, or never answered because the server died.
Refuse(R) ==
  /\ \A r \in R : answer[r] = "none"
  /\ \E a \in {"refused", "failed", "lost"} :
       answer' = [r \in Requests |-> IF r \in R THEN a ELSE answer[r]]
  /\ UNCHANGED stored

Next ==
  \/ \E r \in Requests : Store(r) \/ Acknowledge(r)
  \/ \E R \in SUBSET Requests : Refuse(R)

Spec == Init /\ [][Next]_vars

=============================================================================
