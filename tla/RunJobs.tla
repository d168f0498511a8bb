------------------------------ MODULE RunJobs ------------------------------
(***************************************************************************)
(* run_jobs of crates/prober_core/src/probes/mod.rs: one tokio task per    *)
(* probe job, a semaphore that lets Parallelism of them probe at once,     *)
(* and a collector that awaits the tasks in job order.                     *)
(*                                                                         *)
(* The runtime is multi-threaded, so tasks run while run_jobs is still     *)
(* spawning, and reach the semaphore in any order.  A task is one of       *)
(*    unspawned  the loop of run_jobs has not reached its job              *)
(*    spawned    not polled yet                                            *)
(*    queued     waiting in the semaphore                                  *)
(*    running    holds its permit (_permit) and makes its attempts         *)
(*    finished   returned its ProbeRun; panicked: unwound by a panic       *)
(***************************************************************************)
EXTENDS Summary

CONSTANTS
  N,              \* jobs.len()
  Parallelism,    \* run_cfg.parallelism, a usize nothing validates
  Attempts,       \* run_cfg.attempts
  MinSuccesses,   \* run_cfg.min_successes
  Outcomes        \* the AttemptResults a probe may return

ASSUME RunConfigAssumption ==
  /\ N \in Nat
  /\ Parallelism \in Nat
  /\ Attempts \in Nat
  /\ MinSuccesses \in Nat
  /\ \A r \in Outcomes : r.ok \in BOOLEAN

VARIABLES
  handles,    \* number of tasks spawned so far (the length of handles)
  task,       \* the state of the task of each job
  results,    \* attempt_results of each task
  permits,    \* permits of the semaphore nobody holds
  queue,      \* the semaphore's waiters, first come first served
  out         \* the ProbeRuns collected so far

vars == <<handles, task, results, permits, queue, out>>

Jobs == 1 .. N

TaskStates ==
  {"unspawned", "spawned", "queued", "running", "finished", "panicked"}

InState(s) == {j \in Jobs : task[j] = s}

Returned == handles = N /\ Len(out) = N

-----------------------------------------------------------------------------

Init ==
  /\ handles = 0
  /\ task = [j \in Jobs |-> "unspawned"]
  /\ results = [j \in Jobs |-> <<>>]
  /\ permits = Parallelism
  /\ queue = <<>>
  /\ out = <<>>

\* One turn of the spawning loop; it never awaits.
Spawn ==
  /\ handles < N
  /\ handles' = handles + 1
  /\ task' = [task EXCEPT ![handles + 1] = "spawned"]
  /\ UNCHANGED <<results, permits, queue, out>>

\* Mutant: the permit is taken without a look at how many are left.
TakePermitBlindly(j) ==
  /\ task[j] = "spawned"
  /\ permits' = permits - 1
  /\ task' = [task EXCEPT ![j] = "running"]
  /\ UNCHANGED <<handles, results, queue, out>>

\* sem.acquire().await finds a free permit ...
TakePermit(j) ==
  /\ task[j] = "spawned"
  /\ permits > 0
  /\ permits' = permits - 1
  /\ task' = [task EXCEPT ![j] = "running"]
  /\ UNCHANGED <<handles, results, queue, out>>

\* ... or joins the semaphore's queue.
Enqueue(j) ==
  /\ task[j] = "spawned"
  /\ permits = 0
  /\ queue' = Append(queue, j)
  /\ task' = [task EXCEPT ![j] = "queued"]
  /\ UNCHANGED <<handles, results, permits, out>>

\* Mutants: the freed permit goes back to the counter and wakes nobody; it
\* wakes the last waiter.
DropPermitQuietly(j, s) ==
  /\ permits' = permits + 1
  /\ task' = [task EXCEPT ![j] = s]
  /\ queue' = queue

DropPermitToLast(j, s) ==
  \/ /\ queue = <<>>
     /\ permits' = permits + 1
     /\ task' = [task EXCEPT ![j] = s]
     /\ queue' = queue
  \/ /\ queue # <<>>
     /\ task' = [task EXCEPT ![j] = s, ![Last(queue)] = "running"]
     /\ queue' = Front(queue)
     /\ permits' = permits

\* The drop of _permit when the task of j ends in state s: the semaphore
\* hands the permit to its first waiter if there is one.
DropPermit(j, s) ==
  \/ /\ queue = <<>>
     /\ permits' = permits + 1
     /\ task' = [task EXCEPT ![j] = s]
     /\ queue' = queue
  \/ /\ queue # <<>>
     /\ task' = [task EXCEPT ![j] = s, ![Head(queue)] = "running"]
     /\ queue' = Tail(queue)
     /\ permits' = permits

\* One turn of the attempts loop.
Attempt(j) ==
  /\ task[j] = "running"
  /\ Len(results[j]) < Attempts
  /\ \E r \in Outcomes : results' = [results EXCEPT ![j] = Append(@, r)]
  /\ UNCHANGED <<handles, task, permits, queue, out>>

\* Mutant: the loop ends as soon as enough attempts succeeded.
FinishEarly(j) ==
  /\ task[j] = "running"
  /\ Cardinality(Successes(results[j])) >= MinSuccesses \/ Len(results[j]) = Attempts
  /\ DropPermit(j, "finished")
  /\ UNCHANGED <<handles, results, out>>

\* The loop is over: the ProbeRun is built and the permit dropped.
Finish(j) ==
  /\ task[j] = "running"
  /\ Len(results[j]) = Attempts
  /\ DropPermit(j, "finished")
  /\ UNCHANGED <<handles, results, out>>

\* Mutant: the permit is given back at the end of the task, not by a drop.
PanicKeepsPermit(j) ==
  /\ task[j] = "running"
  /\ Len(results[j]) < Attempts
  /\ task' = [task EXCEPT ![j] = "panicked"]
  /\ results' = [results EXCEPT ![j] = <<>>]
  /\ UNCHANGED <<handles, permits, queue, out>>

\* A probe panics: unwinding drops the permit and the attempts made so far.
Panic(j) ==
  /\ task[j] = "running"
  /\ Len(results[j]) < Attempts
  /\ DropPermit(j, "panicked")
  /\ results' = [results EXCEPT ![j] = <<>>]
  /\ UNCHANGED <<handles, out>>

\* The ProbeRun of a task that returned.
ProbeRun(j) ==
  [job |-> j,
   attempts |-> results[j],
   summary |-> SummarizeAttempts(results[j], MinSuccesses)]

\* The ProbeRun made up for a task whose handle is an error.
PanickedRun(j) ==
  [job |-> j,
   attempts |-> <<[ok |-> FALSE, rtt |-> NoRtt]>>,
   summary |-> [success_count |-> 0, failure_count |-> 1, min_rtt |-> NoRtt,
                avg_rtt |-> NoRtt, max_rtt |-> NoRtt, ok |-> FALSE]]

\* Mutant: the collector takes whatever task has ended.
AnyEnded ==
  LET left == {j \in Jobs : /\ task[j] \in {"finished", "panicked"}
                            /\ \A i \in DOMAIN out : out[i].job # j}
  IN  IF left = {} THEN Len(out) + 1 ELSE CHOOSE j \in left : \A k \in left : j <= k

\* The job whose handle the collecting loop awaits.
Awaited == Len(out) + 1

CollectOk ==
  /\ handles = N
  /\ Len(out) < N
  /\ task[Awaited] = "finished"
  /\ out' = Append(out, ProbeRun(Awaited))
  /\ UNCHANGED <<handles, task, results, permits, queue>>

CollectErr ==
  /\ handles = N
  /\ Len(out) < N
  /\ task[Awaited] = "panicked"
  /\ out' = Append(out, PanickedRun(Awaited))
  /\ UNCHANGED <<handles, task, results, permits, queue>>

\* run_jobs has returned; nothing is left to do.
Idle == Returned /\ UNCHANGED vars

Task(j) ==
  TakePermit(j) \/ Enqueue(j) \/ Attempt(j) \/ Finish(j) \/ Panic(j)

Next ==
  \/ Spawn
  \/ \E j \in Jobs :
       TakePermit(j) \/ Enqueue(j) \/ Attempt(j) \/ Finish(j) \/ Panic(j)
  \/ CollectOk
  \/ CollectErr
  \/ Idle

Spec == Init /\ [][Next]_vars

\* run_jobs runs until it awaits; every task that can be polled is polled,
\* and every probe ends an attempt within its timeout.
Fairness ==
  /\ WF_vars(Spawn)
  /\ WF_vars(CollectOk \/ CollectErr)
  /\ \A j \in Jobs : WF_vars(Task(j))

FairSpec == Spec /\ Fairness

-----------------------------------------------------------------------------

\* The ProbeRuns the collecting loop can push in this state.
Runs == {ProbeRun(j) : j \in Jobs} \cup {PanickedRun(j) : j \in Jobs}

\* The types of the runner's state: permits never exceed the parallelism and
\* only runs of configured jobs are collected.
TypeOK ==
  /\ handles \in 0 .. N
  /\ task \in [Jobs -> TaskStates]
  /\ results \in [Jobs -> Seq(Outcomes)]
  /\ permits \in 0 .. Parallelism
  /\ queue \in Seq(Jobs)
  /\ out \in Seq(Runs)

\* No permit is lost or made up, not by a panic that unwinds a task either:
\* at every moment at most Parallelism jobs probe the network.
PermitsConserved == permits + Cardinality(InState("running")) = Parallelism

\* The waiters of the semaphore are exactly the tasks that wait for it, each
\* once, and nobody waits while a permit is free: no wakeup is lost between
\* a task that ends and the task that should follow it.
NoLostWakeup ==
  /\ {queue[i] : i \in DOMAIN queue} = InState("queued")
  /\ \A a, b \in DOMAIN queue : queue[a] = queue[b] => a = b
  /\ permits > 0 => queue = <<>>

\* Tasks end in any order, but the report lists every job once, at its own
\* place, under its own attempts; a panicked task is reported as a failure
\* and not dropped ("report it as a failure rather than dropping it").
ReportsMatchJobs ==
  /\ Len(out) <= N
  /\ \A i \in 1 .. Len(out) :
       \/ task[i] = "finished" /\ out[i] = ProbeRun(i)
       \/ task[i] = "panicked" /\ out[i] = PanickedRun(i)

\* A job reported ok made all its attempts, and as many of them as the
\* configuration asks for succeeded; it never passes on the attempts of a
\* task that panicked or was cut short.
OkNeedsSuccesses ==
  \A i \in 1 .. Len(out) :
    out[i].summary.ok =>
      /\ task[i] = "finished"
      /\ Len(out[i].attempts) = Attempts
      /\ Cardinality(Successes(out[i].attempts)) >= MinSuccesses

\* The semaphore is fair: no step lets a waiting task overtake the tasks
\* that queued before it.
FirstComeFirstServed ==
  [][\A a, b \in DOMAIN queue :
       a < b /\ task'[queue[b]] = "running" => task'[queue[a]] # "queued"]_vars

\* With parallelism 0, which RunConfig accepts, no task ever probes and
\* run_jobs never returns.
ZeroParallelismHangs == (Parallelism = 0 /\ N > 0) => [](out = <<>>)

Verdict(j) ==
  CASE task[j] = "finished" ->
         IF SummarizeAttempts(results[j], MinSuccesses).ok
         THEN "pass" ELSE "fail"
    [] task[j] = "panicked" -> "fail"
    [] OTHER -> "undecided"

\* run_jobs implements the abstract report of the jobs, its progress included:
\* with a permit to share every job is decided and reported, so that no panic,
\* no slow task and no order of completion keeps run_jobs from returning.
Abstract == INSTANCE JobReport WITH
  verdict  <- [j \in Jobs |-> Verdict(j)],
  reported <- [i \in DOMAIN out |-> IF out[i].summary.ok THEN "pass" ELSE "fail"]

ImplementsJobReport == Abstract!FairSpec

=============================================================================
