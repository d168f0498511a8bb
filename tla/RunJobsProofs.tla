--------------------------- MODULE RunJobsProofs ---------------------------
(***************************************************************************)
(* Proofs about RunJobs, for every number of jobs, every parallelism and   *)
(* every run configuration.                                                *)
(***************************************************************************)
EXTENDS RunJobs, FiniteSetTheorems, SequenceTheorems, TLAPS

\* The part of the state the semaphore and the task states make up.
TasksOK ==
  /\ handles \in 0 .. N
  /\ task \in [Jobs -> TaskStates]
  /\ permits \in 0 .. Parallelism
  /\ queue \in Seq(Jobs)
  /\ \A j \in Jobs : task[j] = "unspawned" <=> j > handles

SemaphoreInv == TasksOK /\ PermitsConserved /\ NoLostWakeup

LEMMA FiniteStates == \A s : IsFiniteSet(InState(s))
<1> SUFFICES ASSUME NEW s PROVE IsFiniteSet(InState(s))
  OBVIOUS
<1>1. IsFiniteSet(Jobs)
  BY FS_Interval, RunConfigAssumption DEF RunConfigAssumption, Jobs
<1>2. InState(s) \subseteq Jobs
  BY DEF InState
<1> QED
  BY <1>1, <1>2, FS_Subset

\* Cardinality of the running tasks when one of them starts.
LEMMA RunningGrows ==
  ASSUME TasksOK, NEW j \in Jobs, task[j] # "running",
         task' = [task EXCEPT ![j] = "running"]
  PROVE  Cardinality(InState("running")') = Cardinality(InState("running")) + 1
<1>1. InState("running")' = InState("running") \cup {j}
  BY DEF InState, TasksOK
<1>2. j \notin InState("running")
  BY DEF InState
<1> QED
  BY <1>1, <1>2, FS_AddElement, FiniteStates

\* Cardinality of the running tasks when one of them ends.
LEMMA RunningShrinks ==
  ASSUME TasksOK, NEW j \in Jobs, task[j] = "running",
         NEW s, s # "running", task' = [task EXCEPT ![j] = s]
  PROVE  /\ Cardinality(InState("running")') = Cardinality(InState("running")) - 1
         /\ Cardinality(InState("running")') \in Nat
<1>1. InState("running")' = InState("running") \ {j}
  BY DEF InState, TasksOK
<1>2. j \in InState("running")
  BY DEF InState
<1>3. IsFiniteSet(InState("running") \ {j})
  BY FS_RemoveElement, FiniteStates
<1> QED
  BY <1>1, <1>2, <1>3, FS_RemoveElement, FS_CardinalityType, FiniteStates

\* A step that changes task at one job, between states other than "running"
\* and "queued", and leaves the semaphore alone.
LEMMA SemaphoreUntouched ==
  ASSUME SemaphoreInv, NEW j \in Jobs, NEW s \in TaskStates,
         task[j] \notin {"running", "queued"}, s \notin {"running", "queued"},
         task' = [task EXCEPT ![j] = s], permits' = permits, queue' = queue
  PROVE  PermitsConserved' /\ NoLostWakeup'
<1>1. InState("running")' = InState("running")
  BY DEF SemaphoreInv, TasksOK, InState
<1>2. InState("queued")' = InState("queued")
  BY DEF SemaphoreInv, TasksOK, InState
<1> QED
  BY <1>1, <1>2 DEF SemaphoreInv, PermitsConserved, NoLostWakeup

LEMMA SpawnSemaphore == SemaphoreInv /\ Spawn => SemaphoreInv'
<1> SUFFICES ASSUME SemaphoreInv, Spawn PROVE SemaphoreInv'
  OBVIOUS
<1>1. handles + 1 \in Jobs /\ task[handles + 1] = "unspawned"
  BY RunConfigAssumption DEF RunConfigAssumption, SemaphoreInv, TasksOK, Spawn, Jobs
<1>2. PermitsConserved' /\ NoLostWakeup'
  BY <1>1, SemaphoreUntouched DEF Spawn, TaskStates
<1>3. TasksOK'
  BY <1>1, RunConfigAssumption
  DEF RunConfigAssumption, SemaphoreInv, TasksOK, Spawn, Jobs, TaskStates
<1> QED
  BY <1>2, <1>3 DEF SemaphoreInv

LEMMA TakePermitSemaphore ==
  \A j \in Jobs : SemaphoreInv /\ TakePermit(j) => SemaphoreInv'
<1> SUFFICES ASSUME NEW j \in Jobs, SemaphoreInv, TakePermit(j)
             PROVE  SemaphoreInv'
  OBVIOUS
<1>1. TasksOK'
  BY RunConfigAssumption
  DEF RunConfigAssumption, SemaphoreInv, TasksOK, TakePermit, TaskStates
<1>2. PermitsConserved'
  <2>1. Cardinality(InState("running")') = Cardinality(InState("running")) + 1
    BY RunningGrows DEF TakePermit, SemaphoreInv
  <2>2. Cardinality(InState("running")) \in Nat
    BY FiniteStates, FS_CardinalityType
  <2> QED
    BY <2>1, <2>2, RunConfigAssumption
    DEF RunConfigAssumption, SemaphoreInv, TasksOK, PermitsConserved, TakePermit
<1>3. NoLostWakeup'
  <2>1. InState("queued")' = InState("queued")
    BY DEF SemaphoreInv, TasksOK, InState, TakePermit
  <2> QED
    BY <2>1 DEF SemaphoreInv, NoLostWakeup, TakePermit
<1> QED
  BY <1>1, <1>2, <1>3 DEF SemaphoreInv

LEMMA EnqueueSemaphore ==
  \A j \in Jobs : SemaphoreInv /\ Enqueue(j) => SemaphoreInv'
<1> SUFFICES ASSUME NEW j \in Jobs, SemaphoreInv, Enqueue(j)
             PROVE  SemaphoreInv'
  OBVIOUS
<1>1. TasksOK'
  BY RunConfigAssumption
  DEF RunConfigAssumption, SemaphoreInv, TasksOK, Enqueue, TaskStates
<1>2. PermitsConserved'
  <2>1. InState("running")' = InState("running")
    BY DEF SemaphoreInv, TasksOK, InState, Enqueue
  <2> QED
    BY <2>1 DEF SemaphoreInv, PermitsConserved, Enqueue
<1>3. NoLostWakeup'
  <2>1. InState("queued")' = InState("queued") \cup {j}
    BY DEF SemaphoreInv, TasksOK, InState, Enqueue
  <2>2. /\ Len(queue) \in Nat
        /\ DOMAIN queue = 1 .. Len(queue)
        /\ DOMAIN queue' = 1 .. Len(queue) + 1
        /\ \A i \in DOMAIN queue : queue'[i] = queue[i]
        /\ queue'[Len(queue) + 1] = j
    BY DEF SemaphoreInv, TasksOK, Enqueue
  <2>3. \A i \in DOMAIN queue : queue[i] # j
    BY DEF SemaphoreInv, NoLostWakeup, InState, Enqueue
  <2>4. {queue'[i] : i \in DOMAIN queue'} = {queue[i] : i \in DOMAIN queue} \cup {j}
    BY <2>2
  <2>5. \A a, b \in DOMAIN queue' : queue'[a] = queue'[b] => a = b
    BY <2>2, <2>3 DEF SemaphoreInv, NoLostWakeup
  <2> QED
    BY <2>1, <2>4, <2>5 DEF SemaphoreInv, NoLostWakeup, Enqueue, TasksOK
<1> QED
  BY <1>1, <1>2, <1>3 DEF SemaphoreInv

\* The permit of a task that ends goes to the first waiter or back to the
\* semaphore; either way nothing is lost.
LEMMA DropPermitSemaphore ==
  ASSUME SemaphoreInv, NEW j \in Jobs, task[j] = "running",
         NEW s \in {"finished", "panicked"}, DropPermit(j, s),
         UNCHANGED handles
  PROVE  SemaphoreInv'
<1>1. CASE queue = <<>>
  <2>1. permits' = permits + 1 /\ task' = [task EXCEPT ![j] = s] /\ queue' = queue
    BY <1>1 DEF DropPermit
  <2>2. /\ Cardinality(InState("running")') = Cardinality(InState("running")) - 1
        /\ Cardinality(InState("running")') \in Nat
    BY <2>1, RunningShrinks DEF SemaphoreInv
  <2>3. Cardinality(InState("running")) \in Nat
    BY FiniteStates, FS_CardinalityType
  <2>4. PermitsConserved' /\ permits' \in 0 .. Parallelism
    BY <2>1, <2>2, <2>3, RunConfigAssumption
    DEF RunConfigAssumption, SemaphoreInv, TasksOK, PermitsConserved
  <2>5. TasksOK'
    BY <2>1, <2>4 DEF SemaphoreInv, TasksOK, TaskStates
  <2>6. InState("queued")' = InState("queued")
    BY <2>1 DEF SemaphoreInv, TasksOK, InState
  <2>7. NoLostWakeup'
    BY <1>1, <2>1, <2>6 DEF SemaphoreInv, NoLostWakeup
  <2> QED
    BY <2>4, <2>5, <2>7 DEF SemaphoreInv
<1>2. CASE queue # <<>>
  <2> DEFINE h == Head(queue)
  <2>1. /\ task' = [task EXCEPT ![j] = s, ![h] = "running"]
        /\ queue' = Tail(queue)
        /\ permits' = permits
    BY <1>2 DEF DropPermit
  <2>2. /\ Len(queue) \in Nat \ {0}
        /\ DOMAIN queue = 1 .. Len(queue)
        /\ h = queue[1]
        /\ h \in Jobs
        /\ Tail(queue) \in Seq(Jobs)
        /\ DOMAIN Tail(queue) = 1 .. Len(queue) - 1
        /\ \A i \in 1 .. Len(queue) - 1 : Tail(queue)[i] = queue[i + 1]
    BY <1>2, HeadTailProperties DEF SemaphoreInv, TasksOK
  <2>3. h \in InState("queued") /\ task[h] = "queued" /\ h # j
    BY <2>2 DEF SemaphoreInv, NoLostWakeup, InState
  <2>4. TasksOK'
    BY <2>1, <2>2, <2>3 DEF SemaphoreInv, TasksOK, TaskStates
  <2>5. PermitsConserved'
    <3>1. InState("running")' = (InState("running") \ {j}) \cup {h}
      BY <2>1, <2>2, <2>3 DEF SemaphoreInv, TasksOK, InState
    <3>2. j \in InState("running") /\ h \notin InState("running") \ {j}
      BY <2>3 DEF InState
    <3>3. IsFiniteSet(InState("running") \ {j})
      BY FS_RemoveElement, FiniteStates
    <3>4. Cardinality(InState("running")) \in Nat
      BY FiniteStates, FS_CardinalityType
    <3>5. Cardinality(InState("running") \ {j}) = Cardinality(InState("running")) - 1
      BY <3>2, FS_RemoveElement, FiniteStates
    <3>6. Cardinality((InState("running") \ {j}) \cup {h})
            = Cardinality(InState("running") \ {j}) + 1
      BY <3>2, <3>3, FS_AddElement
    <3>7. Cardinality((InState("running") \ {j}) \cup {h})
            = Cardinality(InState("running"))
      BY <3>4, <3>5, <3>6
    <3>8. Cardinality(InState("running")') = Cardinality(InState("running"))
      BY <3>1, <3>7, Zenon
    <3> QED
      BY <2>1, <3>8, Zenon DEF SemaphoreInv, PermitsConserved
  <2>6. NoLostWakeup'
    <3>1. InState("queued")' = InState("queued") \ {h}
      BY <2>1, <2>2, <2>3 DEF SemaphoreInv, TasksOK, InState
    <3>2. \A a, b \in DOMAIN queue' : queue'[a] = queue'[b] => a = b
      BY <2>1, <2>2 DEF SemaphoreInv, NoLostWakeup
    <3>3. {queue'[i] : i \in DOMAIN queue'} \subseteq InState("queued") \ {h}
      BY <2>1, <2>2 DEF SemaphoreInv, NoLostWakeup
    <3>4. InState("queued") \ {h} \subseteq {queue'[i] : i \in DOMAIN queue'}
      <4> SUFFICES ASSUME NEW q \in InState("queued"), q # h
                   PROVE  \E i \in DOMAIN queue' : q = queue'[i]
        OBVIOUS
      <4>1. PICK i \in DOMAIN queue : q = queue[i]
        BY DEF SemaphoreInv, NoLostWakeup
      <4>2. i \in 2 .. Len(queue)
        BY <4>1, <2>2
      <4>3. i - 1 \in DOMAIN queue' /\ queue'[i - 1] = q
        BY <4>1, <4>2, <2>1, <2>2
      <4> QED
        BY <4>3
    <3>5. permits' = 0
      BY <1>2, <2>1 DEF SemaphoreInv, NoLostWakeup, TasksOK
    <3> QED
      BY <3>1, <3>2, <3>3, <3>4, <3>5 DEF NoLostWakeup
  <2> QED
    BY <2>4, <2>5, <2>6 DEF SemaphoreInv
<1> QED
  BY <1>1, <1>2

-----------------------------------------------------------------------------

\* What the tasks have recorded, and what has been collected of it.
ResultsOK ==
  /\ results \in [Jobs -> Seq(Outcomes)]
  /\ \A j \in Jobs : task[j] = "finished" => Len(results[j]) = Attempts

\* The inductive invariant.
IInv == SemaphoreInv /\ ResultsOK /\ ReportsMatchJobs /\ out \in Seq(Runs)

LEMMA InitIInv == Init => IInv
<1> SUFFICES ASSUME Init PROVE IInv
  OBVIOUS
<1>1. InState("running") = {} /\ InState("queued") = {}
  BY DEF Init, InState
<1>2. Cardinality(InState("running")) = 0
  BY <1>1, FS_EmptySet
<1>3. PermitsConserved
  BY <1>2, RunConfigAssumption DEF RunConfigAssumption, Init, PermitsConserved
<1>4. NoLostWakeup
  BY <1>1 DEF Init, NoLostWakeup
<1>5. TasksOK
  BY RunConfigAssumption DEF RunConfigAssumption, Init, TasksOK, TaskStates, Jobs
<1>6. ResultsOK
  BY DEF Init, ResultsOK
<1>7. ReportsMatchJobs /\ out \in Seq(Runs)
  BY RunConfigAssumption DEF RunConfigAssumption, Init, ReportsMatchJobs
<1> QED
  BY <1>3, <1>4, <1>5, <1>6, <1>7 DEF IInv, SemaphoreInv

\* A collected report is a function of the results of its job: it does not
\* change while the job stays over and its results stay as they are.
LEMMA ReportsStable ==
  ASSUME IInv, UNCHANGED out,
         TasksOK', ResultsOK',
         \A i \in Jobs : task[i] \in {"finished", "panicked"} =>
                           task'[i] = task[i] /\ results'[i] = results[i]
  PROVE  ReportsMatchJobs' /\ out' \in Seq(Runs)'
<1>1. \A i \in 1 .. Len(out) : i \in Jobs
  BY RunConfigAssumption DEF RunConfigAssumption, IInv, ReportsMatchJobs, Jobs
<1>2. \A i \in 1 .. Len(out) :
        task[i] \in {"finished", "panicked"} => ProbeRun(i)' = ProbeRun(i)
  BY <1>1 DEF ProbeRun
<1>3. \A i \in 1 .. Len(out) : PanickedRun(i)' = PanickedRun(i)
  BY DEF PanickedRun
<1>4. ReportsMatchJobs'
  BY <1>1, <1>2, <1>3 DEF IInv, ReportsMatchJobs
<1>5. \A i \in 1 .. Len(out) : out[i] \in Runs'
  BY <1>1, <1>4 DEF ReportsMatchJobs, Runs
<1>6. out \in Seq(Runs')
  <2>1. Len(out) \in Nat /\ out = [i \in 1 .. Len(out) |-> out[i]]
    BY DEF IInv
  <2> QED
    BY <1>5, <2>1
<1> QED
  BY <1>4, <1>6

\* An attempt or the end of a task keeps the inductive invariant as long as
\* it keeps the semaphore's.
LEMMA AttemptIInv == \A j \in Jobs : IInv /\ Attempt(j) => IInv'
<1> SUFFICES ASSUME NEW j \in Jobs, IInv, Attempt(j) PROVE IInv'
  OBVIOUS
<1>1. SemaphoreInv'
  BY DEF IInv, SemaphoreInv, TasksOK, PermitsConserved, NoLostWakeup, InState, Attempt
<1>2. ResultsOK'
  <2>1. PICK r \in Outcomes : results' = [results EXCEPT ![j] = Append(@, r)]
    BY DEF Attempt
  <2> QED
    BY <2>1 DEF IInv, ResultsOK, Attempt
<1>3. \A i \in Jobs : task[i] \in {"finished", "panicked"} =>
                        task'[i] = task[i] /\ results'[i] = results[i]
  BY DEF Attempt, IInv, ResultsOK
<1>4. ReportsMatchJobs' /\ out' \in Seq(Runs)'
  BY <1>1, <1>2, <1>3, ReportsStable DEF Attempt, SemaphoreInv
<1> QED
  BY <1>1, <1>2, <1>4 DEF IInv

LEMMA EndIInv == \A j \in Jobs : IInv /\ (Finish(j) \/ Panic(j)) => IInv'
<1> SUFFICES ASSUME NEW j \in Jobs, IInv, Finish(j) \/ Panic(j) PROVE IInv'
  OBVIOUS
<1>1. PICK s \in {"finished", "panicked"} :
        /\ DropPermit(j, s)
        /\ s = "finished" => Len(results[j]) = Attempts /\ results' = results
        /\ s = "panicked" => results' = [results EXCEPT ![j] = <<>>]
  BY DEF Finish, Panic
<1>2. task[j] = "running" /\ UNCHANGED <<handles, out>>
  BY DEF Finish, Panic
<1>3. SemaphoreInv'
  BY <1>1, <1>2, DropPermitSemaphore DEF IInv
<1>4. \A i \in Jobs : i # j => results'[i] = results[i]
  BY <1>1 DEF IInv, ResultsOK
<1>5. /\ task'[j] = s
      /\ \A i \in Jobs : i # j => task'[i] \in {task[i], "running"}
      /\ \A i \in Jobs : task[i] \in {"finished", "panicked"} => task'[i] = task[i]
  <2>1. CASE queue = <<>>
    BY <1>1, <1>2, <2>1 DEF DropPermit, IInv, SemaphoreInv, TasksOK
  <2>2. CASE queue # <<>>
    <3>1. Head(queue) = queue[1] /\ 1 \in DOMAIN queue
      BY <2>2 DEF IInv, SemaphoreInv, TasksOK
    <3>2. Head(queue) \in Jobs /\ task[Head(queue)] = "queued"
      BY <3>1 DEF IInv, SemaphoreInv, NoLostWakeup, InState
    <3>3. task' = [task EXCEPT ![j] = s, ![Head(queue)] = "running"]
      BY <1>1, <2>2 DEF DropPermit
    <3>4. task \in [Jobs -> TaskStates]
      BY DEF IInv, SemaphoreInv, TasksOK
    <3>5. Head(queue) # j
      BY <1>2, <3>2
    <3>6. \A i \in Jobs : task'[i] = IF i = Head(queue) THEN "running"
                                     ELSE IF i = j THEN s ELSE task[i]
      BY <3>3, <3>4
    <3> QED
      BY <1>2, <3>2, <3>5, <3>6
  <2> QED
    BY <2>1, <2>2
<1>6. ResultsOK'
  <2>1. results' \in [Jobs -> Seq(Outcomes)]
    <3>1. <<>> \in Seq(Outcomes)
      BY EmptySeq
    <3>2. results' = results \/ results' = [results EXCEPT ![j] = <<>>]
      BY <1>1
    <3> QED
      BY <3>1, <3>2 DEF IInv, ResultsOK
  <2>2. \A i \in Jobs : task'[i] = "finished" => Len(results'[i]) = Attempts
    BY <1>1, <1>4, <1>5 DEF IInv, ResultsOK
  <2> QED
    BY <2>1, <2>2 DEF ResultsOK
<1>7. ReportsMatchJobs' /\ out' \in Seq(Runs)'
  <2>1. \A i \in Jobs : task[i] \in {"finished", "panicked"} =>
                          task'[i] = task[i] /\ results'[i] = results[i]
    BY <1>2, <1>4, <1>5
  <2> QED
    BY <1>2, <1>3, <1>6, <2>1, ReportsStable DEF SemaphoreInv
<1> QED
  BY <1>3, <1>6, <1>7 DEF IInv

\* A step of the spawning loop or of the semaphore's acquire.
LEMMA StartIInv ==
  /\ IInv /\ Spawn => IInv'
  /\ \A j \in Jobs : IInv /\ (TakePermit(j) \/ Enqueue(j)) => IInv'
<1>1. ASSUME IInv, Spawn PROVE IInv'
  <2>1. SemaphoreInv'
    BY <1>1, SpawnSemaphore DEF IInv
  <2>2. task[handles + 1] = "unspawned" /\ handles + 1 \in Jobs
    BY <1>1, RunConfigAssumption
    DEF RunConfigAssumption, IInv, SemaphoreInv, TasksOK, Spawn, Jobs
  <2>3. ResultsOK'
    BY <1>1, <2>2 DEF IInv, ResultsOK, Spawn, SemaphoreInv, TasksOK
  <2>4. ReportsMatchJobs' /\ out' \in Seq(Runs)'
    BY <1>1, <2>1, <2>2, <2>3, ReportsStable DEF Spawn, IInv, SemaphoreInv, TasksOK
  <2> QED
    BY <2>1, <2>3, <2>4 DEF IInv
<1>2. ASSUME NEW j \in Jobs, IInv, TakePermit(j) \/ Enqueue(j) PROVE IInv'
  <2>1. SemaphoreInv'
    BY <1>2, TakePermitSemaphore, EnqueueSemaphore DEF IInv
  <2>2. /\ task[j] = "spawned" /\ UNCHANGED <<results, out>>
        /\ \E s \in {"running", "queued"} : task' = [task EXCEPT ![j] = s]
    BY <1>2 DEF TakePermit, Enqueue
  <2>3. ResultsOK'
    BY <1>2, <2>2 DEF IInv, ResultsOK, SemaphoreInv, TasksOK
  <2>4. ReportsMatchJobs' /\ out' \in Seq(Runs)'
    BY <1>2, <2>1, <2>2, <2>3, ReportsStable DEF IInv, SemaphoreInv, TasksOK
  <2> QED
    BY <2>1, <2>3, <2>4 DEF IInv
<1> QED
  BY <1>1, <1>2

LEMMA CollectIInv == IInv /\ (CollectOk \/ CollectErr) => IInv'
<1> SUFFICES ASSUME IInv, CollectOk \/ CollectErr PROVE IInv'
  OBVIOUS
<1>1. /\ UNCHANGED <<handles, task, results, permits, queue>>
      /\ Len(out) < N
      /\ \/ task[Awaited] = "finished" /\ out' = Append(out, ProbeRun(Awaited))
         \/ task[Awaited] = "panicked" /\ out' = Append(out, PanickedRun(Awaited))
  BY DEF CollectOk, CollectErr
<1>2. SemaphoreInv' /\ ResultsOK'
  BY <1>1 DEF IInv, SemaphoreInv, TasksOK, PermitsConserved, NoLostWakeup,
              InState, ResultsOK
<1>3. Len(out) \in Nat /\ Awaited \in Jobs /\ Awaited = Len(out) + 1
  BY <1>1, RunConfigAssumption DEF RunConfigAssumption, IInv, Awaited, Jobs
<1>4. Runs' = Runs
  BY <1>1 DEF Runs, ProbeRun, PanickedRun
<1>5. \A i : ProbeRun(i)' = ProbeRun(i) /\ PanickedRun(i)' = PanickedRun(i)
  BY <1>1 DEF ProbeRun, PanickedRun
<1>6. ProbeRun(Awaited) \in Runs /\ PanickedRun(Awaited) \in Runs
  BY <1>3 DEF Runs
<1>7. out' \in Seq(Runs)
  BY <1>1, <1>6 DEF IInv
<1>8. ReportsMatchJobs'
  <2>1. /\ Len(out') = Len(out) + 1
        /\ \A i \in 1 .. Len(out) : out'[i] = out[i]
        /\ out'[Awaited] \in {ProbeRun(Awaited), PanickedRun(Awaited)}
        /\ task[Awaited] = "finished" => out'[Awaited] = ProbeRun(Awaited)
        /\ task[Awaited] = "panicked" => out'[Awaited] = PanickedRun(Awaited)
    BY <1>1, <1>3, <1>6 DEF IInv
  <2>2. \A i \in 1 .. Len(out') : i \in 1 .. Len(out) \/ i = Awaited
    BY <1>3, <2>1
  <2> QED
    BY <1>1, <1>3, <1>5, <2>1, <2>2, RunConfigAssumption
    DEF IInv, ReportsMatchJobs, RunConfigAssumption
<1> QED
  BY <1>2, <1>4, <1>7, <1>8 DEF IInv

LEMMA NextIInv == IInv /\ [Next]_vars => IInv'
<1> SUFFICES ASSUME IInv, [Next]_vars PROVE IInv'
  OBVIOUS
<1>1. CASE UNCHANGED vars
  BY <1>1 DEF vars, IInv, SemaphoreInv, TasksOK, PermitsConserved, NoLostWakeup,
              InState, ResultsOK, ReportsMatchJobs, Runs, ProbeRun, PanickedRun
<1>2. CASE Spawn
  BY <1>2, StartIInv
<1>3. CASE \E j \in Jobs : TakePermit(j) \/ Enqueue(j)
  BY <1>3, StartIInv
<1>4. CASE \E j \in Jobs : Attempt(j) \/ Finish(j) \/ Panic(j)
  BY <1>4, AttemptIInv, EndIInv
<1>5. CASE CollectOk \/ CollectErr
  BY <1>5, CollectIInv
<1> QED
  BY <1>1, <1>2, <1>3, <1>4, <1>5 DEF Next, Idle

THEOREM Invariance == Spec => []IInv
BY InitIInv, NextIInv, PTL DEF Spec

\* The states of run_jobs are well typed, for every configuration.
THEOREM TypeCorrect == Spec => []TypeOK
<1>1. IInv => TypeOK
  BY DEF IInv, SemaphoreInv, TasksOK, ResultsOK, TypeOK
<1> QED
  BY <1>1, Invariance, PTL

\* The semaphore never loses or invents a permit, even when a probe panics:
\* no more than Parallelism jobs ever probe at once.
THEOREM PermitsAreConserved == Spec => []PermitsConserved
<1>1. IInv => PermitsConserved
  BY DEF IInv, SemaphoreInv
<1> QED
  BY <1>1, Invariance, PTL

\* No task waits while a permit is free.
THEOREM WakeupsAreNotLost == Spec => []NoLostWakeup
<1>1. IInv => NoLostWakeup
  BY DEF IInv, SemaphoreInv
<1> QED
  BY <1>1, Invariance, PTL

\* The report lists the jobs in order, each once with its own attempts,
\* whatever the order in which the tasks end and whichever of them panic.
THEOREM ReportsAreComplete == Spec => []ReportsMatchJobs
<1>1. IInv => ReportsMatchJobs
  BY DEF IInv
<1> QED
  BY <1>1, Invariance, PTL

\* A job reported ok really made its attempts and succeeded often enough.
THEOREM OkIsEarned == Spec => []OkNeedsSuccesses
<1>1. IInv => OkNeedsSuccesses
  <2> SUFFICES ASSUME IInv, NEW i \in 1 .. Len(out), out[i].summary.ok
               PROVE  /\ task[i] = "finished"
                      /\ Len(out[i].attempts) = Attempts
                      /\ Cardinality(Successes(out[i].attempts)) >= MinSuccesses
    BY DEF OkNeedsSuccesses
  <2>1. ~PanickedRun(i).summary.ok
    BY DEF PanickedRun
  <2>2. task[i] = "finished" /\ out[i] = ProbeRun(i)
    BY <2>1 DEF IInv, ReportsMatchJobs
  <2>3. out[i].attempts = results[i]
    BY <2>2 DEF ProbeRun
  <2>4. SummarizeAttempts(results[i], MinSuccesses).ok
    BY <2>2 DEF ProbeRun
  <2>5. Cardinality(Successes(results[i])) >= MinSuccesses
    BY <2>4 DEF SummarizeAttempts
  <2>6. i \in Jobs
    BY RunConfigAssumption DEF IInv, ReportsMatchJobs, Jobs, RunConfigAssumption
  <2> QED
    BY <2>2, <2>3, <2>5, <2>6 DEF IInv, ResultsOK
<1> QED
  BY <1>1, Invariance, PTL

\* The head of a non-empty queue is a waiting task.
LEMMA HeadIsQueued ==
  ASSUME SemaphoreInv, queue # <<>>
  PROVE  /\ 1 \in DOMAIN queue
         /\ Head(queue) = queue[1]
         /\ Head(queue) \in Jobs
         /\ task[Head(queue)] = "queued"
<1>1. Head(queue) = queue[1] /\ 1 \in DOMAIN queue
  BY DEF SemaphoreInv, TasksOK
<1> QED
  BY <1>1 DEF SemaphoreInv, NoLostWakeup, InState

\* The tasks a step starts among the waiters: only the head of the queue.
LEMMA OnlyHeadStarts ==
  ASSUME IInv, [Next]_vars, NEW q \in Jobs, task[q] = "queued", task'[q] # "queued"
  PROVE  queue # <<>> /\ q = Head(queue) /\ task'[q] = "running"
<1> USE DEF IInv, SemaphoreInv, TasksOK
<1>1. CASE UNCHANGED task
  BY <1>1
<1>2. CASE Spawn
  BY <1>2 DEF Spawn, Jobs
<1>3. ASSUME NEW j \in Jobs, TakePermit(j) \/ Enqueue(j) PROVE FALSE
  BY <1>3 DEF TakePermit, Enqueue
<1>4. ASSUME NEW j \in Jobs, Finish(j) \/ Panic(j)
      PROVE  queue # <<>> /\ q = Head(queue) /\ task'[q] = "running"
  <2>1. task[j] = "running" /\ \E s \in {"finished", "panicked"} : DropPermit(j, s)
    BY <1>4 DEF Finish, Panic
  <2> QED
    BY <2>1, HeadIsQueued DEF DropPermit
<1> QED
  BY <1>1, <1>2, <1>3, <1>4
  DEF Next, vars, Attempt, CollectOk, CollectErr, Idle

\* The semaphore is first come first served, for any number of waiters.
THEOREM WaitersAreServedInOrder == Spec => FirstComeFirstServed
<1> DEFINE Fair == \A a, b \in DOMAIN queue :
             a < b /\ task'[queue[b]] = "running" => task'[queue[a]] # "queued"
<1>1. ASSUME IInv, [Next]_vars PROVE Fair
  <2> SUFFICES ASSUME NEW a \in DOMAIN queue, NEW b \in DOMAIN queue,
                      a < b, task'[queue[b]] = "running"
               PROVE  FALSE
    OBVIOUS
  <2>1. queue[b] \in Jobs /\ task[queue[b]] = "queued"
    BY <1>1 DEF IInv, SemaphoreInv, NoLostWakeup, InState
  <2>2. queue # <<>> /\ queue[b] = Head(queue)
    BY <1>1, <2>1, OnlyHeadStarts
  <2>3. queue[b] = queue[1] /\ 1 \in DOMAIN queue
    BY <1>1, <2>2, HeadIsQueued DEF IInv
  <2>4. b = 1
    BY <1>1, <2>3 DEF IInv, SemaphoreInv, NoLostWakeup
  <2>5. DOMAIN queue = 1 .. Len(queue) /\ Len(queue) \in Nat
    BY <1>1 DEF IInv, SemaphoreInv, TasksOK
  <2> QED
    BY <2>4, <2>5
<1>2. IInv /\ [Next]_vars => [Fair]_vars
  BY <1>1
<1> QED
  BY <1>2, Invariance, PTL DEF Spec, FirstComeFirstServed

\* Without a permit no task ever ends.
NoTaskEnds ==
  Parallelism = 0 => \A j \in Jobs : task[j] \notin {"finished", "panicked"}

\* A configuration with parallelism 0 starves every job: nothing is ever
\* reported, so run_jobs never returns from a non-empty list of jobs.
THEOREM ZeroParallelism == Spec => ZeroParallelismHangs
<1>1. Init => NoTaskEnds
  BY DEF Init, NoTaskEnds
<1>2. ASSUME IInv, NoTaskEnds, [Next]_vars PROVE NoTaskEnds'
  <2> SUFFICES ASSUME Parallelism = 0, NEW k \in Jobs
               PROVE  task'[k] \notin {"finished", "panicked"}
    BY DEF NoTaskEnds
  <2>1. Cardinality(InState("running")) = 0
    <3>1. Cardinality(InState("running")) \in Nat
      BY FiniteStates, FS_CardinalityType
    <3> QED
      BY <1>2, <3>1 DEF IInv, SemaphoreInv, PermitsConserved, TasksOK
  <2>2. InState("running") = {}
    BY <2>1, FiniteStates, FS_EmptySet
  <2>3. \A j \in Jobs : ~Attempt(j) /\ ~Finish(j) /\ ~Panic(j)
    BY <2>2 DEF InState, Attempt, Finish, Panic
  <2>4. CASE Spawn \/ \E j \in Jobs : TakePermit(j) \/ Enqueue(j)
    BY <1>2, <2>4 DEF Spawn, TakePermit, Enqueue, NoTaskEnds, IInv, SemaphoreInv,
                      TasksOK
  <2>5. CASE UNCHANGED task
    BY <1>2, <2>5 DEF NoTaskEnds
  <2> QED
    BY <1>2, <2>3, <2>4, <2>5 DEF Next, CollectOk, CollectErr, Idle, vars
<1>3. ASSUME IInv, NoTaskEnds, Parallelism = 0 PROVE out = <<>>
  <2>1. ~(1 \in 1 .. Len(out))
    BY <1>3, RunConfigAssumption
    DEF RunConfigAssumption, IInv, ReportsMatchJobs, NoTaskEnds, Jobs
  <2> QED
    BY <1>3, <2>1 DEF IInv
<1>4. IInv /\ NoTaskEnds => (Parallelism = 0 /\ N > 0 => out = <<>>)
  BY <1>3
<1>5. Spec => [](Parallelism = 0 /\ N > 0 => out = <<>>)
  BY <1>1, <1>2, <1>4, Invariance, PTL DEF Spec
<1>6. CASE Parallelism = 0 /\ N > 0
  <2>1. (Parallelism = 0 /\ N > 0 => out = <<>>) => out = <<>>
    BY <1>6
  <2> QED
    BY <1>5, <2>1, PTL DEF ZeroParallelismHangs
<1>7. CASE ~(Parallelism = 0 /\ N > 0)
  BY <1>7 DEF ZeroParallelismHangs
<1> QED
  BY <1>6, <1>7

-----------------------------------------------------------------------------

\* The refinement mapping: the abstract verdicts and the abstract report.
VerdictBar == [j \in Jobs |-> Verdict(j)]
ReportedBar == [i \in DOMAIN out |-> IF out[i].summary.ok THEN "pass" ELSE "fail"]

\* The verdict of a job moves only with its task and its results.
LEMMA VerdictStable ==
  ASSUME NEW i \in Jobs,
         \/ task'[i] = task[i] /\ results'[i] = results[i]
         \/ /\ task[i] \notin {"finished", "panicked"}
            /\ task'[i] \notin {"finished", "panicked"}
  PROVE  Verdict(i)' = Verdict(i)
BY DEF Verdict

LEMMA VerdictValues ==
  \A i \in Jobs :
    /\ Verdict(i) \in {"undecided", "pass", "fail"}
    /\ Verdict(i) # "undecided" <=> task[i] \in {"finished", "panicked"}
BY DEF Verdict

\* A step that ends no task and collects nothing is a stutter of JobReport.
LEMMA StutterStep ==
  ASSUME UNCHANGED out,
         \A i \in Jobs :
           \/ task'[i] = task[i] /\ results'[i] = results[i]
           \/ /\ task[i] \notin {"finished", "panicked"}
              /\ task'[i] \notin {"finished", "panicked"}
  PROVE  UNCHANGED <<VerdictBar, ReportedBar>>
BY VerdictStable DEF VerdictBar, ReportedBar

\* The end of a task decides its job and no other.
LEMMA EndStep ==
  ASSUME IInv, NEW j \in Jobs, Finish(j) \/ Panic(j)
  PROVE  Abstract!Decide(j)
<1>1. task[j] = "running" /\ UNCHANGED out
  BY DEF Finish, Panic
<1>2. \E s \in {"finished", "panicked"} : DropPermit(j, s)
  BY DEF Finish, Panic
<1>3. task'[j] \in {"finished", "panicked"}
  BY <1>1, <1>2, HeadIsQueued DEF DropPermit, IInv, SemaphoreInv, TasksOK
<1>4. \A i \in Jobs : i # j =>
        \/ task'[i] = task[i] /\ results'[i] = results[i]
        \/ /\ task[i] \notin {"finished", "panicked"}
           /\ task'[i] \notin {"finished", "panicked"}
  <2> SUFFICES ASSUME NEW i \in Jobs, i # j
               PROVE  \/ task'[i] = task[i] /\ results'[i] = results[i]
                      \/ /\ task[i] \notin {"finished", "panicked"}
                         /\ task'[i] \notin {"finished", "panicked"}
    OBVIOUS
  <2>1. results'[i] = results[i]
    BY DEF Finish, Panic, IInv, ResultsOK
  <2>2. task'[i] = task[i] \/ (task[i] = "queued" /\ task'[i] = "running")
    BY <1>2, HeadIsQueued DEF DropPermit, IInv, SemaphoreInv, TasksOK
  <2> QED
    BY <2>1, <2>2
<1>5. VerdictBar[j] = "undecided"
  BY <1>1, VerdictValues DEF VerdictBar
<1>6. Verdict(j)' \in {"pass", "fail"}
  BY <1>3 DEF Verdict
<1>7. VerdictBar' = [VerdictBar EXCEPT ![j] = Verdict(j)']
  <2>1. \A i \in Jobs : i # j => Verdict(i)' = Verdict(i)
    BY <1>4, VerdictStable
  <2> QED
    BY <2>1 DEF VerdictBar
<1>8. UNCHANGED ReportedBar
  BY <1>1 DEF ReportedBar
<1> QED
  BY <1>5, <1>6, <1>7, <1>8
  DEF Abstract!Decide, Abstract!Verdicts, VerdictBar, ReportedBar, Jobs

\* The collector reports the next verdict.
LEMMA CollectStep ==
  ASSUME IInv, CollectOk \/ CollectErr
  PROVE  Abstract!Report
<1> DEFINE run == out'[Awaited]
           word == IF run.summary.ok THEN "pass" ELSE "fail"
<1>1. /\ UNCHANGED <<task, results>>
      /\ Len(out) < N
      /\ \/ task[Awaited] = "finished" /\ out' = Append(out, ProbeRun(Awaited))
         \/ task[Awaited] = "panicked" /\ out' = Append(out, PanickedRun(Awaited))
  BY DEF CollectOk, CollectErr
<1>2. Len(out) \in Nat /\ Awaited = Len(out) + 1 /\ Awaited \in Jobs
  BY <1>1, RunConfigAssumption DEF RunConfigAssumption, IInv, Awaited, Jobs
<1>3. UNCHANGED VerdictBar
  BY <1>1 DEF VerdictBar, Verdict
<1>4. /\ DOMAIN out = 1 .. Len(out)
      /\ DOMAIN out' = 1 .. Awaited
      /\ \A i \in 1 .. Len(out) : out'[i] = out[i]
      /\ task[Awaited] = "finished" => run = ProbeRun(Awaited)
      /\ task[Awaited] = "panicked" => run = PanickedRun(Awaited)
  <2>1. out \in Seq(Runs)
    BY DEF IInv
  <2> QED
    BY <1>1, <1>2, <2>1
<1>5. VerdictBar[Awaited] = word
  <2>1. CASE task[Awaited] = "finished"
    BY <1>2, <1>4, <2>1 DEF VerdictBar, Verdict, ProbeRun
  <2>2. CASE task[Awaited] = "panicked"
    BY <1>2, <1>4, <2>2 DEF VerdictBar, Verdict, PanickedRun
  <2> QED
    BY <1>1, <2>1, <2>2
<1>6. ReportedBar \in Seq({"pass", "fail"}) /\ Len(ReportedBar) = Len(out)
  BY <1>2, <1>4 DEF ReportedBar
<1>7. ReportedBar' = Append(ReportedBar, word)
  <2>1. Append(ReportedBar, word) =
          [i \in 1 .. Awaited |-> IF i = Awaited THEN word ELSE ReportedBar[i]]
    BY <1>2, <1>6
  <2>2. ReportedBar' =
          [i \in 1 .. Awaited |-> IF i = Awaited THEN word ELSE ReportedBar[i]]
    BY <1>2, <1>4 DEF ReportedBar
  <2> QED
    BY <2>1, <2>2
<1> QED
  BY <1>1, <1>2, <1>3, <1>5, <1>6, <1>7
  DEF Abstract!Report, Abstract!Verdicts, VerdictBar, ReportedBar

\* Every behaviour of run_jobs is, seen through the mapping, a behaviour of
\* JobReport (its safety part; the progress part is checked by TLC).
THEOREM Refinement == Spec => Abstract!Spec
<1>1. Init => Abstract!Init
  <2> SUFFICES ASSUME Init PROVE Abstract!Init
    OBVIOUS
  <2>1. \A j \in Jobs : Verdict(j) = "undecided"
    BY DEF Init, Verdict
  <2>2. out = <<>>
    BY DEF Init
  <2> QED
    BY <2>1, <2>2 DEF Abstract!Init, Jobs
<1>2. ASSUME IInv, [Next]_vars PROVE [Abstract!Next]_(Abstract!vars)
  <2>1. CASE UNCHANGED vars
    BY <2>1, StutterStep DEF vars, Abstract!vars, VerdictBar, ReportedBar
  <2>2. CASE Spawn \/ \E j \in Jobs : TakePermit(j) \/ Enqueue(j) \/ Attempt(j)
    <3>1. UNCHANGED out /\ \A i \in Jobs :
            \/ task'[i] = task[i] /\ results'[i] = results[i]
            \/ /\ task[i] \notin {"finished", "panicked"}
               /\ task'[i] \notin {"finished", "panicked"}
      <4>1. CASE Spawn
        <5>1. task[handles + 1] = "unspawned" /\ handles + 1 \in Jobs
          BY <1>2, <4>1, RunConfigAssumption
          DEF RunConfigAssumption, IInv, SemaphoreInv, TasksOK, Spawn, Jobs
        <5> QED
          BY <1>2, <4>1, <5>1 DEF Spawn, IInv, SemaphoreInv, TasksOK
      <4>2. ASSUME NEW j \in Jobs, TakePermit(j) \/ Enqueue(j) \/ Attempt(j)
            PROVE  UNCHANGED out /\ \A i \in Jobs :
                     \/ task'[i] = task[i] /\ results'[i] = results[i]
                     \/ /\ task[i] \notin {"finished", "panicked"}
                        /\ task'[i] \notin {"finished", "panicked"}
        BY <1>2, <4>2 DEF TakePermit, Enqueue, Attempt, IInv, SemaphoreInv, TasksOK,
                          ResultsOK
      <4> QED
        BY <2>2, <4>1, <4>2
    <3> QED
      BY <3>1, StutterStep DEF Abstract!vars, VerdictBar, ReportedBar
  <2>3. CASE \E j \in Jobs : Finish(j) \/ Panic(j)
    BY <1>2, <2>3, EndStep DEF Abstract!Next, Jobs
  <2>4. CASE CollectOk \/ CollectErr
    BY <1>2, <2>4, CollectStep DEF Abstract!Next
  <2> QED
    BY <1>2, <2>1, <2>2, <2>3, <2>4 DEF Next, Idle
<1> QED
  BY <1>1, <1>2, Invariance, PTL DEF Spec, Abstract!Spec

=============================================================================
