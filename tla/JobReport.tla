----------------------------- MODULE JobReport -----------------------------
(***************************************************************************)
(* What run_jobs promises its caller: every job gets one verdict, the      *)
(* verdicts are decided in any order, and they are reported once each, in  *)
(* job order, none invented and none dropped.                              *)
(***************************************************************************)
EXTENDS Naturals, Sequences

CONSTANT N

VARIABLES
  verdict,     \* the verdict of each job, "undecided" until it is known
  reported     \* the verdicts of the jobs 1 .. Len(reported)

vars == <<verdict, reported>>

Verdicts == {"pass", "fail"}

Init ==
  /\ verdict = [j \in 1 .. N |-> "undecided"]
  /\ reported = <<>>

Decide(j) ==
  /\ verdict[j] = "undecided"
  /\ \E v \in Verdicts : verdict' = [verdict EXCEPT ![j] = v]
  /\ UNCHANGED reported

Report ==
  /\ Len(reported) < N
  /\ verdict[Len(reported) + 1] \in Verdicts
  /\ reported' = Append(reported, verdict[Len(reported) + 1])
  /\ UNCHANGED verdict

Next == Report \/ \E j \in 1 .. N : Decide(j)

Spec == Init /\ [][Next]_vars

FairSpec ==
  /\ Spec
  /\ WF_vars(Report)
  /\ \A j \in 1 .. N : WF_vars(Decide(j))

=============================================================================
