----------------------------- MODULE MCRunJobs -----------------------------
(***************************************************************************)
(* RunJobs on small instances.                                             *)
(***************************************************************************)
EXTENDS RunJobs

\* A probe that answers and one that fails, without a measured time: the
\* times matter to Summary only, which MCSummary checks.
OkOrFailed == {[ok |-> TRUE, rtt |-> NoRtt], [ok |-> FALSE, rtt |-> NoRtt]}

=============================================================================
