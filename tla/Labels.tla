------------------------------- MODULE Labels -------------------------------
(***************************************************************************)
(* The text that stands for a target in a report: written by build_jobs of *)
(* crates/prober_core/src/probes/mod.rs, and taken apart again by the page *)
(* (parseTarget of app/src/App.jsx).  A label is a sequence of tokens: an  *)
(* address, a name, and the two parentheses.                               *)
(***************************************************************************)
EXTENDS Integers, Sequences

\* " (" and ")".
Open == "open"
Close == "close"

\* format!("{} ({})", at, name); http_control has only its URL.
TargetLabel(job) ==
  IF job.kind = "http_control" THEN <<job.target.at>>
  ELSE <<job.target.at, Open, job.target.name, Close>>

\* What stands in parentheses at the end of a label, at least one token and
\* no closing parenthesis, after the first opening one that will do (the
\* pattern is \(([^)]+)\)$); the whole label if there is nothing of the kind.
\* The host parseTarget finds too is only shown.
NameIn(label) ==
  LET end == Len(label)
      starts == {i \in 1 .. end - 2 :
                   /\ label[i] = Open /\ label[end] = Close
                   /\ \A k \in i + 1 .. end - 1 : label[k] # Close}
      first == CHOOSE i \in starts : \A k \in starts : i <= k
  IN  IF starts = {} THEN label ELSE SubSeq(label, first + 1, end - 1)

=============================================================================
