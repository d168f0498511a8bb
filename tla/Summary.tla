------------------------------ MODULE Summary ------------------------------
(***************************************************************************)
(* The result of one probe attempt and the summary of the attempts of one  *)
(* job: crates/prober_core/src/model.rs.                                   *)
(***************************************************************************)
EXTENDS Orders

CONSTANT NoRtt        \* the None of an Option<u128> round-trip time

\* What a probe hands back for one attempt; rtt may be measured by a failed
\* attempt too (an HTTP 500, a JSON-RPC error), or absent from it.
AttemptResult(Rtts) == [ok: BOOLEAN, rtt: Rtts \cup {NoRtt}]

Successes(attempts) == {i \in DOMAIN attempts : attempts[i].ok}

\* The attempts that have a time, by place, and their times.
Measured(attempts) == {i \in DOMAIN attempts : attempts[i].rtt # NoRtt}
RttOf(attempts) == [i \in Measured(attempts) |-> attempts[i].rtt]

\* Mutant: the sort is missing.
UnsortedRtts(attempts) ==
  LET order == SetToSeq(Measured(attempts))
  IN  [n \in DOMAIN order |-> RttOf(attempts)[order[n]]]

\* rtts.sort_unstable() over the rtt of every attempt that has one.
SortedRtts(attempts) ==
  LET order == Ascending(Measured(attempts), RttOf(attempts))
  IN  [n \in DOMAIN order |-> RttOf(attempts)[order[n]]]

SummarizeAttempts(attempts, minSuccesses) ==
  LET ok   == Cardinality(Successes(attempts))
      rtts == SortedRtts(attempts)
      none == rtts = <<>>
  IN  [success_count |-> ok,
       failure_count |-> Cardinality(DOMAIN attempts \ Successes(attempts)),
       min_rtt |-> IF none THEN NoRtt ELSE Head(rtts),
       avg_rtt |-> IF none THEN NoRtt
                   ELSE FoldSeq(+, 0, rtts) \div Len(rtts),
       max_rtt |-> IF none THEN NoRtt ELSE Last(rtts),
       ok      |-> ok >= minSuccesses]

=============================================================================
