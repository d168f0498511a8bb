--------------------------- MODULE FunctionProofs ---------------------------
(***************************************************************************)
(* Proofs about the pure functions, for any inputs of the kinds            *)
(* FunctionsAssumption names.                                              *)
(***************************************************************************)
EXTENDS PureFunctions, OperatorProofs

\* A behaviour stays at its input.
LEMMA StaysAtInput == Spec => []Init
<1>1. Init /\ [Done]_<<function, input>> => Init'
  BY DEF Init, Done
<1> QED
  BY <1>1, PTL DEF Spec

-----------------------------------------------------------------------------
\* The summary of attempts.

\* The sorted times: as many as there are measured attempts, each of them the
\* time of one, in ascending order, and their sum is the sum of the times.
Sorted(attempts, rtts) ==
  LET n == Cardinality(Measured(attempts))
  IN  /\ rtts \in [1 .. n -> Nat]
      /\ \A k \in 1 .. n : \E i \in Measured(attempts) : rtts[k] = attempts[i].rtt
      /\ \A i \in Measured(attempts) : \E k \in 1 .. n : rtts[k] = attempts[i].rtt
      /\ \A i, k \in 1 .. n : i <= k => rtts[i] <= rtts[k]
      /\ FoldSeq(+, 0, rtts) = SumFunction(RttOf(attempts)) /\ SumFunction(RttOf(attempts)) \in Int

LEMMA TimesAreSorted ==
  ASSUME NoRtt \notin Nat, NEW a \in Seq(AttemptResult(Nat))
  PROVE  /\ IsFiniteSet(Measured(a)) /\ Cardinality(Measured(a)) \in Nat
         /\ Sorted(a, SortedRtts(a))
<1> DEFINE M == Measured(a)
           n == Cardinality(M)
           key == RttOf(a)
           order == Ascending(M, key)
           rtts == [k \in 1 .. n |-> key[order[k]]]
<1>1. IsFiniteSet(M) /\ n \in Nat
  <2>1. M \subseteq 1 .. Len(a) /\ Len(a) \in Nat
    BY DEF Measured
  <2>2. IsFiniteSet(1 .. Len(a))
    BY <2>1, FS_Interval
  <2> QED
    BY <2>1, <2>2, FS_Subset, FS_CardinalityType
<1>2. \A i \in M : a[i].rtt \in Nat
  <2>1. \A i \in DOMAIN a : a[i].rtt \in Nat \cup {NoRtt}
    <3>1. \A i \in DOMAIN a : a[i] \in AttemptResult(Nat)
      BY SeqElements
    <3> QED
      BY <3>1 DEF AttemptResult
  <2> QED
    BY <2>1 DEF Measured
<1>3. key \in [M -> Nat] /\ \A i \in M : key[i] = a[i].rtt
  BY <1>2 DEF RttOf
<1> HIDE DEF M, key
<1>4. key \in [M -> Int]
  BY <1>3
<1>5. /\ order \in [1 .. n -> M] /\ IsInjective(order) /\ InOrder(order, key)
      /\ \A x \in M : \E i \in 1 .. n : order[i] = x
  BY <1>1, <1>4, AscendingSorts
<1> HIDE DEF order, n
<1>6. SortedRtts(a) = rtts
  BY <1>5 DEF SortedRtts, order, key, M, n
<1>7. rtts \in [1 .. n -> Nat]
  BY <1>3, <1>5
<1>8. \A i, k \in 1 .. n : i <= k => rtts[i] <= rtts[k]
  <2> TAKE i, k \in 1 .. n
  <2>1. i < k => key[order[i]] <= key[order[k]]
    BY <1>5 DEF InOrder
  <2>2. rtts[i] \in Nat /\ i \in Int /\ k \in Int
    BY <1>7, <1>1
  <2>3. i < k => rtts[i] <= rtts[k]
    BY <2>1
  <2>4. i = k => rtts[i] <= rtts[k]
    BY <2>2
  <2>5. i <= k => i < k \/ i = k
    BY <2>2
  <2> QED
    BY <2>3, <2>4, <2>5
<1>9. FoldSeq(+, 0, rtts) = SumFunction(key) /\ SumFunction(key) \in Int
  <2>1. DOMAIN rtts = 1 .. n /\ DOMAIN key = M /\ IsFiniteSet(1 .. n)
    BY <1>1, <1>3, FS_Interval
  <2>2. PICK along : Adds(along, rtts, 1 .. n) /\ FoldSeq(+, 0, rtts) = along[1 .. n]
    BY <2>1, FoldSeqAdds
  <2>3. PICK sum : Adds(sum, key, M) /\ SumFunction(key) = sum[M]
    BY <1>1, <2>1, SumAdds
  <2>4. along[1 .. n] = sum[M]
    <3>1. Adds(along, rtts, 1 .. n)
      BY <2>2
    <3>4. \A i \in 1 .. n : rtts[i] = key[order[i]]
      OBVIOUS
    <3>2. Enumerates(order, n, M)
      BY <1>5 DEF Enumerates
    <3>3. Adds(sum, key, M) /\ IsFiniteSet(M) /\ n \in Nat
      BY <1>1, <2>3
    <3> HIDE DEF rtts
    <3>5. rtts \in [1 .. n -> Int]
      BY <1>7
    <3> QED
      BY ONLY <1>4, <3>1, <3>2, <3>3, <3>4, <3>5, SumAlong
  <2>5. sum[M] \in Int
    <3>1. AnyOrder(sum, key, M)
      BY <1>1, <1>4, <2>3, AddsAny
    <3> QED
      BY <3>1 DEF AnyOrder
  <2> QED
    BY <2>2, <2>3, <2>4, <2>5
<1>10. (\A k \in 1 .. n : \E i \in M : rtts[k] = a[i].rtt)
  BY <1>3, <1>5
<1>11. \A i \in M : \E k \in 1 .. n : rtts[k] = a[i].rtt
  <2> TAKE i \in M
  <2>1. PICK k \in 1 .. n : order[k] = i
    BY <1>5
  <2>2. rtts[k] = a[i].rtt
    BY <2>1, <1>3
  <2> QED
    BY <2>2
<1> HIDE DEF rtts
<1>12. Sorted(a, rtts)
  BY <1>7, <1>8, <1>9, <1>10, <1>11 DEF Sorted, M, n, key
<1>13. IsFiniteSet(Measured(a)) /\ Cardinality(Measured(a)) \in Nat
  BY <1>1 DEF M, n
<1> QED
  BY <1>6, <1>12, <1>13

\* What division promises.
LEMMA Division ==
  ASSUME NEW t \in Int, NEW n \in Nat, n > 0
  PROVE  (t \div n) * n <= t /\ t < (t \div n + 1) * n
OBVIOUS

\* SummaryMatchesReference is true of every input.
IsSummary(s, a, m) ==
  /\ s.success_count = Cardinality({i \in DOMAIN a : a[i].ok})
  /\ s.failure_count = Cardinality({i \in DOMAIN a : ~a[i].ok})
  /\ s.success_count + s.failure_count = Len(a)
  /\ s.ok <=> Cardinality({i \in DOMAIN a : a[i].ok}) >= m
  /\ Measured(a) = {} => {s.min_rtt, s.avg_rtt, s.max_rtt} = {NoRtt}
  /\ Measured(a) # {} =>
       /\ \E i \in Measured(a) : s.min_rtt = RttOf(a)[i]
       /\ \E i \in Measured(a) : s.max_rtt = RttOf(a)[i]
       /\ \A i \in Measured(a) : s.min_rtt <= RttOf(a)[i] /\ RttOf(a)[i] <= s.max_rtt
       /\ s.avg_rtt * Cardinality(Measured(a)) <= SumFunction(RttOf(a))
       /\ SumFunction(RttOf(a)) < (s.avg_rtt + 1) * Cardinality(Measured(a))

LEMMA SummaryOfAny ==
  ASSUME NoRtt \notin Nat, NEW a \in Seq(AttemptResult(Nat)), NEW m \in Nat
  PROVE  IsSummary(SummarizeAttempts(a, m), a, m)
<1> DEFINE s == SummarizeAttempts(a, m)
           M == Measured(a)
           n == Cardinality(M)
           rtts == SortedRtts(a)
           total == SumFunction(RttOf(a))
<1>1. IsFiniteSet(M) /\ n \in Nat /\ Sorted(a, rtts)
  BY TimesAreSorted
<1>2. /\ rtts \in [1 .. n -> Nat]
      /\ \A k \in 1 .. n : \E i \in M : rtts[k] = a[i].rtt
      /\ \A i \in M : \E k \in 1 .. n : rtts[k] = a[i].rtt
      /\ \A i, k \in 1 .. n : i <= k => rtts[i] <= rtts[k]
      /\ FoldSeq(+, 0, rtts) = total /\ total \in Int
  BY <1>1 DEF Sorted
<1>3. n = 0 <=> M = {}
  BY <1>1, FS_EmptySet
<1>4. /\ s.success_count = Cardinality({i \in DOMAIN a : a[i].ok})
      /\ s.failure_count = Cardinality({i \in DOMAIN a : ~a[i].ok})
      /\ s.success_count + s.failure_count = Len(a)
  <2>1. Len(a) \in Nat /\ DOMAIN a = 1 .. Len(a) /\ IsFiniteSet(1 .. Len(a)) /\ Cardinality(1 .. Len(a)) = Len(a)
    <3>1. Len(a) \in Nat /\ DOMAIN a = 1 .. Len(a)
      OBVIOUS
    <3>2. \A k \in Nat : IsFiniteSet(1 .. k) /\ Cardinality(1 .. k) = k
      BY FS_Interval
    <3> QED
      BY <3>1, <3>2
  <2>2. Successes(a) \subseteq DOMAIN a
    BY DEF Successes
  <2>3. /\ Cardinality(Successes(a)) \in Nat
        /\ Cardinality(DOMAIN a \ Successes(a)) = Len(a) - Cardinality(Successes(a))
    <3>1. IsFiniteSet(Successes(a)) /\ Cardinality(Successes(a)) \in Nat
      BY <2>1, <2>2, FS_Subset, FS_CardinalityType
    <3>2. DOMAIN a \cap Successes(a) = Successes(a)
      BY <2>2
    <3>3. Cardinality(DOMAIN a \ Successes(a)) = Cardinality(DOMAIN a) - Cardinality(DOMAIN a \cap Successes(a))
      BY <2>1, FS_Difference
    <3> QED
      BY <2>1, <3>1, <3>2, <3>3
  <2>4. /\ s.success_count = Cardinality(Successes(a))
        /\ s.failure_count = Cardinality(DOMAIN a \ Successes(a))
    BY DEF SummarizeAttempts
  <2> DEFINE S == {i \in DOMAIN a : a[i].ok}
             F == {i \in DOMAIN a : ~a[i].ok}
  <2>5. Successes(a) = S /\ DOMAIN a \ Successes(a) = F
    BY DEF Successes
  <2> HIDE DEF s, S, F
  <2>6. s.success_count = Cardinality(S) /\ s.failure_count = Cardinality(F)
    BY <2>4, <2>5
  <2>7. s.success_count + s.failure_count = Len(a)
    BY <2>1, <2>3, <2>4
  <2> QED
    BY <2>6, <2>7 DEF S, F
<1>5. s.ok <=> Cardinality({i \in DOMAIN a : a[i].ok}) >= m
  BY DEF SummarizeAttempts, Successes
<1> HIDE DEF rtts, n, total
<1>6. ASSUME M = {} PROVE {s.min_rtt, s.avg_rtt, s.max_rtt} = {NoRtt}
  <2>1. rtts = [k \in 1 .. 0 |-> rtts[k]] /\ \A k \in 1 .. 0 : rtts[k] \in Nat
    BY <1>2, <1>3, <1>6
  <2>2. rtts = <<>>
    BY <2>1
  <2>3. s.min_rtt = NoRtt /\ s.avg_rtt = NoRtt /\ s.max_rtt = NoRtt
    BY <2>2 DEF SummarizeAttempts, rtts
  <2> QED
    BY <2>3
<1>7. ASSUME M # {}
      PROVE  /\ \E i \in M : s.min_rtt = a[i].rtt
             /\ \E i \in M : s.max_rtt = a[i].rtt
             /\ \A i \in M : s.min_rtt <= a[i].rtt /\ a[i].rtt <= s.max_rtt
             /\ s.avg_rtt * n <= total /\ total < (s.avg_rtt + 1) * n
  <2>1. n > 0 /\ 1 \in 1 .. n /\ n \in 1 .. n
    BY <1>1, <1>3, <1>7
  <2>2. rtts \in Seq(Nat) /\ Len(rtts) = n /\ rtts # <<>>
    <3>1. rtts = [k \in 1 .. n |-> rtts[k]] /\ \A k \in 1 .. n : rtts[k] \in Nat
      BY <1>2
    <3>2. rtts \in Seq(Nat) /\ Len(rtts) = n
      BY <3>1, <1>1, IsSequence
    <3> QED
      BY <3>2, <2>1
  <2>3. Head(rtts) = rtts[1] /\ Last(rtts) = rtts[n]
    BY <2>2 DEF Last
  <2>4. s.min_rtt = rtts[1] /\ s.max_rtt = rtts[n] /\ s.avg_rtt = total \div n
    BY <2>2, <2>3, <1>2 DEF SummarizeAttempts, rtts
  <2>5. \A i \in M : rtts[1] <= a[i].rtt /\ a[i].rtt <= rtts[n]
    <3> TAKE i \in M
    <3>1. PICK k \in 1 .. n : rtts[k] = a[i].rtt
      BY <1>2
    <3>2. 1 <= k /\ k <= n
      BY <1>1
    <3> QED
      BY <3>1, <3>2, <1>2, <2>1
  <2> QED
    BY <1>1, <1>2, <2>1, <2>4, <2>5, Division
<1>8. \A i \in M : a[i].rtt = RttOf(a)[i]
  BY DEF RttOf
<1> HIDE DEF s
<1>9. IsSummary(s, a, m)
  BY <1>4, <1>5, <1>6, <1>7, <1>8 DEF n, total, IsSummary
<1> QED
  BY <1>9 DEF s

LEMMA Summaries == Init => SummaryMatchesReference
<1> SUFFICES ASSUME Init, function = "summarize_attempts" PROVE SummaryMatchesReference
  BY DEF SummaryMatchesReference
<1>1. TimesAssumption
  BY FunctionsAssumption
<1>2. input \in Attempts
  BY DEF Init
<1>3. input \in Seq(AttemptResult(Nat)) /\ \A m \in Thresholds : m \in Nat
  BY <1>1, <1>2 DEF TimesAssumption
<1>4. Timed = Measured(input) /\ Rtt = RttOf(input)
  BY DEF Timed, Measured, Rtt, RttOf
<1>5. \A m \in Thresholds : IsSummary(SummarizeAttempts(input, m), input, m)
  BY <1>1, <1>3, SummaryOfAny DEF TimesAssumption
<1> QED
  BY <1>4, <1>5 DEF SummaryMatchesReference, IsSummary

\* summarize_attempts returns what its fields are named for, of any attempts
\* and for any min_successes.
THEOREM SummaryIsCorrect == Spec => []SummaryMatchesReference
BY StaysAtInput, Summaries, PTL

-----------------------------------------------------------------------------
\* The rows of the map.

\* What the endpoint takes the query for is what was selected.
LEMMA KindsAreSent ==
  ASSUME NEW s, s \in Seq(ToSet(s) \ {Comma, Blank})
  PROVE  KindsList(Query(s)) = ToSet(s)
<1> DEFINE q == Query(s)
           n == Len(s)
<1>1. n \in Nat /\ DOMAIN s = 1 .. n /\ \A i \in 1 .. n : s[i] \notin {Comma, Blank}
  <2>1. n \in Nat /\ DOMAIN s = 1 .. n
    OBVIOUS
  <2>2. \A i \in DOMAIN s : s[i] \in ToSet(s) \ {Comma, Blank}
    BY SeqElements
  <2> QED
    BY <2>1, <2>2
<1>2. ToSet(s) = {s[i] : i \in 1 .. n}
  BY <1>1 DEF ToSet
<1>3. q = [i \in 1 .. 2 * n - 1 |-> IF i % 2 = 1 THEN s[(i + 1) \div 2] ELSE Comma]
  BY DEF Query
<1> HIDE DEF q, n
<1>4. ToSet(q) = {q[i] : i \in 1 .. 2 * n - 1}
  BY <1>3 DEF ToSet
<1>5. ASSUME NEW i \in 1 .. 2 * n - 1, q[i] # Comma
      PROVE  q[i] \in ToSet(s)
  <2>1. q[i] = s[(i + 1) \div 2] /\ i % 2 = 1
    BY <1>3, <1>5
  <2>2. (i + 1) \div 2 \in 1 .. n
    <3>1. i \in Int /\ n \in Int /\ 1 <= i /\ i <= 2 * n - 1
      BY <1>1
    <3>2. \A j \in Int : 2 <= j /\ j <= 2 * n => j \div 2 \in Int /\ 1 <= j \div 2 /\ j \div 2 <= n
      BY <1>1
    <3> QED
      BY <3>1, <3>2
  <2> QED
    BY <2>1, <2>2, <1>2
<1>6. ASSUME NEW k \in 1 .. n
      PROVE  s[k] \in ToSet(q)
  <2>1. 2 * k - 1 \in 1 .. 2 * n - 1 /\ (2 * k - 1) % 2 = 1 /\ (2 * k - 1 + 1) \div 2 = k
    <3>1. k \in Int /\ n \in Int /\ 1 <= k /\ k <= n
      BY <1>1
    <3>2. 2 * k - 1 \in 1 .. 2 * n - 1
      BY <3>1
    <3>3. \A j \in Int : (2 * j - 1) % 2 = 1
      OBVIOUS
    <3>4. \A j \in Int : (2 * j - 1 + 1) \div 2 = j
      OBVIOUS
    <3> QED
      BY <3>1, <3>2, <3>3, <3>4
  <2>2. q[2 * k - 1] = s[k]
    BY <1>3, <2>1
  <2> QED
    BY <2>1, <2>2, <1>4
<1> QED
  BY <1>1, <1>2, <1>4, <1>5, <1>6 DEF KindsList, q

\* A row counts every matching run once.
LEMMA RunsCounted ==
  ASSUME NEW r, NEW kinds, r.runs \in Seq(ToSet(r.runs)),
         \A i \in DOMAIN r.runs : r.runs[i].ok \in BOOLEAN
  PROVE  /\ CountRuns(r, TRUE, kinds) = Cardinality({i \in Matching(r, kinds) : r.runs[i].ok})
         /\ CountRuns(r, TRUE, kinds) + CountRuns(r, FALSE, kinds) = Cardinality(Matching(r, kinds))
<1> DEFINE M == Matching(r, kinds)
           T == {i \in M : r.runs[i].ok}
<1>1. IsFiniteSet(M)
  <2>1. DOMAIN r.runs = 1 .. Len(r.runs) /\ Len(r.runs) \in Nat
    OBVIOUS
  <2>2. IsFiniteSet(1 .. Len(r.runs))
    BY <2>1, FS_Interval
  <2>3. M \in SUBSET (1 .. Len(r.runs))
    BY <2>1 DEF Matching
  <2> QED
    BY <2>2, <2>3, FS_Subset
<1>2. CountRuns(r, TRUE, kinds) = Cardinality(T)
  <2>1. {i \in DOMAIN r.runs : r.runs[i].ok = TRUE /\ (kinds # {} => r.runs[i].kind \in kinds)} = T
    BY DEF Matching
  <2> QED
    BY <2>1 DEF CountRuns
<1>3. CountRuns(r, FALSE, kinds) = Cardinality(M \ T)
  <2>1. {i \in DOMAIN r.runs : r.runs[i].ok = FALSE /\ (kinds # {} => r.runs[i].kind \in kinds)} = M \ T
    BY DEF Matching
  <2> QED
    BY <2>1 DEF CountRuns
<1>4. Cardinality(M) \in Nat /\ Cardinality(T) \in Nat /\ Cardinality(M \ T) = Cardinality(M) - Cardinality(T)
  <2>1. T \in SUBSET M /\ M \cap T = T
    OBVIOUS
  <2>2. IsFiniteSet(T)
    BY <1>1, <2>1, FS_Subset
  <2> HIDE DEF M, T
  <2>3. Cardinality(M \ T) = Cardinality(M) - Cardinality(M \cap T)
    BY <1>1, FS_Difference
  <2> QED
    BY <1>1, <2>1, <2>2, <2>3, FS_CardinalityType
<1> HIDE DEF M, T
<1>5. Cardinality(T) + Cardinality(M \ T) = Cardinality(M)
  BY <1>4
<1> QED
  BY <1>2, <1>3, <1>5 DEF M, T

Feature(r, kinds) ==
  [at |-> r.at, ok_count |-> CountRuns(r, TRUE, kinds), fail_count |-> CountRuns(r, FALSE, kinds),
   total |-> CountRuns(r, TRUE, kinds) + CountRuns(r, FALSE, kinds)]

\* A finite set of reports that arrived one after the other.
Arrived(reports) ==
  /\ IsFiniteSet(reports)
  /\ \A r \in reports : r.at \in Nat
  /\ \A r, q \in reports : r.at = q.at => r = q

\* newest has each of the reports that are due once, the latest first.
NewestFirst(newest, due) ==
  /\ Cardinality(due) \in Nat
  /\ Enumerates(newest, Cardinality(due), due)
  /\ \A i, k \in 1 .. Cardinality(due) : i < k => newest[i].at > newest[k].at

LEMMA ReportsAreSorted ==
  ASSUME NEW due, Arrived(due)
  PROVE  NewestFirst(Ascending(due, [r \in due |-> -r.at]), due)
<1> DEFINE key == [r \in due |-> -r.at]
           n == Cardinality(due)
           s == Ascending(due, key)
<1>1. key \in [due -> Int] /\ IsFiniteSet(due) /\ n \in Nat /\ \A r \in due : key[r] = -r.at /\ r.at \in Int
  BY FS_CardinalityType DEF Arrived
<1> HIDE DEF key
<1>2. s \in [1 .. n -> due] /\ IsInjective(s) /\ InOrder(s, key) /\ \A r \in due : \E i \in 1 .. n : s[i] = r
  BY <1>1, AscendingSorts
<1> HIDE DEF s, n
<1>3. ASSUME NEW i \in 1 .. n, NEW k \in 1 .. n, i < k
      PROVE  s[i].at > s[k].at
  <2>1. key[s[i]] <= key[s[k]]
    BY <1>2, <1>3 DEF InOrder
  <2>2. s[i] \in due /\ s[k] \in due /\ s[i] # s[k]
    <3>1. i # k
      BY <1>1, <1>3
    <3> QED
      BY <1>2, <3>1 DEF IsInjective
  <2>3. s[i].at # s[k].at
    BY <2>2 DEF Arrived
  <2> QED
    BY <1>1, <2>1, <2>2, <2>3
<1>4. Enumerates(s, n, due)
  BY <1>2 DEF Enumerates
<1>5. NewestFirst(s, due)
  BY <1>1, <1>3, <1>4 DEF NewestFirst, n
<1> QED
  BY <1>5 DEF s, key

\* What get_geo_reports returns: the first rows, up to the limit.
FirstRows(features, due, kinds) ==
  \E newest, shown :
    /\ NewestFirst(newest, due)
    /\ shown \in Nat /\ shown <= Cardinality(due) /\ shown <= Limit /\ shown \in {Cardinality(due), Limit}
    /\ features = [i \in 1 .. shown |-> Feature(newest[i], kinds)]

LEMMA FeaturesAreRows ==
  ASSUME Limit \in Nat, NEW reports, Arrived(reports), NEW selected, selected \in Seq(ToSet(selected) \ {Comma, Blank})
  PROVE  FirstRows(GetGeoReports(reports, selected), Due(reports, ToSet(selected)), ToSet(selected))
<1> DEFINE kinds == ToSet(selected)
           due == Due(reports, kinds)
           n == Cardinality(due)
           newest == Ascending(due, [r \in due |-> -r.at])
           shown == Min({n, Limit})
           rows == [i \in 1 .. shown |-> Row(newest[i], kinds)]
<1>1. KindsList(Query(selected)) = kinds
  BY KindsAreSent
<1> HIDE DEF kinds
<1>2. {r \in reports : /\ r.located = {"latitude", "longitude"}
                       /\ r.age <= 12
                       /\ kinds # {} => \E i \in DOMAIN r.runs : r.runs[i].kind \in kinds} = due
  BY DEF Due, Matching
<1>3. Arrived(due)
  <2>1. due \in SUBSET reports
    BY DEF Due
  <2> QED
    BY <2>1, FS_Subset DEF Arrived
<1> HIDE DEF due
<1>4. NewestFirst(newest, due)
  BY <1>3, ReportsAreSorted
<1>5. n \in Nat /\ Len(newest) = n
  <2>1. n \in Nat /\ newest \in [1 .. n -> due]
    BY <1>4 DEF NewestFirst, Enumerates
  <2>2. newest = [i \in 1 .. n |-> newest[i]] /\ \A i \in 1 .. n : newest[i] \in due
    BY <2>1
  <2> HIDE DEF newest, n
  <2> QED
    BY <2>1, <2>2, IsSequence
<1>6. FetchGeoReports(reports, kinds) = rows
  BY <1>2, <1>5 DEF FetchGeoReports
<1>7. shown \in Nat /\ shown <= n /\ shown <= Limit /\ shown \in {n, Limit}
  <2> HIDE DEF n
  <2>1. \E x \in {n, Limit} : \A y \in {n, Limit} : x <= y
    BY <1>5
  <2>2. shown \in {n, Limit} /\ \A y \in {n, Limit} : shown <= y
    BY <2>1 DEF Min
  <2> QED
    BY <1>5, <2>2
<1> HIDE DEF newest, shown
<1>8. GetGeoReports(reports, selected) = [i \in 1 .. shown |-> Feature(newest[i], kinds)]
  <2>1. DOMAIN rows = 1 .. shown
    OBVIOUS
  <2>2. \A i \in 1 .. shown :
          [at |-> rows[i].at, ok_count |-> rows[i].ok_count, fail_count |-> rows[i].fail_count,
           total |-> rows[i].ok_count + rows[i].fail_count] = Feature(newest[i], kinds)
    BY DEF Row, Feature
  <2> HIDE DEF rows
  <2>3. GetGeoReports(reports, selected) =
          [i \in DOMAIN rows |->
             [at |-> rows[i].at, ok_count |-> rows[i].ok_count, fail_count |-> rows[i].fail_count,
              total |-> rows[i].ok_count + rows[i].fail_count]]
    BY <1>1, <1>6 DEF GetGeoReports
  <2> QED
    BY <2>1, <2>2, <2>3
<1>9. FirstRows(GetGeoReports(reports, selected), due, kinds)
  BY <1>4, <1>7, <1>8 DEF FirstRows, n
<1> QED
  BY <1>9 DEF due, kinds

\* The first rows are those the map is to show.
LEMMA FirstRowsMatch ==
  ASSUME Limit \in Nat, NEW due, Arrived(due), NEW kinds, NEW features, FirstRows(features, due, kinds),
         \A r \in due : /\ r.runs \in Seq(ToSet(r.runs))
                       /\ \A i \in DOMAIN r.runs : r.runs[i].ok \in BOOLEAN
  PROVE  RowsMatch(features, due, kinds)
<1> DEFINE n == Cardinality(due)
<1>1. PICK s, shown :
        /\ NewestFirst(s, due)
        /\ shown \in Nat /\ shown <= n /\ shown <= Limit /\ shown \in {n, Limit}
        /\ features = [i \in 1 .. shown |-> Feature(s[i], kinds)]
  BY DEF FirstRows
<1>2. /\ n \in Nat /\ s \in [1 .. n -> due] /\ \A r \in due : \E i \in 1 .. n : s[i] = r
      /\ \A i, k \in 1 .. n : i < k => s[i].at > s[k].at
      /\ Enumerates(s, n, due)
  BY <1>1 DEF NewestFirst, Enumerates
<1> HIDE DEF n
<1>3. DOMAIN features = 1 .. shown /\ 1 .. shown \subseteq 1 .. n
  BY <1>1, <1>2
<1>4. \A i \in 1 .. shown : features[i] = Feature(s[i], kinds) /\ features[i].at = s[i].at
  BY <1>1 DEF Feature
<1>5. ToSet(features) = {features[i] : i \in 1 .. shown}
  BY <1>3 DEF ToSet
<1>6. \A i \in 1 .. n : s[i] \in due /\ s[i].at \in Int /\ i \in Int
  BY <1>2 DEF Arrived
<1>7. \A i, k \in 1 .. n : s[i].at = s[k].at => i = k
  <2> TAKE i, k \in 1 .. n
  <2>1. i < k => s[i].at > s[k].at
    BY <1>2
  <2>2. k < i => s[k].at > s[i].at
    BY <1>2
  <2> QED
    BY <1>6, <2>1, <2>2
<1>8. \A f \in ToSet(features) : \E r \in due : f.at = r.at
  BY <1>3, <1>4, <1>5, <1>6
<1>9. \A i, k \in DOMAIN features : i < k => features[i].at > features[k].at
  BY <1>2, <1>3, <1>4
<1>10. ASSUME NEW j \in 1 .. n
       PROVE  Cardinality({q \in due : q.at > s[j].at}) = j - 1
  <2> DEFINE later == {q \in due : q.at > s[j].at}
  <2>1. ASSUME NEW x
        PROVE  x \in later <=> \E k \in 1 .. j - 1 : s[k] = x
    <3>1. ASSUME NEW k \in 1 .. n PROVE s[k].at > s[j].at <=> k \in 1 .. j - 1
      <4>1. k < j => s[k].at > s[j].at
        BY <1>2
      <4>2. j < k => s[j].at > s[k].at
        BY <1>2
      <4> QED
        BY <1>6, <4>1, <4>2
    <3>2. 1 .. j - 1 \subseteq 1 .. n
      BY <1>2
    <3> QED
      BY <1>2, <1>6, <3>1, <3>2
  <2>2. j - 1 \in 0 .. n
    BY <1>2
  <2> DEFINE m == j - 1
  <2>3. n \in Nat /\ Enumerates(s, n, due) /\ m \in 0 .. n
    BY <1>2, <2>2
  <2>4. \A x : x \in later <=> \E k \in 1 .. m : s[k] = x
    BY <2>1
  <2> HIDE DEF later, m
  <2>5. Cardinality(later) = m
    BY ONLY <2>3, <2>4, CountFirst
  <2> QED
    BY <2>5 DEF later, m
<1>11. ASSUME NEW j \in 1 .. n, j - 1 >= Limit
       PROVE  {f \in ToSet(features) : f.at = s[j].at} = {}
  <2>1. j \notin 1 .. shown
    BY <1>1, <1>6, <1>11
  <2> QED
    BY <1>3, <1>4, <1>5, <1>7, <2>1
<1>12. ASSUME NEW j \in 1 .. n, ~(j - 1 >= Limit)
       PROVE  \E f \in {f \in ToSet(features) : f.at = s[j].at} :
                /\ {g \in ToSet(features) : g.at = s[j].at} = {f}
                /\ f.total = Cardinality(Matching(s[j], kinds))
                /\ f.ok_count = Cardinality({i \in Matching(s[j], kinds) : s[j].runs[i].ok})
                /\ f.total = f.ok_count + f.fail_count
  <2>1. j \in 1 .. shown
    BY <1>1, <1>2, <1>6, <1>12
  <2>2. features[j] \in ToSet(features) /\ features[j].at = s[j].at
    BY <1>4, <1>5, <2>1
  <2>3. {g \in ToSet(features) : g.at = s[j].at} = {features[j]}
    BY <1>3, <1>4, <1>5, <1>7, <2>1, <2>2
  <2>4. /\ CountRuns(s[j], TRUE, kinds) = Cardinality({i \in Matching(s[j], kinds) : s[j].runs[i].ok})
        /\ CountRuns(s[j], TRUE, kinds) + CountRuns(s[j], FALSE, kinds) = Cardinality(Matching(s[j], kinds))
    BY <1>6, RunsCounted
  <2>5. /\ features[j].ok_count = CountRuns(s[j], TRUE, kinds)
        /\ features[j].fail_count = CountRuns(s[j], FALSE, kinds)
        /\ features[j].total = CountRuns(s[j], TRUE, kinds) + CountRuns(s[j], FALSE, kinds)
    <3>1. features[j] = Feature(s[j], kinds)
      BY <1>4, <2>1
    <3> QED
      BY <3>1 DEF Feature
  <2> QED
    BY <2>2, <2>3, <2>4, <2>5
<1>13. ASSUME NEW r \in due
       PROVE  IF Cardinality({q \in due : q.at > r.at}) >= Limit THEN {f \in ToSet(features) : f.at = r.at} = {}
              ELSE \E f \in {f \in ToSet(features) : f.at = r.at} :
                     /\ {g \in ToSet(features) : g.at = r.at} = {f}
                     /\ f.total = Cardinality(Matching(r, kinds))
                     /\ f.ok_count = Cardinality({i \in Matching(r, kinds) : r.runs[i].ok})
                     /\ f.total = f.ok_count + f.fail_count
  <2>1. PICK j \in 1 .. n : s[j] = r
    BY <1>2
  <2>2. CASE j - 1 >= Limit
    <3>1. {f \in ToSet(features) : f.at = r.at} = {}
      BY <1>11, <2>1, <2>2
    <3> QED
      BY <1>10, <2>1, <2>2, <3>1
  <2>3. CASE ~(j - 1 >= Limit)
    <3>1. ~(Cardinality({q \in due : q.at > r.at}) >= Limit)
      BY <1>10, <2>1, <2>3
    <3> QED
      BY <1>12, <2>1, <2>3, <3>1
  <2> QED
    BY <2>2, <2>3
<1> QED
  BY <1>8, <1>9, <1>13 DEF RowsMatch

LEMMA GeoRows == Init => GeoRowsMatch
<1> SUFFICES ASSUME Init, function = "geo_reports" PROVE GeoRowsMatch
  BY DEF GeoRowsMatch
<1>1. ReportsAssumption
  BY FunctionsAssumption
<1>2. PICK r \in Stored, o \in SUBSET Others, s \in Selections : input = <<r, o, s>>
  BY DEF Init
<1> DEFINE reports == {r} \cup o
           kinds == ToSet(s)
           due == Due(reports, kinds)
<1>3. Arrived(reports)
  <2>1. IsFiniteSet(o)
    BY <1>1, FS_Subset DEF ReportsAssumption
  <2>2. IsFiniteSet(reports)
    <3>1. reports = o \cup {r}
      OBVIOUS
    <3> QED
      BY <2>1, <3>1, FS_AddElement
  <2>3. \A p \in reports : p.at \in Nat
    BY <1>1 DEF ReportsAssumption
  <2>4. \A p, q \in reports : p.at = q.at => p = q
    BY <1>1 DEF ReportsAssumption
  <2> QED
    BY <2>2, <2>3, <2>4 DEF Arrived
<1>4. \A p \in reports : /\ p.runs \in Seq(ToSet(p.runs))
                         /\ \A i \in DOMAIN p.runs : p.runs[i].ok \in BOOLEAN
  BY <1>1 DEF ReportsAssumption
<1>5. Limit \in Nat /\ s \in Seq(ToSet(s) \ {Comma, Blank})
  BY <1>1 DEF ReportsAssumption
<1> HIDE DEF reports
<1>6. FirstRows(GetGeoReports(reports, s), due, kinds)
  BY <1>3, <1>5, FeaturesAreRows
<1>7. Arrived(due) /\ due \subseteq reports
  <2>1. due \in SUBSET reports
    BY DEF Due
  <2> QED
    BY <1>3, <2>1, FS_Subset DEF Arrived
<1> HIDE DEF due, kinds
<1>8. RowsMatch(GetGeoReports(reports, s), due, kinds)
  BY <1>4, <1>5, <1>6, <1>7, FirstRowsMatch
<1>9. input[1] = r /\ input[2] = o /\ input[3] = s
  BY <1>2
<1>10. RowsMatch(GetGeoReports(reports, s), Due(reports, ToSet(s)), ToSet(s)) /\ reports = {r} \cup o
  BY <1>8 DEF due, kinds, reports
<1> HIDE DEF reports
<1> QED
  BY <1>9, <1>10 DEF GeoRowsMatch

\* The map shows the rows that the docstring of fetch_geo_reports names, the
\* latest first, of any reports and for any selection.
THEOREM GeoRowsAreRight == Spec => []GeoRowsMatch
BY StaysAtInput, GeoRows, PTL

-----------------------------------------------------------------------------
\* Numbers and their bytes.

\* value is what Number computes, byte by byte.
Value(bytes, value) ==
  value = [k \in 0 .. Len(bytes) |-> IF k = 0 THEN 0 ELSE 256 * value[k - 1] + bytes[k]]

\* A number of up to four bytes, written out.
LEMMA NumberOfFour ==
  ASSUME NEW bytes \in Seq(Int), Len(bytes) <= 4
  PROVE  /\ Len(bytes) = 0 => Number(bytes) = 0
         /\ Len(bytes) = 1 => Number(bytes) = bytes[1]
         /\ Len(bytes) = 2 => Number(bytes) = 256 * bytes[1] + bytes[2]
         /\ Len(bytes) = 3 => Number(bytes) = 256 * (256 * bytes[1] + bytes[2]) + bytes[3]
         /\ Len(bytes) = 4 => Number(bytes) = 256 * (256 * (256 * bytes[1] + bytes[2]) + bytes[3]) + bytes[4]
<1> DEFINE n == Len(bytes)
           V0 == 0
           V1 == 256 * V0 + bytes[1]
           V2 == 256 * V1 + bytes[2]
           V3 == 256 * V2 + bytes[3]
           V4 == 256 * V3 + bytes[4]
           v == [k \in 0 .. n |-> IF k = 0 THEN V0 ELSE IF k = 1 THEN V1 ELSE IF k = 2 THEN V2 ELSE IF k = 3 THEN V3 ELSE V4]
<1>1. n \in Nat /\ n <= 4 /\ \A k \in 1 .. n : bytes[k] \in Int
  OBVIOUS
<1>2. Value(bytes, v)
  <2>1. \A k \in 0 .. n : k \in {0, 1, 2, 3, 4}
    BY <1>1
  <2>2. \A k \in 0 .. n : v[k] = IF k = 0 THEN 0 ELSE 256 * v[k - 1] + bytes[k]
    <3> TAKE k \in 0 .. n
    <3> HIDE DEF V0, V1, V2, V3, V4, n
    <3>0. v[0] = V0
      BY <1>1
    <3>1. k = 1 => v[k] = V1 /\ v[k - 1] = V0
      BY <1>1
    <3>2. k = 2 => v[k] = V2 /\ v[k - 1] = V1
      BY <1>1
    <3>3. k = 3 => v[k] = V3 /\ v[k - 1] = V2
      BY <1>1
    <3>4. k = 4 => v[k] = V4 /\ v[k - 1] = V3
      BY <1>1
    <3> HIDE DEF v
    <3> QED
      BY <2>1, <3>0, <3>1, <3>2, <3>3, <3>4 DEF V0, V1, V2, V3, V4
  <2> QED
    BY <2>2 DEF Value
<1> HIDE DEF v
<1>3. \E value : Value(bytes, value)
  BY <1>2
<1> DEFINE value == CHOOSE value : Value(bytes, value)
<1>4. Value(bytes, value)
  BY <1>3
<1>5. Number(bytes) = value[n]
  BY DEF Number, Value
<1>6. \A k \in 0 .. n : value[k] = IF k = 0 THEN 0 ELSE 256 * value[k - 1] + bytes[k]
  BY <1>4 DEF Value
<1> HIDE DEF value, n
<1>7. value[0] = 0
  BY <1>1, <1>6
<1>8. n >= 1 => value[1] = bytes[1] /\ bytes[1] \in Int
  <2>1. n >= 1 => value[1] = 256 * value[0] + bytes[1]
    BY <1>1, <1>6
  <2> QED
    BY <1>1, <1>7, <2>1
<1>9. n >= 2 => value[2] = 256 * bytes[1] + bytes[2] /\ bytes[2] \in Int
  <2>1. n >= 2 => value[2] = 256 * value[1] + bytes[2]
    BY <1>1, <1>6
  <2> QED
    BY <1>1, <1>8, <2>1
<1>10. n >= 3 => value[3] = 256 * (256 * bytes[1] + bytes[2]) + bytes[3] /\ bytes[3] \in Int
  <2>1. n >= 3 => value[3] = 256 * value[2] + bytes[3]
    BY <1>1, <1>6
  <2> QED
    BY <1>1, <1>8, <1>9, <2>1
<1>11. ASSUME n >= 4
       PROVE  value[4] = 256 * (256 * (256 * bytes[1] + bytes[2]) + bytes[3]) + bytes[4]
  <2>1. value[4] = 256 * value[3] + bytes[4]
    BY <1>1, <1>6, <1>11
  <2>2. value[3] = 256 * (256 * bytes[1] + bytes[2]) + bytes[3]
    BY <1>1, <1>10, <1>11, SMT
  <2>3. bytes[1] \in Int /\ bytes[2] \in Int /\ bytes[3] \in Int /\ bytes[4] \in Int
    BY <1>1, <1>11
  <2> QED
    BY ONLY <2>1, <2>2
<1>12. /\ n = 0 => value[n] = 0
       /\ n = 1 => value[n] = bytes[1]
       /\ n = 2 => value[n] = 256 * bytes[1] + bytes[2]
       /\ n = 3 => value[n] = 256 * (256 * bytes[1] + bytes[2]) + bytes[3]
       /\ n = 4 => value[n] = 256 * (256 * (256 * bytes[1] + bytes[2]) + bytes[3]) + bytes[4]
  BY <1>7, <1>8, <1>9, <1>10, <1>11, SMT
<1> QED
  BY <1>5, <1>12, SMT DEF n

\* The form in which leaves use what a byte is.
LEMMA Bytes == \A x : x \in Byte <=> x \in Nat /\ x < 256
BY DEF Byte

\* The number of a big-endian sequence of four.
Horner(b) ==
  /\ Len(b) = 0 => Number(b) = 0
  /\ Len(b) = 1 => Number(b) = b[1]
  /\ Len(b) = 2 => Number(b) = 256 * b[1] + b[2]
  /\ Len(b) = 3 => Number(b) = 256 * (256 * b[1] + b[2]) + b[3]
  /\ Len(b) = 4 => Number(b) = 256 * (256 * (256 * b[1] + b[2]) + b[3]) + b[4]

\* The four bytes of a number give it back.
LEMMA ByteNumber ==
  ASSUME NEW b \in Seq(Byte), Len(b) <= 4
  PROVE  Horner(b)
<1>1. b \in Seq(Int)
  BY Bytes, SeqMonotone
<1> QED
  BY <1>1, NumberOfFour DEF Horner

\* The bytes of a number are its value, the first is not 0, and there are
\* more the greater it is.
BytesOf(b, n) ==
  /\ b \in Seq(Byte) /\ Len(b) >= 1 /\ Len(b) <= 4 /\ Number(b) = n
  /\ n > 0 => b[1] # 0
  /\ n < 256 => Len(b) = 1 /\ b[1] = n

\* be_bytes_minimal: the bytes of a number, without a leading zero.
LEMMA BigEndian ==
  ASSUME NEW n \in Nat, n <= MaxNumber
  PROVE  BytesOf(BeBytesMinimal(n), n)
<1> DEFINE b5 == n \div 16777216
           b6 == (n \div 65536) % 256
           b7 == (n \div 256) % 256
           b8 == n % 256
           b == ToBeBytes(n)
           I == {i \in 1 .. Len(b) : b[i] # 0}
           start == SelectInSeq(b, LAMBDA x : x # 0)
<1>1. b = <<0, 0, 0, 0, b5, b6, b7, b8>>
  BY DEF ToBeBytes
<1>2. /\ b5 \in Byte /\ b6 \in Byte /\ b7 \in Byte /\ b8 \in Byte
      /\ n = 256 * (256 * (256 * b5 + b6) + b7) + b8
  <2>1. n \in Int /\ 0 <= n /\ n <= 2147483647
    BY SMT DEF MaxNumber
  <2>2. b5 \in Int /\ 0 <= b5 /\ b5 <= 127
    BY <2>1, SMT
  <2>3. \A m \in Int : m % 256 \in Int /\ 0 <= m % 256 /\ m % 256 <= 255
    BY SMT
  <2>4. n \div 65536 \in Int /\ n \div 256 \in Int
    BY <2>1, SMT
  <2>5. n = 256 * (n \div 256) + (n % 256)
    BY <2>1, SMT
  <2>6. n \div 256 = 256 * (n \div 65536) + ((n \div 256) % 256)
    BY <2>1, SMT
  <2>7. n \div 65536 = 256 * (n \div 16777216) + ((n \div 65536) % 256)
    BY <2>1, SMT
  <2> QED
    BY <2>1, <2>2, <2>3, <2>4, <2>5, <2>6, <2>7, Bytes, SMT
<1>3. start = IF I # {} THEN Min(I) ELSE 0
  BY DEF SelectInSeq
<1> HIDE DEF b5, b6, b7, b8
<1>4. Len(b) = 8
  BY <1>1
<1> HIDE DEF b
<1>5. I = {i \in 5 .. 8 : b[i] # 0}
  BY <1>1, <1>4
<1>6. I # {} => start \in I /\ \A i \in I : start <= i
  <2>1. I # {} => \E m \in I : \A i \in I : m <= i
    <3>1. I \in SUBSET Nat
      BY <1>4
    <3> QED
      BY <3>1, Smallest
  <2> HIDE DEF I
  <2> QED
    BY <1>3, <2>1 DEF Min
<1> HIDE DEF start
<1>7. BeBytesMinimal(n) = SubSeq(b, IF start = 0 THEN 8 ELSE start, 8)
  BY DEF BeBytesMinimal, start, b
<1>12. b \in Seq(Byte)
  <2>1. 0 \in Byte
    BY Bytes
  <2> QED
    BY <1>1, <1>2, <2>1
<1>13. \A i \in 5 .. 8 : \E q : /\ q = SubSeq(b, i, 8) /\ q \in Seq(Byte) /\ Len(q) = 9 - i
                               /\ \A k \in 1 .. 9 - i : q[k] = b[i + k - 1]
  <2> TAKE i \in 5 .. 8
  <2>1. i \in Int /\ 8 \in Int /\ 1 <= i /\ 8 <= Len(b) /\ i <= 8 + 1 /\ 8 - i + 1 = 9 - i
    BY <1>4
  <2> DEFINE j == 8
             q == SubSeq(b, i, j)
  <2>2. j \in Int /\ j <= Len(b) /\ i <= j + 1
    BY <2>1
  <2> HIDE DEF j
  <2>3. q \in Seq(Byte) /\ Len(q) = j - i + 1 /\ \A k \in 1 .. j - i + 1 : q[k] = b[i + k - 1]
    BY <1>12, <2>1, <2>2, SubSeqPlaces
  <2> HIDE DEF q
  <2>4. q = SubSeq(b, i, j) /\ j - i + 1 = 9 - i
    BY <2>1 DEF q, j
  <2> QED
    BY <2>3, <2>4 DEF j
<1>8. CASE b5 # 0
  <2>1. 5 \in I
    BY <1>1, <1>5, <1>8
  <2>2. start = 5
    BY <1>5, <1>6, <2>1
  <2>3. BeBytesMinimal(n) = SubSeq(b, 5, 8)
    BY <1>7, <2>2
  <2>4. PICK q \in Seq(Byte) : /\ BeBytesMinimal(n) = q /\ Len(q) = 4
                              /\ \A k \in 1 .. 4 : q[k] = b[5 + k - 1]
    BY <1>13, <2>3
  <2>5. q[1] = b5 /\ q[2] = b6 /\ q[3] = b7 /\ q[4] = b8
    <3>1. q[1] = b[5] /\ q[2] = b[6] /\ q[3] = b[7] /\ q[4] = b[8]
      BY <2>4
    <3> QED
      BY <3>1, <1>1
  <2>6. Number(q) = 256 * (256 * (256 * b5 + b6) + b7) + b8
    <3>0. Len(q) <= 4
      BY <2>4
    <3>1. Horner(q)
      BY <3>0, ByteNumber
    <3> QED
      BY <2>4, <2>5, <3>1 DEF Horner
  <2>7. n = 256 * (256 * (256 * b5 + b6) + b7) + b8
    BY <1>2, <1>8, Bytes, SMT
  <2>8. b5 > 0 /\ n >= 256
    BY <1>2, <1>8, <2>7, Bytes, SMT
  <2>9. BytesOf(q, n)
    BY <2>4, <2>5, <2>6, <2>7, <2>8, SMT DEF BytesOf
  <2> QED
    BY <2>4, <2>9
<1>9. CASE b5 = 0 /\ b6 # 0
  <2>1. 6 \in I /\ 5 \notin I
    BY <1>1, <1>5, <1>9
  <2>2. start = 6
    BY <1>5, <1>6, <2>1
  <2>3. BeBytesMinimal(n) = SubSeq(b, 6, 8)
    BY <1>7, <2>2
  <2>4. PICK q \in Seq(Byte) : /\ BeBytesMinimal(n) = q /\ Len(q) = 3
                              /\ \A k \in 1 .. 3 : q[k] = b[6 + k - 1]
    BY <1>13, <2>3
  <2>5. q[1] = b6 /\ q[2] = b7 /\ q[3] = b8
    <3>1. q[1] = b[6] /\ q[2] = b[7] /\ q[3] = b[8]
      BY <2>4
    <3> QED
      BY <3>1, <1>1
  <2>6. Number(q) = 256 * (256 * b6 + b7) + b8
    <3>0. Len(q) <= 4
      BY <2>4
    <3>1. Horner(q)
      BY <3>0, ByteNumber
    <3> QED
      BY <2>4, <2>5, <3>1 DEF Horner
  <2>7. n = 256 * (256 * b6 + b7) + b8
    BY <1>2, <1>9, Bytes, SMT
  <2>8. b6 > 0 /\ n >= 256
    BY <1>2, <1>9, <2>7, Bytes, SMT
  <2>9. BytesOf(q, n)
    BY <2>4, <2>5, <2>6, <2>7, <2>8, SMT DEF BytesOf
  <2> QED
    BY <2>4, <2>9
<1>10. CASE b5 = 0 /\ b6 = 0 /\ b7 # 0
  <2>1. 7 \in I /\ 5 \notin I /\ 6 \notin I
    BY <1>1, <1>5, <1>10
  <2>2. start = 7
    BY <1>5, <1>6, <2>1
  <2>3. BeBytesMinimal(n) = SubSeq(b, 7, 8)
    BY <1>7, <2>2
  <2>4. PICK q \in Seq(Byte) : /\ BeBytesMinimal(n) = q /\ Len(q) = 2
                              /\ \A k \in 1 .. 2 : q[k] = b[7 + k - 1]
    BY <1>13, <2>3
  <2>5. q[1] = b7 /\ q[2] = b8
    <3>1. q[1] = b[7] /\ q[2] = b[8]
      BY <2>4
    <3> QED
      BY <3>1, <1>1
  <2>6. Number(q) = 256 * b7 + b8
    <3>0. Len(q) <= 4
      BY <2>4
    <3>1. Horner(q)
      BY <3>0, ByteNumber
    <3> QED
      BY <2>4, <2>5, <3>1 DEF Horner
  <2>7. n = 256 * b7 + b8
    BY <1>2, <1>10, Bytes, SMT
  <2>8. b7 > 0 /\ n >= 256
    BY <1>2, <1>10, <2>7, Bytes, SMT
  <2>9. BytesOf(q, n)
    BY <2>4, <2>5, <2>6, <2>7, <2>8, SMT DEF BytesOf
  <2> QED
    BY <2>4, <2>9
<1>11. CASE b5 = 0 /\ b6 = 0 /\ b7 = 0
  <2>1. 5 \notin I /\ 6 \notin I /\ 7 \notin I /\ (I = {} => start = 0)
    BY <1>1, <1>3, <1>5, <1>11
  <2>2. start \in {0, 8}
    BY <1>5, <1>6, <2>1
  <2>3. BeBytesMinimal(n) = SubSeq(b, 8, 8)
    BY <1>7, <2>2
  <2>4. PICK q \in Seq(Byte) : /\ BeBytesMinimal(n) = q /\ Len(q) = 1
                              /\ \A k \in 1 .. 1 : q[k] = b[8 + k - 1]
    BY <1>13, <2>3
  <2>5. q[1] = b8
    <3>1. q[1] = b[8]
      BY <2>4
    <3> QED
      BY <3>1, <1>1
  <2>6. Number(q) = b8
    <3>0. Len(q) <= 4
      BY <2>4
    <3>1. Horner(q)
      BY <3>0, ByteNumber
    <3> QED
      BY <2>4, <2>5, <3>1 DEF Horner
  <2>7. n = b8
    BY <1>2, <1>11, Bytes, SMT
  <2>8. n > 0 => b8 > 0
    BY <1>2, <1>11, <2>7, Bytes, SMT
  <2>9. BytesOf(q, n)
    BY <2>4, <2>5, <2>6, <2>7, <2>8, SMT DEF BytesOf
  <2> QED
    BY <2>4, <2>9
<1> QED
  BY <1>8, <1>9, <1>10, <1>11

-----------------------------------------------------------------------------
\* The encodings of rlp.rs.

\* e is the encoding of p in one of its three forms: a byte for itself, a
\* prefix that holds the length, or one that holds the length of the length.
Lead(list) == IF list THEN 192 ELSE 128

Lone(list, p) == ~list /\ Len(p) = 1 /\ p[1] < 128

ShortForm(e, list, p) ==
  /\ Len(p) <= 55 /\ ~Lone(list, p)
  /\ Len(e) = 1 + Len(p) /\ e[1] = Lead(list) + Len(p)
  /\ \A k \in 1 .. Len(p) : e[1 + k] = p[k]

LongForm(e, list, p, q) ==
  /\ Len(p) > 55 /\ BytesOf(q, Len(p))
  /\ Len(e) = 1 + Len(q) + Len(p) /\ e[1] = Lead(list) + 55 + Len(q)
  /\ \A k \in 1 .. Len(q) : e[1 + k] = q[k]
  /\ \A k \in 1 .. Len(p) : e[1 + Len(q) + k] = p[k]

Encodes(e, list, p) ==
  /\ e \in Seq(Byte) /\ p \in Seq(Byte) /\ list \in BOOLEAN /\ Len(e) <= Len(p) + 5
  /\ \/ Lone(list, p) /\ e = p
     \/ ShortForm(e, list, p)
     \/ \E q : LongForm(e, list, p, q)

\* The prefix of a payload that does not stand for itself.
LEMMA PrefixedEncodes ==
  ASSUME NEW p \in Seq(Byte), Len(p) <= MaxNumber, NEW list \in BOOLEAN, ~Lone(list, p),
         NEW short, short = Lead(list), NEW long, long = Lead(list) + 55
  PROVE  Encodes(Prefixed(p, short, long), list, p)
<1>0. Len(p) \in Nat /\ Lead(list) \in {128, 192}
  BY DEF Lead
<1>1. CASE Len(p) <= 55
  <2> DEFINE head == <<short + Len(p)>>
             e == head \o p
  <2>1. short + Len(p) \in Byte
    BY <1>0, <1>1, Bytes
  <2>2. head \in Seq(Byte) /\ Len(head) = 1 /\ head[1] = short + Len(p)
    BY <2>1
  <2> HIDE DEF head
  <2>3. e \in Seq(Byte) /\ SideBySide(e, head, p)
    BY <2>2, ConcatPlaces
  <2>4. Prefixed(p, short, long) = e
    BY <1>1 DEF Prefixed, head
  <2> HIDE DEF e
  <2>5. Len(e) = 1 + Len(p) /\ e[1] = short + Len(p) /\ \A k \in 1 .. Len(p) : e[1 + k] = p[k]
    BY <2>2, <2>3 DEF SideBySide
  <2>6. Encodes(e, list, p)
    BY <1>0, <1>1, <2>3, <2>5 DEF Encodes, ShortForm
  <2> QED
    BY <2>4, <2>6
<1>2. CASE Len(p) > 55
  <2> DEFINE q == BeBytesMinimal(Len(p))
             head == <<long + Len(q)>>
             u == head \o q
             e == u \o p
  <2>0. BytesOf(q, Len(p))
    BY <1>0, BigEndian
  <2>4. Prefixed(p, short, long) = e
    BY <1>0, <1>2 DEF Prefixed
  <2> HIDE DEF q
  <2>1. q \in Seq(Byte) /\ Len(q) \in Nat /\ Len(q) >= 1 /\ Len(q) <= 4
    BY <2>0 DEF BytesOf
  <2>2. long + Len(q) \in Byte
    <3>1. long \in Nat /\ long <= 247
      BY <1>0
    <3> DEFINE c == long + Len(q)
    <3>2. c \in Nat /\ c < 256
      BY <2>1, <3>1
    <3> HIDE DEF c
    <3>3. c \in Byte
      BY <3>2, Bytes
    <3> QED
      BY <3>3 DEF c
  <2>3. head \in Seq(Byte) /\ Len(head) = 1 /\ head[1] = long + Len(q)
    BY <2>2
  <2> HIDE DEF head
  <2>5. u \in Seq(Byte) /\ SideBySide(u, head, q)
    BY <2>1, <2>3, ConcatPlaces
  <2> HIDE DEF u
  <2>6. e \in Seq(Byte) /\ SideBySide(e, u, p)
    BY <2>5, ConcatPlaces
  <2> HIDE DEF e
  <2>7. Len(u) = 1 + Len(q) /\ u[1] = long + Len(q) /\ \A k \in 1 .. Len(q) : u[1 + k] = q[k]
    BY <2>3, <2>5 DEF SideBySide
  <2>8. /\ Len(e) = 1 + Len(q) + Len(p)
        /\ \A k \in 1 .. 1 + Len(q) : e[k] = u[k]
        /\ \A k \in 1 .. Len(p) : e[1 + Len(q) + k] = p[k]
    BY <2>6, <2>7 DEF SideBySide
  <2>9. e[1] = long + Len(q) /\ \A k \in 1 .. Len(q) : e[1 + k] = q[k]
    BY <2>1, <2>7, <2>8
  <2>10. LongForm(e, list, p, q)
    BY <1>0, <1>2, <2>0, <2>8, <2>9, <2>1 DEF LongForm
  <2>11. Encodes(e, list, p)
    <3>1. Len(e) <= Len(p) + 5
      BY <1>0, <2>1, <2>8
    <3>2. \E r : LongForm(e, list, p, r)
      BY <2>10
    <3> QED
      BY <2>6, <3>1, <3>2 DEF Encodes
  <2> QED
    BY <2>4, <2>11
<1> QED
  BY <1>0, <1>1, <1>2

\* rlp_bytes, rlp_uint and rlp_list.
LEMMA RlpBytesEncodes ==
  ASSUME NEW p \in Seq(Byte), Len(p) <= MaxNumber
  PROVE  Encodes(RlpBytes(p), FALSE, p)
<1>1. CASE Len(p) = 1 /\ p[1] < 128
  <2>1. RlpBytes(p) = p
    BY <1>1 DEF RlpBytes
  <2>2. Len(p) <= Len(p) + 5 /\ Lone(FALSE, p)
    BY <1>1 DEF Lone
  <2> QED
    BY <2>1, <2>2 DEF Encodes
<1>2. CASE ~(Len(p) = 1 /\ p[1] < 128)
  <2> DEFINE short == 128
             long == 183
  <2>1. short = Lead(FALSE) /\ long = Lead(FALSE) + 55 /\ ~Lone(FALSE, p)
    BY <1>2 DEF Lead, Lone
  <2>2. RlpBytes(p) = Prefixed(p, short, long)
    BY <1>2 DEF RlpBytes
  <2> HIDE DEF short, long
  <2> QED
    BY <2>1, <2>2, PrefixedEncodes
<1> QED
  BY <1>1, <1>2

\* The bytes a number is encoded as.
UintBytes(n) == IF n = 0 THEN <<>> ELSE BeBytesMinimal(n)

LEMMA RlpUintEncodes ==
  ASSUME NEW n \in Nat, n <= MaxNumber
  PROVE  /\ Encodes(RlpUint(n), FALSE, UintBytes(n)) /\ Len(UintBytes(n)) <= 4
         /\ Canonical(n, Str(UintBytes(n)))
<1>1. CASE n = 0
  <2> DEFINE p == UintBytes(n)
             e == RlpUint(n)
  <2>1. p \in Seq(Byte) /\ Len(p) = 0 /\ p = <<>>
    BY <1>1 DEF UintBytes
  <2>2. e = <<128>> /\ e \in Seq(Byte) /\ Len(e) = 1 /\ e[1] = 128
    <3>1. 128 \in Byte
      BY Bytes
    <3> QED
      BY <1>1, <3>1 DEF RlpUint
  <2> HIDE DEF p, e
  <2>3. Encodes(e, FALSE, p)
    BY <2>1, <2>2 DEF Encodes, ShortForm, Lead, Lone
  <2>4. Canonical(0, Str(p))
    <3>0. Len(p) <= 4
      BY <2>1
    <3>1. Number(p) = 0
      BY <2>1, <3>0, ByteNumber DEF Horner
    <3> QED
      BY <2>1, <3>1 DEF Canonical, Str
  <2> QED
    <3>1. Len(p) <= 4
      BY <2>1
    <3> QED
      BY <1>1, <2>3, <2>4, <3>1 DEF p, e
<1>2. CASE n # 0
  <2> DEFINE p == BeBytesMinimal(n)
  <2>1. BytesOf(p, n) /\ UintBytes(n) = p /\ RlpUint(n) = RlpBytes(p)
    BY <1>2, BigEndian DEF UintBytes, RlpUint
  <2> HIDE DEF p
  <2>2. p \in Seq(Byte) /\ Len(p) \in Nat /\ Len(p) >= 1 /\ Len(p) <= 4 /\ Number(p) = n /\ p[1] # 0
    <3>1. n > 0
      BY <1>2
    <3> QED
      BY <2>1, <3>1 DEF BytesOf
  <2>3. Len(p) <= MaxNumber /\ Len(p) <= 4
    BY <2>2, SMT DEF MaxNumber
  <2>4. Encodes(RlpBytes(p), FALSE, p)
    BY <2>2, <2>3, RlpBytesEncodes
  <2>5. Canonical(n, Str(p))
    BY <2>2 DEF Canonical, Str
  <2> QED
    BY <2>1, <2>3, <2>4, <2>5
<1> QED
  BY <1>1, <1>2

LEMMA RlpListEncodes ==
  ASSUME NEW es \in Seq(Seq(Byte)), Len(FlattenSeq(es)) <= MaxNumber
  PROVE  Encodes(RlpList(es), TRUE, FlattenSeq(es))
<1> DEFINE p == FlattenSeq(es)
           short == 192
           long == 247
<1>1. p \in Seq(Byte)
  BY FlattenCuts
<1>2. short = Lead(TRUE) /\ long = Lead(TRUE) + 55 /\ ~Lone(TRUE, p) /\ RlpList(es) = Prefixed(p, short, long)
  BY DEF Lead, Lone, RlpList
<1>3. Len(p) <= MaxNumber
  OBVIOUS
<1> HIDE DEF p, short, long
<1>4. Encodes(Prefixed(p, short, long), TRUE, p)
  BY <1>1, <1>2, <1>3, PrefixedEncodes
<1> QED
  BY <1>2, <1>4 DEF p

-----------------------------------------------------------------------------
\* What a strict reader does with them.

\* e lies in b from place i on.
LiesAt(e, b, i) ==
  /\ i \in Nat /\ i >= 1 /\ i - 1 + Len(e) <= Len(b)
  /\ \A k \in 1 .. Len(e) : b[i - 1 + k] = e[k]

\* What the reader takes of an encoding.
Takes(h, b, i, e, list, p) ==
  /\ h.ok = TRUE /\ h.list = list /\ h.from + h.len = i + Len(e)
  /\ h.from \in Nat /\ h.from >= 1 /\ Len(p) = h.len /\ Len(e) >= 1
  /\ \A k \in 1 .. Len(p) : b[h.from + k - 1] = p[k]

\* The header of an encoding leads the reader over exactly it.
LEMMA HeaderTakes ==
  ASSUME NEW b \in Seq(Byte), NEW e, NEW i, NEW list, NEW p, Encodes(e, list, p), LiesAt(e, b, i)
  PROVE  Takes(Header(b, i), b, i, e, list, p)
<1> DEFINE h == Header(b, i)
<1>1. /\ e \in Seq(Byte) /\ p \in Seq(Byte) /\ list \in BOOLEAN /\ Len(e) \in Nat /\ Len(p) \in Nat
      /\ i \in Nat /\ i >= 1 /\ i - 1 + Len(e) <= Len(b) /\ Len(b) \in Nat
  BY DEF Encodes, LiesAt
<1>2. \A k \in 1 .. Len(e) : b[i - 1 + k] = e[k]
  BY DEF LiesAt
<1>3. CASE Lone(list, p) /\ e = p
  <2>1. Len(p) = 1 /\ p[1] < 128 /\ ~list
    BY <1>3 DEF Lone
  <2>2. b[i] = p[1]
    <3>1. b[i - 1 + 1] = p[1]
      BY <1>2, <1>3, <2>1
    <3>2. i - 1 + 1 = i
      BY <1>1
    <3> QED
      BY <3>1, <3>2
  <2>3. h = [list |-> FALSE, from |-> i, len |-> 1, ok |-> TRUE]
    BY <2>1, <2>2 DEF Header
  <2> HIDE DEF h
  <2>4. \A k \in 1 .. 1 : i + k - 1 = i /\ k = 1
    BY <1>1
  <2>5. h.ok = TRUE /\ h.list = list /\ h.from = i /\ h.len = 1
    BY <2>1, <2>3, <1>1
  <2>6. \A k \in 1 .. Len(p) : b[i + k - 1] = p[k]
    BY <2>1, <2>2, <2>4
  <2>7. Takes(h, b, i, e, list, p)
    BY <1>1, <1>3, <2>1, <2>5, <2>6 DEF Takes
  <2> QED
    BY <2>7 DEF h
<1>4. CASE ShortForm(e, list, p)
  <2>1. /\ Len(p) <= 55 /\ ~Lone(list, p) /\ Len(e) = 1 + Len(p) /\ e[1] = Lead(list) + Len(p)
        /\ \A k \in 1 .. Len(p) : e[1 + k] = p[k]
    BY <1>4 DEF ShortForm
  <2>2. b[i] = Lead(list) + Len(p)
    <3>1. b[i - 1 + 1] = e[1]
      BY <1>1, <1>2, <2>1
    <3>2. i - 1 + 1 = i
      BY <1>1
    <3> QED
      BY <2>1, <3>1, <3>2
  <2>3. \A k \in 1 .. Len(p) : b[i + k] = p[k]
    <3> TAKE k \in 1 .. Len(p)
    <3>1. 1 + k \in 1 .. Len(e) /\ i - 1 + (1 + k) = i + k
      BY <1>1, <2>1
    <3>2. b[i - 1 + (1 + k)] = e[1 + k]
      BY <1>2, <3>1
    <3> QED
      BY <2>1, <3>1, <3>2
  <2> DEFINE base == IF b[i] >= 192 THEN 192 ELSE 128
  <2>4. base = Lead(list) /\ Lead(list) \in {128, 192} /\ (b[i] >= 192 <=> list) /\ b[i] >= 128 /\ b[i] \in Nat
    BY <1>1, <2>1, <2>2 DEF Lead
  <2>5. b[i] - base - 55 <= 0 /\ b[i] - base = Len(p)
    BY <1>1, <2>1, <2>2, <2>4
  <2>6. h = [list |-> b[i] >= 192, from |-> i + 1, len |-> b[i] - base,
             ok |-> ~(b[i] = 129 /\ i < Len(b) /\ b[i + 1] < 128)]
    <3>1. ~(b[i] < 128)
      BY <2>4
    <3> QED
      BY <2>5, <3>1 DEF Header
  <2>7. ~(b[i] = 129 /\ i < Len(b) /\ b[i + 1] < 128)
    <3> SUFFICES ASSUME b[i] = 129, b[i + 1] < 128 PROVE FALSE
      OBVIOUS
    <3>0. Lead(list) = 128 /\ Len(p) = 1
      <4> DEFINE l == Lead(list)
                 m == Len(p)
      <4>1. l \in {128, 192} /\ 129 = l + m /\ m \in Nat
        BY <1>1, <2>2, <2>4
      <4> HIDE DEF l, m
      <4>2. l = 128 /\ m = 1
        BY <4>1
      <4> QED
        BY <4>2 DEF l, m
    <3>1. ~list /\ Len(p) = 1
      BY <3>0 DEF Lead
    <3>2. b[i + 1] = p[1]
      BY <2>3, <3>1
    <3> QED
      BY <2>1, <3>1, <3>2 DEF Lone
  <2> HIDE DEF h, base
  <2>8. h.ok = TRUE /\ h.list = list /\ h.from = i + 1 /\ h.len = Len(p)
    <3> DEFINE okay == ~(b[i] = 129 /\ i < Len(b) /\ b[i + 1] < 128)
               kind == b[i] >= 192
    <3>1. okay = TRUE /\ kind = list
      BY <1>1, <2>4, <2>7
    <3>2. h = [list |-> kind, from |-> i + 1, len |-> Len(p), ok |-> okay]
      BY <2>5, <2>6
    <3> HIDE DEF okay, kind
    <3> QED
      BY <3>1, <3>2
  <2>9. \A k \in 1 .. Len(p) : b[i + 1 + k - 1] = p[k]
    <3>1. \A k \in 1 .. Len(p) : i + 1 + k - 1 = i + k
      BY <1>1
    <3> QED
      BY <2>3, <3>1
  <2>10. Takes(h, b, i, e, list, p)
    BY <1>1, <2>1, <2>8, <2>9 DEF Takes
  <2> QED
    BY <2>10 DEF h
<1>5. ASSUME NEW q, LongForm(e, list, p, q)
      PROVE  Takes(Header(b, i), b, i, e, list, p)
  <2>1. /\ Len(p) > 55 /\ Len(e) = 1 + Len(q) + Len(p) /\ e[1] = Lead(list) + 55 + Len(q)
        /\ \A k \in 1 .. Len(q) : e[1 + k] = q[k]
        /\ \A k \in 1 .. Len(p) : e[1 + Len(q) + k] = p[k]
    BY <1>5 DEF LongForm
  <2>2. q \in Seq(Byte) /\ Len(q) \in Nat /\ Len(q) >= 1 /\ Len(q) <= 4 /\ Number(q) = Len(p) /\ q[1] # 0
    BY <1>1, <1>5, <2>1 DEF LongForm, BytesOf
  <2>3. b[i] = Lead(list) + 55 + Len(q)
    <3>1. b[i - 1 + 1] = e[1]
      BY <1>1, <1>2, <2>1, <2>2
    <3>2. i - 1 + 1 = i
      BY <1>1
    <3> QED
      BY <2>1, <3>1, <3>2
  <2> DEFINE base == IF b[i] >= 192 THEN 192 ELSE 128
             long == b[i] - base - 55
             size == SubSeq(b, i + 1, i + long)
  <2>4. base = Lead(list) /\ Lead(list) \in {128, 192} /\ (b[i] >= 192 <=> list) /\ b[i] \in Nat /\ ~(b[i] < 128)
    BY <1>1, <2>2, <2>3 DEF Lead
  <2>5. long = Len(q) /\ ~(long <= 0) /\ ~(i + long > Len(b))
    <3>1. long = Len(q)
      <4> DEFINE l == Lead(list)
      <4>1. l \in Nat /\ b[i] = l + 55 + Len(q) /\ base = l
        BY <2>3, <2>4
      <4> HIDE DEF l, base
      <4> QED
        BY <2>2, <4>1
    <3> HIDE DEF long
    <3> QED
      BY <1>1, <2>1, <2>2, <3>1
  <2>6. h = [list |-> b[i] >= 192, from |-> i + long + 1, len |-> Number(size),
             ok |-> size[1] # 0 /\ Number(size) > 55]
    BY <2>4, <2>5 DEF Header
  <2> HIDE DEF base, long, h
  <2>7. size = q
    <3> DEFINE x == i + 1
               y == i + long
    <3>1. x \in Int /\ y \in Int /\ 1 <= x /\ y <= Len(b) /\ x <= y + 1 /\ y - x + 1 = Len(q)
      BY <1>1, <2>1, <2>2, <2>5
    <3>2. \A k \in 1 .. Len(q) : x + k - 1 = i - 1 + (1 + k) /\ 1 + k \in 1 .. Len(e)
      BY <1>1, <2>1, <2>2
    <3>3. \A k \in 1 .. Len(q) : b[x + k - 1] = q[k]
      BY <1>2, <2>1, <3>2
    <3> HIDE DEF x, y
    <3>4. /\ SubSeq(b, x, y) \in Seq(Byte) /\ Len(SubSeq(b, x, y)) = y - x + 1
          /\ \A k \in 1 .. y - x + 1 : SubSeq(b, x, y)[k] = b[x + k - 1]
      BY <3>1, SubSeqPlaces
    <3> DEFINE s == SubSeq(b, x, y)
    <3>5. s \in Seq(Byte) /\ Len(s) = Len(q) /\ \A k \in 1 .. Len(s) : s[k] = q[k]
      BY <3>1, <3>3, <3>4
    <3>6. size = s
      BY DEF x, y
    <3> HIDE DEF s, size
    <3>7. s = q
      BY <2>2, <3>5, SeqSame
    <3> QED
      BY <3>6, <3>7
  <2> HIDE DEF size
  <2>8. h.ok = TRUE /\ h.list = list /\ h.from = i + Len(q) + 1 /\ h.len = Len(p)
    <3> DEFINE okay == size[1] # 0 /\ Number(size) > 55
               kind == b[i] >= 192
    <3>1. okay = TRUE /\ kind = list
      BY <1>1, <2>1, <2>2, <2>4, <2>7
    <3>2. i + long + 1 = i + Len(q) + 1 /\ Number(size) = Len(p)
      BY <2>2, <2>5, <2>7
    <3>3. h = [list |-> kind, from |-> i + long + 1, len |-> Number(size), ok |-> okay]
      BY <2>6
    <3> HIDE DEF okay, kind
    <3> QED
      BY <3>1, <3>2, <3>3
  <2>9. \A k \in 1 .. Len(p) : b[i + Len(q) + 1 + k - 1] = p[k]
    <3> TAKE k \in 1 .. Len(p)
    <3>1. 1 + Len(q) + k \in 1 .. Len(e) /\ i - 1 + (1 + Len(q) + k) = i + Len(q) + 1 + k - 1
      BY <1>1, <2>1, <2>2
    <3>2. b[i - 1 + (1 + Len(q) + k)] = e[1 + Len(q) + k]
      BY <1>2, <3>1
    <3> QED
      BY <2>1, <3>1, <3>2
  <2>10. Takes(h, b, i, e, list, p)
    BY <1>1, <2>1, <2>2, <2>8, <2>9 DEF Takes
  <2> QED
    BY <2>10 DEF h
<1> QED
  BY <1>3, <1>4, <1>5 DEF Encodes

\* One step of the reader at place i, which goes on with what read has there.
ReadsOn(b, read, i) ==
  LET h == Header(b, i)
      next == h.from + h.len
  IN  IF i = Len(b) + 1 THEN <<>>
      ELSE IF ~h.ok \/ next \notin i + 1 .. Len(b) + 1 THEN <<Bad>>
      ELSE <<[list |-> h.list, bytes |-> SubSeq(b, h.from, next - 1)]>> \o read[next]

\* The reader depends on what comes later alone.
LEMMA ReadsLater ==
  ASSUME NEW b, Len(b) \in Nat, NEW f, NEW g, NEW i \in Nat,
         \A k \in i + 1 .. Len(b) + 1 : f[k] = g[k]
  PROVE  ReadsOn(b, f, i) = ReadsOn(b, g, i)
BY DEF ReadsOn

\* The recursion of Items is well-founded: it always reads further on.
LEMMA ItemsRead ==
  ASSUME NEW b, Len(b) \in Nat
  PROVE  \E read : (\A i \in 1 .. Len(b) + 1 : read[i] = ReadsOn(b, read, i)) /\ Items(b) = read[1]
<1> DEFINE n == Len(b) + 1
           Reads(f, m) == f = [i \in m .. n |-> ReadsOn(b, f, i)]
           T == {k \in Nat : k < n => \E f : Reads(f, n - k)}
<1>0. n \in Nat /\ n >= 1 /\ n = Len(b) + 1
  OBVIOUS
<1> HIDE DEF n
<1>1. 0 \in T
  <2> DEFINE f == [i \in n .. n |-> <<>>]
  <2>1. \A i \in n .. n : i = Len(b) + 1
    BY <1>0
  <2>2. \A i \in n .. n : ReadsOn(b, f, i) = <<>>
    BY <2>1 DEF ReadsOn
  <2>3. Reads(f, n)
    BY <2>2
  <2> HIDE DEF f, Reads
  <2>4. \E g : Reads(g, n - 0)
    BY <1>0, <2>3
  <2> QED
    BY <2>4
<1>2. ASSUME NEW k \in Nat, k \in T
      PROVE  k + 1 \in T
  <2> SUFFICES ASSUME k + 1 < n PROVE \E f : Reads(f, n - (k + 1))
    OBVIOUS
  <2> DEFINE m == n - k
  <2>1. PICK f : Reads(f, m)
    <3>1. k < n
      BY <1>0
    <3> HIDE DEF Reads
    <3> QED
      BY <1>2, <3>1
  <2> DEFINE l == n - (k + 1)
             g == [i \in l .. n |-> IF i = l THEN ReadsOn(b, f, l) ELSE f[i]]
  <2>2. l \in Nat /\ m = l + 1 /\ l < n /\ m \in Nat
    BY <1>0
  <2> HIDE DEF l, m
  <2>3. \A i \in m .. n : f[i] = ReadsOn(b, f, i) /\ g[i] = f[i] /\ i # l
    BY <1>0, <2>1, <2>2
  <2>4. g[l] = ReadsOn(b, f, l) /\ g = [i \in l .. n |-> g[i]]
    BY <1>0, <2>2
  <2> HIDE DEF g, Reads
  <2>5. \A i \in l .. n : ReadsOn(b, f, i) = ReadsOn(b, g, i)
    <3> TAKE i \in l .. n
    <3>1. i \in Nat
      BY <1>0, <2>2
    <3>2. \A j \in i + 1 .. Len(b) + 1 : j \in m .. n
      BY <1>0, <2>2
    <3>3. \A j \in i + 1 .. Len(b) + 1 : f[j] = g[j]
      BY <2>3, <3>2
    <3> QED
      BY <3>1, <3>3, ReadsLater
  <2>6. \A i \in l .. n : g[i] = ReadsOn(b, g, i)
    <3> TAKE i \in l .. n
    <3>1. i = l \/ i \in m .. n
      BY <1>0, <2>2
    <3> QED
      BY <2>3, <2>4, <2>5, <3>1
  <2>7. Reads(g, l)
    BY <2>4, <2>6 DEF Reads
  <2> QED
    BY <2>7 DEF l
<1>3. \E f : Reads(f, 1)
  <2> HIDE DEF T
  <2>1. Nat \subseteq T
    BY <1>1, <1>2, Induction
  <2> DEFINE k == n - 1
  <2>2. k \in Nat /\ k < n /\ n - k = 1
    BY <1>0
  <2> HIDE DEF k, Reads
  <2>3. \E f : Reads(f, n - k)
    BY <2>1, <2>2 DEF T
  <2> QED
    BY <2>2, <2>3
<1> DEFINE c == CHOOSE f : Reads(f, 1)
<1>4. Reads(c, 1)
  BY <1>3
<1>5. Items(b) = c[1]
  BY DEF Items, ReadsOn, n
<1>6. \A i \in 1 .. n : c[i] = ReadsOn(b, c, i)
  <2> HIDE DEF c
  <2> QED
    BY <1>4
<1> HIDE DEF c
<1> QED
  BY <1>0, <1>5, <1>6

\* What a reader returns.
Item == [list : BOOLEAN, bytes : Seq(Byte)]

\* u is what follows the first m of s.
Follows(u, s, m) ==
  /\ u \in Seq(Item) /\ Len(u) = Len(s) - m
  /\ \A k \in 1 .. Len(s) - m : u[k] = s[m + k]

\* Encodings that lie end to end are read back one by one.
LEMMA ItemsOfCut ==
  ASSUME NEW b \in Seq(Byte), NEW es \in Seq(Seq(Byte)), NEW items \in Seq(Item), Len(items) = Len(es),
         \A j \in 1 .. Len(es) : Encodes(es[j], items[j].list, items[j].bytes),
         NEW cut, CutAt(b, es, cut)
  PROVE  Items(b) = items
<1> DEFINE n == Len(es)
<1>1. n \in Nat /\ n = Len(es) /\ Len(items) = n /\ Len(b) \in Nat
  OBVIOUS
<1>2. PICK read : (\A i \in 1 .. Len(b) + 1 : read[i] = ReadsOn(b, read, i)) /\ Items(b) = read[1]
  BY <1>1, ItemsRead
<1> HIDE DEF n
<1>3. /\ cut[0] = 0 /\ cut[n] = Len(b) /\ \A j \in 0 .. n : cut[j] \in Nat
      /\ \A j \in 1 .. n : /\ cut[j] = cut[j - 1] + Len(es[j]) /\ cut[j] <= Len(b)
                           /\ \A k \in 1 .. Len(es[j]) : b[cut[j - 1] + k] = es[j][k]
  BY <1>1 DEF CutAt
<1>4. \A j \in 1 .. n : /\ Encodes(es[j], items[j].list, items[j].bytes) /\ items[j] \in Item
                        /\ items[j] = [list |-> items[j].list, bytes |-> items[j].bytes]
  <2>1. \A j \in 1 .. n : items[j] \in Item
    BY <1>1
  <2>2. \A x \in Item : x = [list |-> x.list, bytes |-> x.bytes]
    BY DEF Item
  <2> QED
    BY <1>1, <2>1, <2>2
<1> DEFINE T == {k \in Nat : k <= n => Follows(read[cut[n - k] + 1], items, n - k)}
<1>5. 0 \in T
  <2>1. Len(b) + 1 \in 1 .. Len(b) + 1
    BY <1>1
  <2>2. read[Len(b) + 1] = <<>>
    <3>1. read[Len(b) + 1] = ReadsOn(b, read, Len(b) + 1)
      BY <1>2, <2>1
    <3> QED
      BY <3>1 DEF ReadsOn
  <2>3. Len(items) - n = 0
    BY <1>1
  <2>4. Follows(<<>>, items, n)
    BY <2>3 DEF Follows
  <2>5. n - 0 = n
    BY <1>1
  <2> QED
    BY <1>3, <2>2, <2>4, <2>5
<1>6. ASSUME NEW k \in Nat, k \in T
      PROVE  k + 1 \in T
  <2> SUFFICES ASSUME k + 1 <= n PROVE Follows(read[cut[n - (k + 1)] + 1], items, n - (k + 1))
    OBVIOUS
  <2> DEFINE m == n - k
             l == n - (k + 1)
             i == cut[l] + 1
             next == cut[m] + 1
             e == es[m]
             p == items[m].bytes
             h == Header(b, i)
             rest == read[next]
  <2>1. m \in 1 .. n /\ l \in 0 .. n /\ l = m - 1 /\ m \in Nat /\ l \in Nat
    BY <1>1
  <2>2. Follows(rest, items, m)
    <3>1. k <= n
      BY <1>1
    <3> QED
      BY <1>6, <3>1
  <2> HIDE DEF m, l, rest
  <2>3. /\ i \in Nat /\ i >= 1 /\ next = i + Len(e) /\ next \in Nat /\ i - 1 + Len(e) <= Len(b) /\ next <= Len(b) + 1
        /\ i - 1 = cut[l] /\ Len(e) \in Nat
    <3>1. cut[m] = cut[l] + Len(es[m]) /\ cut[m] <= Len(b) /\ cut[m] \in Nat /\ cut[l] \in Nat
      BY <1>3, <2>1
    <3>2. Len(es[m]) \in Nat
      BY <1>1, <2>1
    <3>3. Len(e) \in Nat /\ cut[m] = cut[l] + Len(e)
      BY <3>1, <3>2
    <3> HIDE DEF e
    <3> DEFINE a == cut[l]
               c == cut[m]
               t == Len(e)
    <3>4. c = a + t /\ c <= Len(b) /\ c \in Nat /\ a \in Nat /\ t \in Nat /\ i = a + 1 /\ next = c + 1
      BY <3>1, <3>3
    <3> HIDE DEF a, c, t, i, next
    <3>5. /\ i \in Nat /\ i >= 1 /\ next = i + t /\ next \in Nat /\ i - 1 + t <= Len(b) /\ next <= Len(b) + 1
          /\ i - 1 = a
      BY <1>1, <3>4
    <3> QED
      BY <3>4, <3>5 DEF a, t
  <2>4. LiesAt(e, b, i)
    <3>1. \A j \in 1 .. Len(es[m]) : b[cut[l] + j] = es[m][j]
      BY <1>3, <2>1
    <3> QED
      BY <2>3, <3>1 DEF LiesAt
  <2>5. Encodes(e, items[m].list, p)
    BY <1>4, <2>1
  <2>6. Takes(h, b, i, e, items[m].list, p)
    BY <2>4, <2>5, HeaderTakes
  <2> HIDE DEF i, next, e, p, h
  <2>7. /\ h.ok = TRUE /\ h.list = items[m].list /\ h.from + h.len = next
        /\ h.from \in Nat /\ h.from >= 1 /\ Len(p) = h.len /\ Len(e) >= 1
        /\ \A j \in 1 .. Len(p) : b[h.from + j - 1] = p[j]
    BY <2>3, <2>6 DEF Takes
  <2>8. next \in i + 1 .. Len(b) + 1 /\ i # Len(b) + 1 /\ i \in 1 .. Len(b) + 1
    BY <1>1, <2>3, <2>7
  <2>9. SubSeq(b, h.from, next - 1) = p
    <3>1. p \in Seq(Byte) /\ Len(p) \in Nat
      BY <2>5 DEF Encodes
    <3> DEFINE x == h.from
               y == next - 1
               s == SubSeq(b, x, y)
    <3>2. x \in Int /\ y \in Int /\ 1 <= x /\ y <= Len(b) /\ x <= y + 1 /\ y - x + 1 = Len(p)
      BY <1>1, <2>3, <2>7, <3>1
    <3>3. \A j \in 1 .. Len(p) : b[x + j - 1] = p[j]
      BY <2>7
    <3> HIDE DEF x, y
    <3>4. /\ SubSeq(b, x, y) \in Seq(Byte) /\ Len(SubSeq(b, x, y)) = y - x + 1
          /\ \A j \in 1 .. y - x + 1 : SubSeq(b, x, y)[j] = b[x + j - 1]
      BY <3>2, SubSeqPlaces
    <3>5. s \in Seq(Byte) /\ Len(s) = Len(p) /\ \A j \in 1 .. Len(s) : s[j] = p[j]
      BY <3>2, <3>3, <3>4
    <3>6. SubSeq(b, h.from, next - 1) = s
      BY DEF x, y
    <3> HIDE DEF s
    <3>7. s = p
      BY <3>1, <3>5, SeqSame
    <3> QED
      BY <3>6, <3>7
  <2> DEFINE head == <<items[m]>>
  <2>10. read[i] = head \o rest
    <3>1. read[i] = ReadsOn(b, read, i)
      BY <1>2, <2>8
    <3>2. ReadsOn(b, read, i) = <<[list |-> h.list, bytes |-> SubSeq(b, h.from, next - 1)]>> \o read[next]
      <4>1. Header(b, i) = h
        BY DEF h
      <4>2. h.from + h.len = next /\ h.ok
        BY <2>7
      <4> QED
        BY <2>8, <4>1, <4>2 DEF ReadsOn
    <3>3. [list |-> h.list, bytes |-> SubSeq(b, h.from, next - 1)] = items[m]
      BY <1>4, <2>1, <2>7, <2>9 DEF p
    <3> DEFINE r == [list |-> h.list, bytes |-> SubSeq(b, h.from, next - 1)]
    <3>4. read[i] = <<r>> \o rest
      BY <3>1, <3>2 DEF rest
    <3> HIDE DEF r
    <3>5. r = items[m]
      BY <3>3 DEF r
    <3>6. head = <<r>>
      BY <3>5
    <3> HIDE DEF head
    <3> QED
      BY <3>4, <3>6
  <2>11. head \in Seq(Item) /\ Len(head) = 1 /\ head[1] = items[m]
    <3> DEFINE x == items[m]
    <3>1. x \in Item
      BY <1>4, <2>1
    <3> HIDE DEF x
    <3>2. <<x>> \in Seq(Item) /\ Len(<<x>>) = 1 /\ <<x>>[1] = x
      BY <3>1
    <3> QED
      BY <3>2 DEF x
  <2> HIDE DEF head
  <2>12. Follows(head \o rest, items, l)
    <3>1. /\ rest \in Seq(Item) /\ Len(rest) = Len(items) - m
          /\ \A j \in 1 .. Len(items) - m : rest[j] = items[m + j]
      BY <2>2 DEF Follows
    <3> DEFINE u == head \o rest
    <3>2. u \in Seq(Item) /\ SideBySide(u, head, rest)
      BY <2>11, <3>1, ConcatPlaces
    <3> HIDE DEF u
    <3>3. /\ Len(u) = Len(items) - l /\ u[1] = items[m]
          /\ \A j \in 1 .. Len(items) - m : u[1 + j] = items[m + j]
      <4>1. /\ Len(u) = Len(head) + Len(rest) /\ \A j \in 1 .. Len(head) : u[j] = head[j]
            /\ \A j \in 1 .. Len(rest) : u[Len(head) + j] = rest[j]
        BY <3>2 DEF SideBySide
      <4>2. Len(u) = 1 + Len(rest) /\ u[1] = head[1] /\ \A j \in 1 .. Len(rest) : u[1 + j] = rest[j]
        BY <2>11, <4>1
      <4>3. 1 + (Len(items) - m) = Len(items) - l
        BY <1>1, <2>1
      <4> QED
        BY <2>11, <3>1, <4>2, <4>3
    <3>4. ASSUME NEW j \in 1 .. Len(items) - l
          PROVE  u[j] = items[l + j]
      <4>1. CASE j = 1
        BY <2>1, <3>3, <4>1
      <4>2. CASE j # 1
        <5>1. j - 1 \in 1 .. Len(items) - m /\ 1 + (j - 1) = j /\ m + (j - 1) = l + j
          BY <1>1, <2>1, <4>2
        <5>2. u[1 + (j - 1)] = items[m + (j - 1)]
          BY <3>3, <5>1
        <5> QED
          BY <5>1, <5>2
      <4> QED
        BY <4>1, <4>2
    <3>5. Follows(u, items, l)
      BY <3>2, <3>3, <3>4 DEF Follows
    <3> QED
      BY <3>5 DEF u
  <2> QED
    BY <2>10, <2>12 DEF i, l
<1>7. Follows(read[1], items, 0)
  <2> HIDE DEF T
  <2>1. Nat \subseteq T
    BY <1>5, <1>6, Induction
  <2>2. n \in T /\ n <= n /\ n - n = 0
    BY <1>1, <2>1
  <2>3. Follows(read[cut[n - n] + 1], items, n - n)
    BY <2>2 DEF T
  <2>4. cut[n - n] + 1 = 1
    BY <1>3, <2>2
  <2> QED
    BY <2>2, <2>3, <2>4
<1> DEFINE u == read[1]
<1>8. u \in Seq(Item) /\ Len(u) = Len(items) /\ \A k \in 1 .. Len(u) : u[k] = items[k]
  <2>1. Len(items) - 0 = Len(items) /\ \A k \in 1 .. Len(items) : 0 + k = k
    BY <1>1
  <2> QED
    BY <1>7, <2>1 DEF Follows
<1> HIDE DEF u
<1>9. u = items
  BY <1>8, SeqSame
<1> QED
  BY <1>2, <1>9 DEF u

\* In particular, the encodings of a list, and a single one.
LEMMA ItemsOfFlatten ==
  ASSUME NEW es \in Seq(Seq(Byte)), NEW items \in Seq(Item), Len(items) = Len(es),
         \A j \in 1 .. Len(es) : Encodes(es[j], items[j].list, items[j].bytes)
  PROVE  Items(FlattenSeq(es)) = items
<1> DEFINE b == FlattenSeq(es)
<1>1. b \in Seq(Byte) /\ \E cut : CutAt(b, es, cut)
  BY FlattenCuts
<1> HIDE DEF b
<1>2. PICK cut : CutAt(b, es, cut)
  BY <1>1
<1>3. Items(b) = items
  BY <1>1, <1>2, ItemsOfCut
<1> QED
  BY <1>3 DEF b

\* The concatenation of one sequence.
LEMMA FlattenOne ==
  ASSUME NEW e \in Seq(Byte)
  PROVE  FlattenSeq(<<e>>) = e
<1> DEFINE es == <<e>>
           b == FlattenSeq(es)
<1>1. es \in Seq(Seq(Byte)) /\ Len(es) = 1 /\ es[1] = e
  OBVIOUS
<1> HIDE DEF es
<1>2. b \in Seq(Byte) /\ \E cut : CutAt(b, es, cut)
  BY <1>1, FlattenCuts
<1> HIDE DEF b
<1>3. PICK cut : CutAt(b, es, cut)
  BY <1>2
<1>4. /\ cut[0] = 0 /\ cut[1] = Len(b) /\ cut[1] = cut[1 - 1] + Len(es[1]) /\ 1 - 1 = 0
      /\ \A k \in 1 .. Len(es[1]) : b[cut[1 - 1] + k] = es[1][k]
  BY <1>1, <1>3 DEF CutAt
<1>5. Len(b) = Len(e) /\ \A k \in 1 .. Len(b) : b[k] = e[k]
  BY <1>1, <1>4
<1>6. b = e
  BY <1>2, <1>5, SeqSame
<1> QED
  BY <1>6 DEF b, es

\* A single encoding is read as one item.
LEMMA ItemsOfOne ==
  ASSUME NEW e, NEW list, NEW p, Encodes(e, list, p)
  PROVE  Items(e) = <<[list |-> list, bytes |-> p]>>
<1> DEFINE es == <<e>>
           items == <<[list |-> list, bytes |-> p]>>
<1>1. e \in Seq(Byte) /\ p \in Seq(Byte) /\ list \in BOOLEAN
  BY DEF Encodes
<1>2. es \in Seq(Seq(Byte)) /\ Len(es) = 1 /\ es[1] = e /\ FlattenSeq(es) = e
  BY <1>1, FlattenOne
<1>3. items \in Seq(Item) /\ Len(items) = 1 /\ items[1].list = list /\ items[1].bytes = p
  BY <1>1 DEF Item
<1> HIDE DEF es, items
<1>4. \A j \in 1 .. Len(es) : Encodes(es[j], items[j].list, items[j].bytes)
  BY <1>2, <1>3
<1>5. Items(FlattenSeq(es)) = items
  BY <1>2, <1>3, <1>4, ItemsOfFlatten
<1> QED
  BY <1>2, <1>5 DEF items

-----------------------------------------------------------------------------
\* Lists.

\* What RlpList makes of three encodings, and of four.
Listed(es, items, total) ==
  /\ Len(FlattenSeq(es)) = total
  /\ Encodes(RlpList(es), TRUE, FlattenSeq(es))
  /\ Items(RlpList(es)) = <<Lst(FlattenSeq(es))>>
  /\ Items(FlattenSeq(es)) = items

\* Of any number of encodings that are not too long in all.
LEMMA ListRead ==
  ASSUME NEW es \in Seq(Seq(Byte)), NEW items \in Seq(Item), Len(items) = Len(es),
         \A j \in 1 .. Len(es) : Encodes(es[j], items[j].list, items[j].bytes),
         NEW total, Len(FlattenSeq(es)) = total, total <= MaxNumber
  PROVE  Listed(es, items, total)
<1> DEFINE f == FlattenSeq(es)
           e == RlpList(es)
<1>1. Encodes(e, TRUE, f)
  BY RlpListEncodes
<1>2. Items(f) = items
  BY ItemsOfFlatten
<1> HIDE DEF e, f
<1>3. Items(e) = <<[list |-> TRUE, bytes |-> f]>>
  BY <1>1, ItemsOfOne
<1> QED
  BY <1>1, <1>2, <1>3 DEF e, f, Listed, Lst

LEMMA ListOfThree ==
  ASSUME NEW a, NEW b, NEW c, NEW la, NEW lb, NEW lc, NEW pa, NEW pb, NEW pc,
         Encodes(a, la, pa), Encodes(b, lb, pb), Encodes(c, lc, pc),
         Len(a) + Len(b) + Len(c) <= MaxNumber
  PROVE  Listed(<<a, b, c>>, <<[list |-> la, bytes |-> pa], [list |-> lb, bytes |-> pb], [list |-> lc, bytes |-> pc]>>,
                Len(a) + Len(b) + Len(c))
<1> DEFINE es == <<a, b, c>>
           ia == [list |-> la, bytes |-> pa]
           ib == [list |-> lb, bytes |-> pb]
           ic == [list |-> lc, bytes |-> pc]
           items == <<ia, ib, ic>>
           total == Len(a) + Len(b) + Len(c)
<1>1. /\ a \in Seq(Byte) /\ b \in Seq(Byte) /\ c \in Seq(Byte)
      /\ ia \in Item /\ ib \in Item /\ ic \in Item
  BY DEF Encodes, Item
<1>2. /\ ia.list = la /\ ia.bytes = pa /\ ib.list = lb /\ ib.bytes = pb /\ ic.list = lc /\ ic.bytes = pc
  OBVIOUS
<1> HIDE DEF ia, ib, ic
<1>3. es \in Seq(Seq(Byte)) /\ Len(es) = 3 /\ es[1] = a /\ es[2] = b /\ es[3] = c
  BY <1>1
<1>4. items \in Seq(Item) /\ Len(items) = 3 /\ items[1] = ia /\ items[2] = ib /\ items[3] = ic
  BY <1>1
<1> HIDE DEF es, items
<1>5. \A j \in 1 .. Len(es) : Encodes(es[j], items[j].list, items[j].bytes)
  <2> TAKE j \in 1 .. Len(es)
  <2>1. j \in {1, 2, 3}
    BY <1>3
  <2> QED
    BY <1>2, <1>3, <1>4, <2>1
<1>6. Len(FlattenSeq(es)) = total
  <2>1. PICK cut : CutAt(FlattenSeq(es), es, cut)
    BY <1>3, FlattenCuts
  <2>2. cut[0] = 0 /\ cut[3] = Len(FlattenSeq(es))
    BY <1>3, <2>1 DEF CutAt
  <2>3. \A i \in 1 .. 3 : cut[i] = cut[i - 1] + Len(es[i])
    BY <1>3, <2>1 DEF CutAt
  <2>4. cut[1] = cut[0] + Len(a) /\ cut[2] = cut[1] + Len(b) /\ cut[3] = cut[2] + Len(c)
    BY <1>3, <2>3
  <2>5. Len(a) \in Nat /\ Len(b) \in Nat /\ Len(c) \in Nat
    BY <1>1
  <2> QED
    BY <2>2, <2>4, <2>5
<1>7. total <= MaxNumber
  OBVIOUS
<1>8. Len(items) = Len(es)
  BY <1>3, <1>4
<1> HIDE DEF total
<1>9. Listed(es, items, total)
  BY <1>3, <1>4, <1>5, <1>6, <1>7, <1>8, ListRead
<1> QED
  BY <1>9 DEF es, items, total, ia, ib, ic

LEMMA ListOfFour ==
  ASSUME NEW a, NEW b, NEW c, NEW d, NEW la, NEW lb, NEW lc, NEW ld, NEW pa, NEW pb, NEW pc, NEW pd,
         Encodes(a, la, pa), Encodes(b, lb, pb), Encodes(c, lc, pc), Encodes(d, ld, pd),
         Len(a) + Len(b) + Len(c) + Len(d) <= MaxNumber
  PROVE  Listed(<<a, b, c, d>>,
                <<[list |-> la, bytes |-> pa], [list |-> lb, bytes |-> pb],
                  [list |-> lc, bytes |-> pc], [list |-> ld, bytes |-> pd]>>,
                Len(a) + Len(b) + Len(c) + Len(d))
<1> DEFINE es == <<a, b, c, d>>
           ia == [list |-> la, bytes |-> pa]
           ib == [list |-> lb, bytes |-> pb]
           ic == [list |-> lc, bytes |-> pc]
           id == [list |-> ld, bytes |-> pd]
           items == <<ia, ib, ic, id>>
           total == Len(a) + Len(b) + Len(c) + Len(d)
<1>1. /\ a \in Seq(Byte) /\ b \in Seq(Byte) /\ c \in Seq(Byte) /\ d \in Seq(Byte)
      /\ ia \in Item /\ ib \in Item /\ ic \in Item /\ id \in Item
  BY DEF Encodes, Item
<1>2. /\ ia.list = la /\ ia.bytes = pa /\ ib.list = lb /\ ib.bytes = pb
      /\ ic.list = lc /\ ic.bytes = pc /\ id.list = ld /\ id.bytes = pd
  OBVIOUS
<1> HIDE DEF ia, ib, ic, id
<1>3. es \in Seq(Seq(Byte)) /\ Len(es) = 4 /\ es[1] = a /\ es[2] = b /\ es[3] = c /\ es[4] = d
  BY <1>1
<1>4. items \in Seq(Item) /\ Len(items) = 4 /\ items[1] = ia /\ items[2] = ib /\ items[3] = ic /\ items[4] = id
  BY <1>1
<1> HIDE DEF es, items
<1>5. \A j \in 1 .. Len(es) : Encodes(es[j], items[j].list, items[j].bytes)
  <2> TAKE j \in 1 .. Len(es)
  <2>1. j \in {1, 2, 3, 4}
    BY <1>3
  <2> QED
    BY <1>2, <1>3, <1>4, <2>1
<1>6. Len(FlattenSeq(es)) = total
  <2>1. PICK cut : CutAt(FlattenSeq(es), es, cut)
    BY <1>3, FlattenCuts
  <2>2. cut[0] = 0 /\ cut[4] = Len(FlattenSeq(es))
    BY <1>3, <2>1 DEF CutAt
  <2>3. \A i \in 1 .. 4 : cut[i] = cut[i - 1] + Len(es[i])
    BY <1>3, <2>1 DEF CutAt
  <2>4. cut[1] = cut[0] + Len(a) /\ cut[2] = cut[1] + Len(b) /\ cut[3] = cut[2] + Len(c) /\ cut[4] = cut[3] + Len(d)
    BY <1>3, <2>3
  <2>5. Len(a) \in Nat /\ Len(b) \in Nat /\ Len(c) \in Nat /\ Len(d) \in Nat
    BY <1>1
  <2> QED
    BY <2>2, <2>4, <2>5
<1>7. total <= MaxNumber
  OBVIOUS
<1>8. Len(items) = Len(es)
  BY <1>3, <1>4
<1> HIDE DEF total
<1>9. Listed(es, items, total)
  BY <1>3, <1>4, <1>5, <1>6, <1>7, <1>8, ListRead
<1> QED
  BY <1>9 DEF es, items, total, ia, ib, ic, id

\* The three encodings of RlpDecodes and the list of them.
LEMMA NestedRead ==
  ASSUME NEW s \in Seq(Byte), Len(s) <= MaxLength, NEW n \in Nat, n <= MaxNumber
  PROVE  \E e1, e2, e3, q, f :
           /\ e1 = RlpBytes(s) /\ e2 = RlpUint(n) /\ e3 = RlpList(<<e1>>)
           /\ Items(e1) = <<Str(s)>> /\ Items(e2) = <<Str(q)>> /\ Canonical(n, Str(q))
           /\ Items(RlpList(<<e1, e2, e3>>)) = <<Lst(f)>>
           /\ Items(f) = <<Str(s), Str(q), Lst(e1)>>
<1> DEFINE e1 == RlpBytes(s)
           e2 == RlpUint(n)
           e3 == RlpList(<<e1>>)
           q == UintBytes(n)
           f == FlattenSeq(<<e1, e2, e3>>)
<1>1. Len(s) \in Nat /\ Len(s) <= 1000000000
  BY SMT DEF MaxLength
<1>2. Encodes(e1, FALSE, s)
  <2>1. Len(s) <= MaxNumber
    BY <1>1, SMT DEF MaxNumber
  <2> QED
    BY <2>1, RlpBytesEncodes
<1>3. Encodes(e2, FALSE, q) /\ Canonical(n, Str(q)) /\ Len(q) <= 4
  BY RlpUintEncodes
<1>4. e1 \in Seq(Byte) /\ Len(e1) <= Len(s) + 5
  BY <1>2 DEF Encodes
<1>5. Encodes(e3, TRUE, e1)
  <2> DEFINE es == <<e1>>
  <2> HIDE DEF e1
  <2>1. es \in Seq(Seq(Byte)) /\ FlattenSeq(es) = e1
    BY <1>4, FlattenOne
  <2> HIDE DEF es
  <2>2. Len(FlattenSeq(es)) <= MaxNumber
    BY <1>1, <1>4, <2>1, SMT DEF MaxNumber
  <2>3. Encodes(RlpList(es), TRUE, FlattenSeq(es))
    BY <2>1, <2>2, RlpListEncodes
  <2> QED
    BY <2>1, <2>3 DEF es
<1> HIDE DEF e1, e2, e3, q
<1>6. Len(e1) + Len(e2) + Len(e3) <= MaxNumber
  <2>1. Len(e2) <= Len(q) + 5 /\ Len(e2) \in Nat /\ Len(q) \in Nat
    BY <1>3 DEF Encodes
  <2>2. Len(e3) <= Len(e1) + 5 /\ Len(e3) \in Nat /\ Len(e1) \in Nat
    BY <1>5 DEF Encodes
  <2>3. Len(e2) <= 9 /\ Len(e1) <= 1000000005 /\ Len(e3) <= 1000000010
    BY <1>1, <1>3, <1>4, <2>1, <2>2, SMT
  <2> QED
    BY <2>1, <2>2, <2>3, SMT DEF MaxNumber
<1>7. Listed(<<e1, e2, e3>>,
             <<[list |-> FALSE, bytes |-> s], [list |-> FALSE, bytes |-> q], [list |-> TRUE, bytes |-> e1]>>,
             Len(e1) + Len(e2) + Len(e3))
  BY <1>2, <1>3, <1>5, <1>6, ListOfThree
<1>8. Items(RlpList(<<e1, e2, e3>>)) = <<Lst(f)>> /\ Items(f) = <<Str(s), Str(q), Lst(e1)>>
  BY <1>7 DEF Listed, Str, Lst
<1> HIDE DEF f
<1>9. Items(e1) = <<Str(s)>> /\ Items(e2) = <<Str(q)>>
  BY <1>2, <1>3, ItemsOfOne DEF Str
<1>10. e1 = RlpBytes(s) /\ e2 = RlpUint(n) /\ e3 = RlpList(<<e1>>)
  BY DEF e1, e2, e3
<1> QED
  BY <1>3, <1>8, <1>9, <1>10

\* Of any input.
LEMMA EncodingsOfInput == Init => RlpDecodes
<1> SUFFICES ASSUME Init, function = "rlp"
             PROVE  RlpDecodes
  BY DEF RlpDecodes
<1> DEFINE s == input[1]
           n == input[2]
<1>1. s \in Strings /\ n \in Numbers
  BY DEF Init
<1>2. s \in Seq(Byte) /\ Len(s) <= MaxLength /\ n \in Nat /\ n <= MaxNumber
  BY <1>1, FunctionsAssumption DEF BytesAssumption
<1> HIDE DEF s, n
<1>3. PICK e1, e2, e3, q, f :
         /\ e1 = RlpBytes(s) /\ e2 = RlpUint(n) /\ e3 = RlpList(<<e1>>)
         /\ Items(e1) = <<Str(s)>> /\ Items(e2) = <<Str(q)>> /\ Canonical(n, Str(q))
         /\ Items(RlpList(<<e1, e2, e3>>)) = <<Lst(f)>>
         /\ Items(f) = <<Str(s), Str(q), Lst(e1)>>
  BY <1>2, NestedRead
<1> DEFINE outer == Items(RlpList(<<e1, e2, e3>>))[1]
           inner == Items(outer.bytes)
<1>4. outer = Lst(f)
  BY <1>3
<1>5. outer.list /\ outer.bytes = f
  BY <1>4 DEF Lst
<1> HIDE DEF outer
<1>6. inner = <<Str(s), Str(q), Lst(e1)>>
  BY <1>3, <1>5
<1> HIDE DEF inner
<1>7. Len(inner) = 3 /\ inner[1] = Str(s) /\ inner[2] = Str(q) /\ inner[3] = Lst(e1)
  BY <1>6
<1>8. inner[3].list /\ inner[3].bytes = e1
  BY <1>7 DEF Lst
<1>9. Len(Items(e2)) = 1 /\ Items(e2)[1] = Str(q)
  BY <1>3
<1>10. Items(RlpBytes(s)) = <<Str(s)>>
  BY <1>3
<1>11. Len(Items(RlpUint(n))) = 1 /\ Canonical(n, Items(RlpUint(n))[1])
  BY <1>3, <1>9
<1>12. Canonical(n, inner[2]) /\ Items(inner[3].bytes) = <<Str(s)>>
  BY <1>3, <1>7, <1>8
<1>13. outer = Items(RlpList(<<RlpBytes(s), RlpUint(n), RlpList(<<RlpBytes(s)>>)>>))[1]
  BY <1>3 DEF outer
<1>14. /\ Items(RlpBytes(s)) = <<Str(s)>>
       /\ Len(Items(RlpUint(n))) = 1 /\ Canonical(n, Items(RlpUint(n))[1])
       /\ outer.list /\ Len(inner) = 3
       /\ inner[1] = Str(s) /\ Canonical(n, inner[2])
       /\ inner[3].list /\ Items(inner[3].bytes) = <<Str(s)>>
  BY <1>5, <1>7, <1>8, <1>10, <1>11, <1>12
<1> QED
  BY <1>13, <1>14 DEF RlpDecodes, s, n, inner

\* rlp.rs: whatever strings and numbers are encoded, alone and in nested
\* lists, a reader that takes nothing but the shortest form reads them back.
THEOREM RlpIsReadBack == Spec => []RlpDecodes
BY StaysAtInput, EncodingsOfInput, PTL

-----------------------------------------------------------------------------
\* The parts of packets.

\* A checksum is bytes, as many as asked for.
LEMMA DigestBytes ==
  ASSUME NEW n \in Nat, NEW x \in Seq(Byte)
  PROVE  Digest(n, x) \in Seq(Byte) /\ Len(Digest(n, x)) = n
<1> DEFINE m == Len(x)
           K(i) == {k \in DOMAIN x : k % n = i % n}
           f(i) == [k \in K(i) |-> (2 * k + 1) * x[k]]
           d == [i \in 1 .. n |-> (m + SumFunction(f(i))) % 256]
<1>1. m \in Nat /\ DOMAIN x = 1 .. m /\ IsFiniteSet(1 .. m)
  <2>1. m \in Nat /\ DOMAIN x = 1 .. m
    OBVIOUS
  <2>2. \A k \in Nat : IsFiniteSet(1 .. k)
    BY FS_Interval
  <2> QED
    BY <2>1, <2>2
<1>2. \A k \in 1 .. m : x[k] \in Int
  <2>1. \A k \in 1 .. m : x[k] \in Byte
    BY <1>1
  <2> QED
    BY <2>1, Bytes
<1> HIDE DEF m
<1>3. \A i \in 1 .. n : SumFunction(f(i)) \in Int
  <2> SUFFICES ASSUME NEW i \in 1 .. n PROVE SumFunction(f(i)) \in Int
    OBVIOUS
  <2> DEFINE S == K(i)
  <2>1. S \subseteq 1 .. m
    BY <1>1
  <2> HIDE DEF S
  <2>2. IsFiniteSet(S)
    BY <1>1, <2>1, FS_Subset
  <2> DEFINE g == [k \in S |-> (2 * k + 1) * x[k]]
  <2>3. g \in [S -> Int]
    BY <1>2, <2>1
  <2> HIDE DEF g
  <2>4. SumFunction(g) \in Int
    BY <2>2, <2>3, SumIsInt
  <2> QED
    BY <2>4 DEF g, S
<1>4. Digest(n, x) = d
  BY DEF Digest, m
<1>5. \A i \in 1 .. n : (m + SumFunction(f(i))) % 256 \in Byte
  <2> SUFFICES ASSUME NEW i \in 1 .. n PROVE (m + SumFunction(f(i))) % 256 \in Byte
    OBVIOUS
  <2> DEFINE s == SumFunction(f(i))
             c == (m + s) % 256
  <2>1. s \in Int
    BY <1>3
  <2> HIDE DEF s
  <2>2. c \in Nat /\ c < 256
    BY <1>1, <2>1
  <2> HIDE DEF c
  <2>3. c \in Byte
    BY <2>2, Bytes
  <2> QED
    BY <2>3 DEF c, s
<1> HIDE DEF f
<1>6. d = [i \in 1 .. n |-> d[i]] /\ \A i \in 1 .. n : d[i] \in Byte
  BY <1>5
<1> HIDE DEF d
<1>7. d \in Seq(Byte) /\ Len(d) = n
  BY <1>6, IsSequence
<1> QED
  BY <1>4, <1>7

\* So is a filler.
LEMMA FillerBytes ==
  ASSUME NEW n \in Nat, NEW c \in Byte
  PROVE  Filler(n, c) \in Seq(Byte) /\ Len(Filler(n, c)) = n
BY DEF Filler

\* Who flips every bit twice has what he started from.
LEMMA CipherTwice ==
  ASSUME NEW x \in Seq(Byte)
  PROVE  /\ Cipher(x) \in Seq(Byte) /\ Len(Cipher(x)) = Len(x)
         /\ Cipher(Cipher(x)) = x
<1> DEFINE n == Len(x)
           y == Cipher(x)
           z == Cipher(y)
<1>1. n \in Nat /\ DOMAIN x = 1 .. n /\ \A i \in 1 .. n : x[i] \in Nat /\ x[i] < 256
  <2>1. \A i \in 1 .. n : x[i] \in Byte
    OBVIOUS
  <2> QED
    BY <2>1, Bytes
<1>2. y = [i \in 1 .. n |-> 255 - x[i]]
  BY <1>1 DEF Cipher
<1> HIDE DEF y, n
<1>3. \A i \in 1 .. n : y[i] = 255 - x[i] /\ y[i] \in Byte
  <2> TAKE i \in 1 .. n
  <2>1. y[i] = 255 - x[i]
    BY <1>2
  <2>2. y[i] \in Nat /\ y[i] < 256
    BY <1>1, <2>1
  <2> QED
    BY <2>1, <2>2, Bytes
<1>4. y = [i \in 1 .. n |-> y[i]]
  BY <1>2
<1>5. y \in Seq(Byte) /\ Len(y) = n /\ DOMAIN y = 1 .. n
  BY <1>1, <1>3, <1>4, IsSequence
<1>6. z = [i \in 1 .. n |-> 255 - y[i]]
  BY <1>5 DEF Cipher
<1> HIDE DEF z
<1>7. \A i \in 1 .. n : z[i] = x[i]
  BY <1>1, <1>3, <1>6
<1>8. x = [i \in 1 .. n |-> x[i]]
  BY <1>1
<1>9. z = x
  BY <1>6, <1>7, <1>8
<1> QED
  BY <1>5, <1>9 DEF y, z, n

\* The parts of a signed packet, and of what its hash covers.
Signed(packet, h, s, type, data) ==
  /\ packet \in Seq(Byte) /\ Len(packet) = 98 + Len(data)
  /\ \A k \in 1 .. 32 : packet[k] = h[k]
  /\ \A k \in 1 .. 65 : packet[32 + k] = s[k]
  /\ packet[98] = type
  /\ \A k \in 1 .. Len(data) : packet[98 + k] = data[k]

\* A packet of these parts has them at their places.
LEMMA SignedParts ==
  ASSUME NEW h \in Seq(Byte), NEW s \in Seq(Byte), NEW type \in Byte, NEW data \in Seq(Byte),
         Len(h) = 32, Len(s) = 65
  PROVE  /\ Signed(h \o s \o <<type>> \o data, h, s, type, data)
         /\ SubSeq(h \o s \o <<type>> \o data, 33, Len(h \o s \o <<type>> \o data)) = s \o <<type>> \o data
<1> DEFINE t == <<type>>
           u == h \o s
           v == u \o t
           packet == v \o data
           w == s \o t
           covered == w \o data
<1>1. t \in Seq(Byte) /\ Len(t) = 1 /\ t[1] = type
  OBVIOUS
<1> HIDE DEF t
<1>2. u \in Seq(Byte) /\ SideBySide(u, h, s)
  BY ConcatPlaces
<1> HIDE DEF u
<1>3. v \in Seq(Byte) /\ SideBySide(v, u, t)
  BY <1>1, <1>2, ConcatPlaces
<1> HIDE DEF v
<1>4. packet \in Seq(Byte) /\ SideBySide(packet, v, data)
  BY <1>3, ConcatPlaces
<1> HIDE DEF packet
<1>5. w \in Seq(Byte) /\ SideBySide(w, s, t)
  BY <1>1, ConcatPlaces
<1> HIDE DEF w
<1>6. covered \in Seq(Byte) /\ SideBySide(covered, w, data)
  BY <1>5, ConcatPlaces
<1> HIDE DEF covered
<1> DEFINE a == Len(h)
           b == Len(s)
           n == Len(data)
<1>7. a = 32 /\ b = 65 /\ n \in Nat
  OBVIOUS
<1>8. /\ Len(u) = a + b /\ (\A k \in 1 .. a : u[k] = h[k]) /\ (\A k \in 1 .. b : u[a + k] = s[k])
      /\ Len(v) = Len(u) + 1 /\ (\A k \in 1 .. Len(u) : v[k] = u[k]) /\ v[Len(u) + 1] = type
      /\ Len(packet) = Len(v) + n /\ (\A k \in 1 .. Len(v) : packet[k] = v[k])
      /\ (\A k \in 1 .. n : packet[Len(v) + k] = data[k])
      /\ Len(w) = b + 1 /\ (\A k \in 1 .. b : w[k] = s[k]) /\ w[b + 1] = type
      /\ Len(covered) = Len(w) + n /\ (\A k \in 1 .. Len(w) : covered[k] = w[k])
      /\ (\A k \in 1 .. n : covered[Len(w) + k] = data[k])
  <2>1. 1 \in 1 .. Len(t)
    BY <1>1
  <2> QED
    BY <1>1, <1>2, <1>3, <1>4, <1>5, <1>6, <2>1 DEF SideBySide
<1> HIDE DEF a, b, n
<1>9. /\ Len(u) = 97 /\ Len(v) = 98 /\ Len(w) = 66 /\ Len(packet) = 98 + n /\ Len(covered) = 66 + n
  BY <1>7, <1>8
<1>10. /\ \A k \in 1 .. 32 : packet[k] = h[k]
       /\ \A k \in 1 .. 65 : packet[32 + k] = s[k]
       /\ packet[98] = type
       /\ \A k \in 1 .. n : packet[98 + k] = data[k]
  <2>1. \A k \in 1 .. 98 : packet[k] = v[k]
    BY <1>8, <1>9
  <2>2. \A k \in 1 .. 97 : v[k] = u[k]
    BY <1>8, <1>9
  <2>3. v[98] = type
    <3>1. Len(u) + 1 = 98
      BY <1>9
    <3> QED
      BY <1>8, <3>1
  <2>4. \A k \in 1 .. 65 : u[32 + k] = s[k]
    <3>1. \A k \in 1 .. b : u[a + k] = s[k]
      BY <1>8
    <3> QED
      BY <1>7, <3>1
  <2>5. \A k \in 1 .. 32 : u[k] = h[k]
    BY <1>7, <1>8
  <2>6. \A k \in 1 .. 65 : 32 + k \in 1 .. 97 /\ 32 + k \in 1 .. 98
    OBVIOUS
  <2>7. \A k \in 1 .. 32 : k \in 1 .. 97 /\ k \in 1 .. 98
    OBVIOUS
  <2>8. \A k \in 1 .. 32 : packet[k] = h[k]
    BY <2>1, <2>2, <2>5, <2>7
  <2>9. \A k \in 1 .. 65 : packet[32 + k] = s[k]
    <3> TAKE k \in 1 .. 65
    <3> DEFINE c == 32 + k
    <3>1. c \in 1 .. 97 /\ c \in 1 .. 98
      BY <2>6
    <3>2. u[c] = s[k]
      BY <2>4
    <3> HIDE DEF c
    <3>3. packet[c] = s[k]
      BY <2>1, <2>2, <3>1, <3>2
    <3> QED
      BY <3>3 DEF c
  <2>10. packet[98] = type
    <3> DEFINE c == 98
    <3>1. c \in 1 .. 98 /\ v[c] = type
      BY <2>3
    <3> HIDE DEF c
    <3>2. packet[c] = type
      BY <2>1, <3>1
    <3> QED
      BY <3>2 DEF c
  <2>11. \A k \in 1 .. n : packet[98 + k] = data[k]
    <3>1. Len(v) = 98
      BY <1>9
    <3>2. \A k \in 1 .. n : packet[Len(v) + k] = data[k]
      BY <1>8
    <3> QED
      BY <3>1, <3>2
  <2> QED
    BY <2>8, <2>9, <2>10, <2>11
<1>11. Signed(packet, h, s, type, data)
  BY <1>4, <1>9, <1>10 DEF Signed, n
<1>12. \A k \in 1 .. Len(covered) : packet[33 + k - 1] = covered[k]
  <2> TAKE k \in 1 .. Len(covered)
  <2>1. CASE k <= 65
    <3>1. k \in 1 .. 65 /\ 33 + k - 1 = 32 + k /\ k \in 1 .. Len(w) /\ k \in 1 .. b
      BY <1>7, <1>9, <2>1
    <3>2. covered[k] = w[k] /\ w[k] = s[k]
      BY <1>8, <3>1
    <3>3. packet[32 + k] = s[k]
      BY <1>10, <3>1
    <3> QED
      BY <3>1, <3>2, <3>3
  <2>2. CASE k = 66
    <3>1. 33 + k - 1 = 98 /\ k \in 1 .. Len(w) /\ k = b + 1
      BY <1>7, <1>9, <2>2
    <3> QED
      BY <1>8, <1>10, <3>1
  <2>3. CASE k > 66
    <3>1. k - 66 \in 1 .. n /\ 33 + k - 1 = 98 + (k - 66) /\ k = Len(w) + (k - 66)
      BY <1>7, <1>9, <2>3
    <3>2. packet[98 + (k - 66)] = data[k - 66]
      BY <1>10, <3>1
    <3>3. covered[Len(w) + (k - 66)] = data[k - 66]
      BY <1>8, <3>1
    <3> QED
      BY <3>1, <3>2, <3>3
  <2> QED
    BY <1>7, <1>9, <2>1, <2>2, <2>3
<1> DEFINE i == 33
           j == Len(packet)
<1>13. i \in Int /\ j \in Int /\ 1 <= i /\ j <= Len(packet) /\ j - i + 1 = Len(covered)
       /\ \A k \in 1 .. Len(covered) : packet[i + k - 1] = covered[k]
  BY <1>7, <1>9, <1>12
<1> HIDE DEF i, j
<1>14. SubSeq(packet, i, j) = covered
  BY <1>4, <1>6, <1>13, PartIs
<1> QED
  BY <1>11, <1>14 DEF packet, v, u, t, covered, w, i, j

\* A node takes a signed packet apart again.
LEMMA SignedRead ==
  ASSUME NEW type \in Byte, NEW data \in Seq(Byte)
  PROVE  /\ Discv4Items(SignPacket(type, data), type) = Items(data)
         /\ SubSeq(SignPacket(type, data), 1, 32) \in Seq(Byte)
         /\ Len(SubSeq(SignPacket(type, data), 1, 32)) = 32
<1> DEFINE s == Digest(65, <<type>> \o data)
           h == Digest(32, s \o <<type>> \o data)
           packet == SignPacket(type, data)
<1>1. <<type>> \o data \in Seq(Byte)
  OBVIOUS
<1>2. s \in Seq(Byte) /\ Len(s) = 65
  BY <1>1, DigestBytes
<1>3. packet = h \o s \o <<type>> \o data
  BY DEF SignPacket
<1> HIDE DEF s, packet
<1>4. s \o <<type>> \o data \in Seq(Byte)
  BY <1>2
<1>5. h \in Seq(Byte) /\ Len(h) = 32
  BY <1>4, DigestBytes
<1> HIDE DEF h
<1>6. Signed(packet, h, s, type, data) /\ SubSeq(packet, 33, Len(packet)) = s \o <<type>> \o data
  BY <1>2, <1>3, <1>5, SignedParts
<1>13. packet \in Seq(Byte) /\ Len(data) \in Nat
  BY <1>6 DEF Signed
<1>7. /\ Len(packet) = 98 + Len(data)
      /\ (\A k \in 1 .. 32 : packet[k] = h[k]) /\ (\A k \in 1 .. 65 : packet[32 + k] = s[k])
      /\ packet[98] = type /\ (\A k \in 1 .. Len(data) : packet[98 + k] = data[k])
  BY <1>6 DEF Signed
<1>8. SubSeq(packet, 1, 32) = h
  <2> DEFINE i == 1
             j == 32
  <2>1. i \in Int /\ j \in Int /\ 1 <= i /\ j <= Len(packet) /\ j - i + 1 = Len(h)
        /\ \A k \in 1 .. Len(h) : packet[i + k - 1] = h[k]
    BY <1>5, <1>7, <1>13
  <2> HIDE DEF i, j
  <2>2. SubSeq(packet, i, j) = h
    BY <1>5, <1>13, <2>1, PartIs
  <2> QED
    BY <2>2 DEF i, j
<1>9. SubSeq(packet, 33, 97) = s
  <2> DEFINE i == 33
             j == 97
  <2>0. \A k \in 1 .. 65 : 33 + k - 1 = 32 + k
    OBVIOUS
  <2>1. i \in Int /\ j \in Int /\ 1 <= i /\ j <= Len(packet) /\ j - i + 1 = Len(s)
        /\ \A k \in 1 .. Len(s) : packet[i + k - 1] = s[k]
    BY <1>2, <1>7, <1>13, <2>0
  <2> HIDE DEF i, j
  <2>2. SubSeq(packet, i, j) = s
    <3>1. s \in Seq(Byte)
      BY <1>2
    <3> QED
      BY <1>13, <2>1, <3>1, PartIs
  <2> QED
    BY <2>2 DEF i, j
<1>10. SubSeq(packet, 99, Len(packet)) = data
  <2> DEFINE i == 99
             j == Len(packet)
  <2>0. \A k \in 1 .. Len(data) : 99 + k - 1 = 98 + k
    BY <1>13
  <2>1. i \in Int /\ j \in Int /\ 1 <= i /\ j <= Len(packet) /\ j - i + 1 = Len(data)
        /\ \A k \in 1 .. Len(data) : packet[i + k - 1] = data[k]
    BY <1>7, <1>13, <2>0
  <2> HIDE DEF i, j
  <2>2. SubSeq(packet, i, j) = data
    BY <1>13, <2>1, PartIs
  <2> QED
    BY <2>2 DEF i, j
<1>11. h = Digest(32, s \o <<type>> \o data) /\ s = Digest(65, <<type>> \o data)
  BY DEF h, s
<1>12. Discv4Items(packet, type) = Items(data)
  BY <1>6, <1>7, <1>8, <1>9, <1>10, <1>11 DEF Discv4Items
<1> QED
  BY <1>5, <1>8, <1>12 DEF packet

\* The parts of the auth packet.
Sealed(packet, size, iv, ct, mac) ==
  /\ packet \in Seq(Byte) /\ Len(packet) = 115 + Len(ct)
  /\ \A k \in 1 .. 2 : packet[k] = size[k]
  /\ \A k \in 1 .. 16 : packet[67 + k] = iv[k]
  /\ \A k \in 1 .. Len(ct) : packet[83 + k] = ct[k]
  /\ \A k \in 1 .. 32 : packet[83 + Len(ct) + k] = mac[k]

\* An auth packet of these parts has them at their places.
LEMMA SealedParts ==
  ASSUME NEW size \in Seq(Byte), NEW pk \in Seq(Byte), NEW iv \in Seq(Byte), NEW ct \in Seq(Byte), NEW mac \in Seq(Byte),
         Len(size) = 2, Len(pk) = 65, Len(iv) = 16, Len(mac) = 32
  PROVE  Sealed(size \o (pk \o iv \o ct \o mac), size, iv, ct, mac)
<1> DEFINE u == pk \o iv
           v == u \o ct
           w == v \o mac
           packet == size \o w
           n == Len(ct)
<1>1. u \in Seq(Byte) /\ SideBySide(u, pk, iv)
  BY ConcatPlaces
<1> HIDE DEF u
<1>2. v \in Seq(Byte) /\ SideBySide(v, u, ct)
  BY <1>1, ConcatPlaces
<1> HIDE DEF v
<1>3. w \in Seq(Byte) /\ SideBySide(w, v, mac)
  BY <1>2, ConcatPlaces
<1> HIDE DEF w
<1>4. packet \in Seq(Byte) /\ SideBySide(packet, size, w)
  BY <1>3, ConcatPlaces
<1>5. n \in Nat /\ n = Len(ct)
  OBVIOUS
<1> HIDE DEF packet, n
<1>6. Len(u) = 81 /\ \A k \in 1 .. 16 : u[65 + k] = iv[k]
  BY <1>1 DEF SideBySide
<1>7. /\ Len(v) = 81 + n /\ (\A k \in 1 .. 81 : v[k] = u[k]) /\ (\A k \in 1 .. n : v[81 + k] = ct[k])
  BY <1>2, <1>5, <1>6 DEF SideBySide
<1>8. /\ Len(w) = 113 + n /\ (\A k \in 1 .. 81 + n : w[k] = v[k]) /\ (\A k \in 1 .. 32 : w[81 + n + k] = mac[k])
  <2>1. /\ Len(w) = Len(v) + Len(mac)
        /\ (\A k \in 1 .. Len(v) : w[k] = v[k]) /\ (\A k \in 1 .. Len(mac) : w[Len(v) + k] = mac[k])
    BY <1>3 DEF SideBySide
  <2>2. Len(v) = 81 + n
    BY <1>7
  <2>3. Len(w) = 113 + n
    BY <1>5, <2>1, <2>2
  <2> QED
    BY <2>1, <2>2, <2>3
<1>9. /\ Len(packet) = 115 + n /\ (\A k \in 1 .. 2 : packet[k] = size[k])
      /\ (\A k \in 1 .. 113 + n : packet[2 + k] = w[k])
  <2>1. /\ Len(packet) = Len(size) + Len(w)
        /\ (\A k \in 1 .. Len(size) : packet[k] = size[k]) /\ (\A k \in 1 .. Len(w) : packet[Len(size) + k] = w[k])
    BY <1>4 DEF SideBySide
  <2>2. Len(w) = 113 + n
    BY <1>8
  <2>3. Len(packet) = 115 + n
    BY <1>5, <2>1, <2>2
  <2> QED
    BY <2>1, <2>2, <2>3
<1>10. \A k \in 1 .. 16 : packet[67 + k] = iv[k]
  <2> TAKE k \in 1 .. 16
  <2> DEFINE c == 65 + k
  <2>1. c \in 1 .. 81 /\ c \in 1 .. 81 + n /\ c \in 1 .. 113 + n /\ 67 + k = 2 + c
    BY <1>5
  <2>2. u[c] = iv[k]
    BY <1>6
  <2> HIDE DEF c
  <2>3. packet[2 + c] = w[c] /\ w[c] = v[c] /\ v[c] = u[c]
    BY <1>7, <1>8, <1>9, <2>1
  <2> QED
    BY <2>1, <2>2, <2>3
<1>11. \A k \in 1 .. n : packet[83 + k] = ct[k]
  <2> TAKE k \in 1 .. n
  <2> DEFINE c == 81 + k
  <2>1. c \in 1 .. 81 + n /\ c \in 1 .. 113 + n /\ 83 + k = 2 + c
    BY <1>5
  <2>2. v[c] = ct[k]
    BY <1>7
  <2> HIDE DEF c
  <2>3. packet[2 + c] = w[c] /\ w[c] = v[c]
    BY <1>8, <1>9, <2>1
  <2> QED
    BY <2>1, <2>2, <2>3
<1>12. \A k \in 1 .. 32 : packet[83 + n + k] = mac[k]
  <2> TAKE k \in 1 .. 32
  <2> DEFINE c == 81 + n + k
  <2>1. c \in 1 .. 113 + n /\ 83 + n + k = 2 + c
    BY <1>5
  <2>2. w[c] = mac[k]
    BY <1>8
  <2> HIDE DEF c
  <2>3. packet[2 + c] = w[c]
    BY <1>9, <2>1
  <2> QED
    BY <2>1, <2>2, <2>3
<1>13. Sealed(packet, size, iv, ct, mac)
  BY <1>4, <1>9, <1>10, <1>11, <1>12 DEF Sealed, n
<1> QED
  BY <1>13 DEF packet, w, v, u

\* The size prefix is the number of bytes behind it.
LEMMA SizeIsRead ==
  ASSUME NEW body \in Seq(Byte), Len(body) <= 1000
  PROVE  /\ AuthSize(body) \in Seq(Byte) /\ Len(AuthSize(body)) = 2
         /\ Number(AuthSize(body)) = 113 + Len(body)
<1> DEFINE n == 65 + 16 + Len(body) + 32
           a == n \div 256
           b == n % 256
           size == <<a, b>>
<1>1. n \in Nat /\ n = 113 + Len(body) /\ n <= 1113
  BY SMT
<1>2. AuthSize(body) = size
  BY DEF AuthSize
<1> HIDE DEF n
<1>3. a \in Nat /\ a < 256 /\ b \in Nat /\ b < 256 /\ n = 256 * a + b
  BY <1>1, SMT
<1>4. a \in Byte /\ b \in Byte
  BY <1>3, Bytes
<1> HIDE DEF a, b
<1>5. size \in Seq(Byte) /\ Len(size) = 2 /\ size[1] = a /\ size[2] = b
  BY <1>4
<1> HIDE DEF size
<1>6. Len(size) <= 4
  BY <1>5
<1>7. Number(size) = 256 * a + b
  BY <1>5, <1>6, ByteNumber DEF Horner
<1> QED
  BY <1>1, <1>2, <1>3, <1>5, <1>7

\* An EIP-8 node takes the auth packet apart again.
LEMMA SealedRead ==
  ASSUME NEW sig, NEW pubkey, NEW nonce, AuthBody(sig, pubkey, nonce) \in Seq(Byte),
         Len(AuthBody(sig, pubkey, nonce)) <= 1000
  PROVE  AuthItems(BuildAuthPacket(sig, pubkey, nonce)) = Items(AuthBody(sig, pubkey, nonce))
<1> DEFINE body == AuthBody(sig, pubkey, nonce)
           size == AuthSize(body)
           pk == Filler(65, 4)
           iv == Filler(16, 3)
           ct == Cipher(body)
           mac == Digest(32, iv \o ct \o size)
           packet == BuildAuthPacket(sig, pubkey, nonce)
<1>1. body \in Seq(Byte) /\ Len(body) <= 1000 /\ Len(body) \in Nat
  OBVIOUS
<1>2. packet = size \o (pk \o iv \o ct \o mac)
  BY DEF BuildAuthPacket, EciesEncrypt
<1> HIDE DEF body, packet
<1>3. size \in Seq(Byte) /\ Len(size) = 2 /\ Number(size) = 113 + Len(body)
  BY <1>1, SizeIsRead
<1> HIDE DEF size
<1>4. pk \in Seq(Byte) /\ Len(pk) = 65 /\ iv \in Seq(Byte) /\ Len(iv) = 16
  <2>1. 3 \in Byte /\ 4 \in Byte
    BY Bytes
  <2>2. pk \in Seq(Byte) /\ Len(pk) = 65
    BY <2>1, FillerBytes
  <2>3. iv \in Seq(Byte) /\ Len(iv) = 16
    BY <2>1, FillerBytes
  <2> QED
    BY <2>2, <2>3
<1> HIDE DEF pk, iv
<1>5. ct \in Seq(Byte) /\ Len(ct) = Len(body) /\ Cipher(ct) = body
  BY <1>1, CipherTwice
<1> HIDE DEF ct
<1>6. mac \in Seq(Byte) /\ Len(mac) = 32
  <2>1. iv \o ct \o size \in Seq(Byte)
    BY <1>3, <1>4, <1>5
  <2> QED
    BY <2>1, DigestBytes
<1>7. mac = Digest(32, iv \o ct \o size)
  OBVIOUS
<1> HIDE DEF mac
<1>8. Sealed(packet, size, iv, ct, mac)
  BY <1>2, <1>3, <1>4, <1>5, <1>6, SealedParts
<1> DEFINE n == Len(ct)
<1>9. packet \in Seq(Byte) /\ n \in Nat /\ Len(packet) = 115 + n
  BY <1>5, <1>8 DEF Sealed
<1>10. /\ \A k \in 1 .. 2 : packet[k] = size[k]
       /\ \A k \in 1 .. 16 : packet[67 + k] = iv[k]
       /\ \A k \in 1 .. n : packet[83 + k] = ct[k]
       /\ \A k \in 1 .. 32 : packet[83 + n + k] = mac[k]
  BY <1>8 DEF Sealed
<1>11. SubSeq(packet, 1, 2) = size
  <2> DEFINE i == 1
             j == 2
  <2>1. i \in Int /\ j \in Int /\ 1 <= i /\ j <= Len(packet) /\ j - i + 1 = Len(size)
        /\ \A k \in 1 .. Len(size) : packet[i + k - 1] = size[k]
    BY <1>3, <1>9, <1>10
  <2> HIDE DEF i, j
  <2>2. packet \in Seq(Byte) /\ size \in Seq(Byte)
    BY <1>3, <1>9
  <2>3. SubSeq(packet, i, j) = size
    BY <2>1, <2>2, PartIs
  <2> QED
    BY <2>3 DEF i, j
<1>12. SubSeq(packet, 2 + 65 + 1, 2 + 65 + 16) = iv
  <2> DEFINE i == 2 + 65 + 1
             j == 2 + 65 + 16
  <2>0. \A k \in 1 .. 16 : i + k - 1 = 67 + k
    OBVIOUS
  <2>1. i \in Int /\ j \in Int /\ 1 <= i /\ j <= Len(packet) /\ j - i + 1 = Len(iv)
        /\ \A k \in 1 .. Len(iv) : packet[i + k - 1] = iv[k]
    BY <1>4, <1>9, <1>10, <2>0
  <2> HIDE DEF i, j
  <2>2. packet \in Seq(Byte) /\ iv \in Seq(Byte)
    BY <1>4, <1>9
  <2>3. SubSeq(packet, i, j) = iv
    BY <2>1, <2>2, PartIs
  <2> QED
    BY <2>3 DEF i, j
<1>13. SubSeq(packet, 2 + 65 + 16 + 1, Len(packet) - 32) = ct
  <2> DEFINE i == 2 + 65 + 16 + 1
             j == Len(packet) - 32
  <2>0. \A k \in 1 .. n : i + k - 1 = 83 + k
    BY <1>9
  <2>1. i \in Int /\ j \in Int /\ 1 <= i /\ j <= Len(packet) /\ j - i + 1 = Len(ct)
        /\ \A k \in 1 .. Len(ct) : packet[i + k - 1] = ct[k]
    BY <1>9, <1>10, <2>0
  <2> HIDE DEF i, j
  <2>2. packet \in Seq(Byte) /\ ct \in Seq(Byte)
    BY <1>5, <1>9
  <2>3. SubSeq(packet, i, j) = ct
    BY <2>1, <2>2, PartIs
  <2> QED
    BY <2>3 DEF i, j
<1>14. SubSeq(packet, Len(packet) - 31, Len(packet)) = mac
  <2> DEFINE i == Len(packet) - 31
             j == Len(packet)
  <2>0. \A k \in 1 .. 32 : i + k - 1 = 83 + n + k
    BY <1>9
  <2>1. i \in Int /\ j \in Int /\ 1 <= i /\ j <= Len(packet) /\ j - i + 1 = Len(mac)
        /\ \A k \in 1 .. Len(mac) : packet[i + k - 1] = mac[k]
    BY <1>6, <1>9, <1>10, <2>0
  <2> HIDE DEF i, j
  <2>2. packet \in Seq(Byte) /\ mac \in Seq(Byte)
    BY <1>6, <1>9
  <2>3. SubSeq(packet, i, j) = mac
    BY <2>1, <2>2, PartIs
  <2> QED
    BY <2>3 DEF i, j
<1>15. Len(packet) = 2 + Number(size)
  BY <1>1, <1>3, <1>5, <1>9
<1>16. AuthItems(packet) = Items(Cipher(ct))
  BY <1>7, <1>11, <1>12, <1>13, <1>14, <1>15 DEF AuthItems
<1> QED
  BY <1>5, <1>16 DEF packet, body

-----------------------------------------------------------------------------
\* What their receivers read.

\* e is a short encoding of an item.
ShortItem(e, item, m) ==
  /\ Encodes(e, item.list, item.bytes) /\ item \in Item
  /\ Len(e) \in Nat /\ Len(e) <= m

\* Short strings and numbers have short encodings.
LEMMA ShortStrings ==
  ASSUME NEW p \in Seq(Byte), NEW n \in Nat, Len(p) <= n, n <= 65
  PROVE  ShortItem(RlpBytes(p), Str(p), n + 5)
<1> DEFINE e == RlpBytes(p)
<1>0. Len(p) \in Nat /\ Len(p) <= 65
  OBVIOUS
<1>1. Len(p) <= MaxNumber
  BY <1>0, SMT DEF MaxNumber
<1>2. Encodes(e, FALSE, p)
  BY <1>1, RlpBytesEncodes
<1> HIDE DEF e
<1>3. e \in Seq(Byte) /\ Len(e) <= Len(p) + 5
  BY <1>2 DEF Encodes
<1>4. Len(e) \in Nat
  BY <1>3
<1>5. Len(e) <= n + 5
  BY <1>0, <1>3, <1>4
<1>6. Str(p) \in Item /\ Str(p).list = FALSE /\ Str(p).bytes = p
  BY DEF Str, Item
<1>7. ShortItem(e, Str(p), n + 5)
  BY <1>2, <1>4, <1>5, <1>6 DEF ShortItem
<1> QED
  BY <1>7 DEF e

LEMMA ShortNumbers ==
  ASSUME NEW n \in Nat, n <= MaxNumber
  PROVE  ShortItem(RlpUint(n), Str(UintBytes(n)), 9) /\ Canonical(n, Str(UintBytes(n)))
<1> DEFINE e == RlpUint(n)
           q == UintBytes(n)
<1>1. Encodes(e, FALSE, q) /\ Len(q) <= 4 /\ Canonical(n, Str(q))
  BY RlpUintEncodes
<1> HIDE DEF e, q
<1>2. e \in Seq(Byte) /\ q \in Seq(Byte) /\ Len(e) <= Len(q) + 5
  BY <1>1 DEF Encodes
<1>3. Len(e) \in Nat /\ Len(q) \in Nat
  BY <1>2
<1>4. Len(e) <= 9
  BY <1>1, <1>2, <1>3
<1>5. Str(q) \in Item /\ Str(q).list = FALSE /\ Str(q).bytes = q
  BY <1>2 DEF Str, Item
<1>6. ShortItem(e, Str(q), 9)
  BY <1>1, <1>3, <1>4, <1>5 DEF ShortItem
<1> QED
  BY <1>1, <1>6 DEF e, q

LEMMA StillShort ==
  ASSUME NEW e, NEW item, NEW m \in Nat, NEW n \in Nat, m <= n, ShortItem(e, item, m)
  PROVE  ShortItem(e, item, n)
BY DEF ShortItem

\* The encoding of a list of items.
ShortList(e, items, f, m) ==
  /\ Encodes(e, TRUE, f) /\ Items(f) = items /\ Items(e) = <<Lst(f)>>
  /\ ShortItem(e, Lst(f), m)

LEMMA ListIsShort ==
  ASSUME NEW es, NEW items, NEW total \in Nat, NEW m \in Nat, total <= m, Listed(es, items, total)
  PROVE  \E f : ShortList(RlpList(es), items, f, m + 5)
<1> DEFINE e == RlpList(es)
           f == FlattenSeq(es)
<1>1. Len(f) = total /\ Encodes(e, TRUE, f) /\ Items(e) = <<Lst(f)>> /\ Items(f) = items
  BY DEF Listed
<1> HIDE DEF e, f
<1>2. e \in Seq(Byte) /\ f \in Seq(Byte) /\ Len(e) <= total + 5
  BY <1>1 DEF Encodes
<1>3. Len(e) \in Nat
  BY <1>2
<1>4. Len(e) <= m + 5
  BY <1>2, <1>3
<1>5. Lst(f) \in Item /\ Lst(f).list = TRUE /\ Lst(f).bytes = f
  BY <1>2 DEF Lst, Item
<1>6. ShortItem(e, Lst(f), m + 5)
  BY <1>1, <1>3, <1>4, <1>5 DEF ShortItem
<1>7. ShortList(e, items, f, m + 5)
  BY <1>1, <1>6 DEF ShortList
<1> QED
  BY <1>7 DEF e

\* An item is its two fields.
LEMMA RecordOfItem ==
  ASSUME NEW i \in Item
  PROVE  i = [list |-> i.list, bytes |-> i.bytes]
BY DEF Item

\* A list of three short encodings, and of four.
LEMMA ShortThree ==
  ASSUME NEW m \in Nat, m <= 100, NEW a, NEW b, NEW c, NEW ia, NEW ib, NEW ic,
         ShortItem(a, ia, m), ShortItem(b, ib, m), ShortItem(c, ic, m)
  PROVE  \E f : ShortList(RlpList(<<a, b, c>>), <<ia, ib, ic>>, f, 3 * m + 5)
<1> DEFINE total == Len(a) + Len(b) + Len(c)
           es == <<a, b, c>>
           items == <<ia, ib, ic>>
<1>1. /\ Encodes(a, ia.list, ia.bytes) /\ Encodes(b, ib.list, ib.bytes) /\ Encodes(c, ic.list, ic.bytes)
      /\ ia \in Item /\ ib \in Item /\ ic \in Item
      /\ Len(a) \in Nat /\ Len(a) <= m /\ Len(b) \in Nat /\ Len(b) <= m /\ Len(c) \in Nat /\ Len(c) <= m
  BY DEF ShortItem
<1>2. total \in Nat /\ total <= 3 * m /\ total <= 300
  BY <1>1
<1>3. Len(a) + Len(b) + Len(c) <= MaxNumber
  BY <1>1, SMT DEF MaxNumber
<1>4. Listed(es, <<[list |-> ia.list, bytes |-> ia.bytes], [list |-> ib.list, bytes |-> ib.bytes],
                   [list |-> ic.list, bytes |-> ic.bytes]>>, total)
  BY <1>1, <1>3, ListOfThree
<1> HIDE DEF total, es
<1>5. /\ ia = [list |-> ia.list, bytes |-> ia.bytes] /\ ib = [list |-> ib.list, bytes |-> ib.bytes]
      /\ ic = [list |-> ic.list, bytes |-> ic.bytes]
  BY <1>1, RecordOfItem
<1>6. Listed(es, items, total)
  BY <1>4, <1>5
<1> HIDE DEF items
<1>7. \E f : ShortList(RlpList(es), items, f, 3 * m + 5)
  BY <1>2, <1>6, ListIsShort
<1> QED
  BY <1>7 DEF items, es

LEMMA ShortFour ==
  ASSUME NEW m \in Nat, m <= 100, NEW a, NEW b, NEW c, NEW d, NEW ia, NEW ib, NEW ic, NEW id,
         ShortItem(a, ia, m), ShortItem(b, ib, m), ShortItem(c, ic, m), ShortItem(d, id, m)
  PROVE  \E f : ShortList(RlpList(<<a, b, c, d>>), <<ia, ib, ic, id>>, f, 4 * m + 5)
<1> DEFINE total == Len(a) + Len(b) + Len(c) + Len(d)
           es == <<a, b, c, d>>
           items == <<ia, ib, ic, id>>
<1>1. /\ Encodes(a, ia.list, ia.bytes) /\ Encodes(b, ib.list, ib.bytes)
      /\ Encodes(c, ic.list, ic.bytes) /\ Encodes(d, id.list, id.bytes)
      /\ ia \in Item /\ ib \in Item /\ ic \in Item /\ id \in Item
      /\ Len(a) \in Nat /\ Len(a) <= m /\ Len(b) \in Nat /\ Len(b) <= m
      /\ Len(c) \in Nat /\ Len(c) <= m /\ Len(d) \in Nat /\ Len(d) <= m
  BY DEF ShortItem
<1>2. total \in Nat /\ total <= 4 * m /\ total <= 400
  BY <1>1
<1>3. Len(a) + Len(b) + Len(c) + Len(d) <= MaxNumber
  BY <1>1, SMT DEF MaxNumber
<1>4. Listed(es, <<[list |-> ia.list, bytes |-> ia.bytes], [list |-> ib.list, bytes |-> ib.bytes],
                   [list |-> ic.list, bytes |-> ic.bytes], [list |-> id.list, bytes |-> id.bytes]>>, total)
  BY <1>1, <1>3, ListOfFour
<1> HIDE DEF total, es
<1>5. /\ ia = [list |-> ia.list, bytes |-> ia.bytes] /\ ib = [list |-> ib.list, bytes |-> ib.bytes]
      /\ ic = [list |-> ic.list, bytes |-> ic.bytes] /\ id = [list |-> id.list, bytes |-> id.bytes]
  BY <1>1, RecordOfItem
<1>6. Listed(es, items, total)
  BY <1>4, <1>5
<1> HIDE DEF items
<1>7. \E f : ShortList(RlpList(es), items, f, 4 * m + 5)
  BY <1>2, <1>6, ListIsShort
<1> QED
  BY <1>7 DEF items, es

\* f holds an endpoint: the address and twice the port.
HasEndpoint(f, ip, port) ==
  \E q : Items(f) = <<Str(ip), Str(q), Str(q)>> /\ Canonical(port, Str(q))

ShortEndpoint(e, f, ip, port) == ShortItem(e, Lst(f), 70) /\ HasEndpoint(f, ip, port)

\* An endpoint is a list of the three.
LEMMA EndpointForm ==
  ASSUME NEW a, NEW b, NEW q, NEW ip, NEW port,
         ShortItem(a, Str(ip), 9), ShortItem(b, Str(q), 9), Canonical(port, Str(q))
  PROVE  \E f : ShortEndpoint(RlpList(<<a, b, b>>), f, ip, port)
<1> DEFINE e == RlpList(<<a, b, b>>)
<1>1. PICK f : ShortList(e, <<Str(ip), Str(q), Str(q)>>, f, 3 * 9 + 5)
  BY ShortThree
<1> HIDE DEF e
<1>2. ShortItem(e, Lst(f), 3 * 9 + 5) /\ Items(f) = <<Str(ip), Str(q), Str(q)>>
  BY <1>1 DEF ShortList
<1>3. ShortItem(e, Lst(f), 70)
  BY <1>2, StillShort
<1>4. HasEndpoint(f, ip, port)
  BY <1>2 DEF HasEndpoint
<1>5. ShortEndpoint(e, f, ip, port)
  BY <1>3, <1>4 DEF ShortEndpoint
<1> QED
  BY <1>5 DEF e

LEMMA EndpointRead ==
  ASSUME NEW ip \in Seq(Byte), Len(ip) <= 4, NEW port \in Nat, port < 65536
  PROVE  \E f : ShortEndpoint(Endpoint(ip, port), f, ip, port)
<1>1. port <= MaxNumber
  BY SMT DEF MaxNumber
<1>2. ShortItem(RlpBytes(ip), Str(ip), 4 + 5)
  BY ShortStrings
<1>3. ShortItem(RlpBytes(ip), Str(ip), 9)
  BY <1>2
<1>4. ShortItem(RlpUint(port), Str(UintBytes(port)), 9) /\ Canonical(port, Str(UintBytes(port)))
  BY <1>1, ShortNumbers
<1> QED
  BY <1>3, <1>4, EndpointForm DEF Endpoint

\* What a node reads in a packet that is signed over a list of items.
SignedItems(packet, type, items) ==
  /\ Items(Discv4Items(packet, type)[1].bytes) = items
  /\ SubSeq(packet, 1, 32) \in Seq(Byte) /\ Len(SubSeq(packet, 1, 32)) <= 32

\* A signed list is read as its items.
LEMMA SignedList ==
  ASSUME NEW type \in Byte, NEW data, NEW items, NEW f, NEW m, ShortList(data, items, f, m)
  PROVE  SignedItems(SignPacket(type, data), type, items)
<1> DEFINE packet == SignPacket(type, data)
           read == Discv4Items(packet, type)
           hash == SubSeq(packet, 1, 32)
<1>1. data \in Seq(Byte) /\ Items(data) = <<Lst(f)>> /\ Items(f) = items
  BY DEF ShortList, Encodes
<1>2. read = Items(data) /\ hash \in Seq(Byte) /\ Len(hash) = 32
  BY <1>1, SignedRead
<1> HIDE DEF read, packet, hash
<1>3. read[1] = Lst(f)
  BY <1>1, <1>2
<1>4. read[1].bytes = f
  BY <1>3 DEF Lst
<1>5. Items(read[1].bytes) = items
  BY <1>1, <1>4
<1>6. Len(hash) <= 32
  BY <1>2
<1>7. SignedItems(packet, type, items)
  BY <1>2, <1>5, <1>6 DEF SignedItems, read, hash
<1> QED
  BY <1>7 DEF packet

\* A PING has four items: the version, both endpoints and the time.
PingItems(items, ip, port, time) ==
  \E q, f, t, qt :
    /\ items = <<Str(q), Lst(f), Lst(t), Str(qt)>>
    /\ Canonical(4, Str(q)) /\ HasEndpoint(f, <<0, 0, 0, 0>>, 0) /\ HasEndpoint(t, ip, port)
    /\ Canonical(time, Str(qt))

LEMMA PingForm ==
  ASSUME NEW a, NEW b, NEW c, NEW d, NEW q, NEW f, NEW t, NEW qt, NEW ip, NEW port, NEW time,
         ShortItem(a, Str(q), 9), Canonical(4, Str(q)), ShortEndpoint(b, f, <<0, 0, 0, 0>>, 0),
         ShortEndpoint(c, t, ip, port), ShortItem(d, Str(qt), 9), Canonical(time, Str(qt))
  PROVE  \E items : PingItems(items, ip, port, time)
                    /\ SignedItems(SignPacket(1, RlpList(<<a, b, c, d>>)), 1, items)
<1> DEFINE e == RlpList(<<a, b, c, d>>)
           items == <<Str(q), Lst(f), Lst(t), Str(qt)>>
<1>1. /\ ShortItem(b, Lst(f), 70) /\ HasEndpoint(f, <<0, 0, 0, 0>>, 0)
      /\ ShortItem(c, Lst(t), 70) /\ HasEndpoint(t, ip, port)
  BY DEF ShortEndpoint
<1>2. ShortItem(a, Str(q), 70) /\ ShortItem(d, Str(qt), 70)
  BY StillShort
<1>3. PICK g : ShortList(e, items, g, 4 * 70 + 5)
  BY <1>1, <1>2, ShortFour
<1>4. PingItems(items, ip, port, time)
  BY <1>1 DEF PingItems
<1> HIDE DEF e, items
<1>5. 1 \in Byte
  BY Bytes
<1>6. SignedItems(SignPacket(1, e), 1, items)
  BY <1>3, <1>5, SignedList
<1> QED
  BY <1>4, <1>6 DEF e

LEMMA PingRead ==
  ASSUME NEW ip \in Seq(Byte), Len(ip) <= 4, NEW port \in Nat, port < 65536, NEW time \in Nat, time <= MaxNumber
  PROVE  \E items : PingItems(items, ip, port, time) /\ SignedItems(BuildPing(ip, port, time), 1, items)
<1> DEFINE z == <<0, 0, 0, 0>>
<1>1. z \in Seq(Byte) /\ Len(z) <= 4
  <2>1. 0 \in Byte
    BY Bytes
  <2> QED
    BY <2>1
<1>2. 4 <= MaxNumber
  BY SMT DEF MaxNumber
<1>3. /\ ShortItem(RlpUint(4), Str(UintBytes(4)), 9) /\ Canonical(4, Str(UintBytes(4)))
      /\ ShortItem(RlpUint(time), Str(UintBytes(time)), 9) /\ Canonical(time, Str(UintBytes(time)))
  BY <1>2, ShortNumbers
<1>4. PICK t : ShortEndpoint(Endpoint(ip, port), t, ip, port)
  BY EndpointRead
<1> HIDE DEF z
<1>5. PICK f : ShortEndpoint(Endpoint(z, 0), f, z, 0)
  BY <1>1, EndpointRead
<1>6. ShortEndpoint(Endpoint(<<0, 0, 0, 0>>, 0), f, <<0, 0, 0, 0>>, 0)
  BY <1>5 DEF z
<1> QED
  BY <1>3, <1>4, <1>6, PingForm DEF BuildPing

\* A PONG has three: the endpoint, the hash of the PING and the time.
PongItems(items, ip, port, hash, time) ==
  \E f, qt : /\ items = <<Lst(f), Str(hash), Str(qt)>>
             /\ HasEndpoint(f, ip, port) /\ Canonical(time, Str(qt))

LEMMA PongForm ==
  ASSUME NEW a, NEW b, NEW c, NEW f, NEW hash, NEW qt, NEW ip, NEW port, NEW time,
         ShortEndpoint(a, f, ip, port), ShortItem(b, Str(hash), 37),
         ShortItem(c, Str(qt), 9), Canonical(time, Str(qt))
  PROVE  \E items : PongItems(items, ip, port, hash, time)
                    /\ SignedItems(SignPacket(2, RlpList(<<a, b, c>>)), 2, items)
<1> DEFINE e == RlpList(<<a, b, c>>)
           items == <<Lst(f), Str(hash), Str(qt)>>
<1>1. ShortItem(a, Lst(f), 70) /\ HasEndpoint(f, ip, port)
  BY DEF ShortEndpoint
<1>2. ShortItem(b, Str(hash), 70) /\ ShortItem(c, Str(qt), 70)
  BY StillShort
<1>3. PICK g : ShortList(e, items, g, 3 * 70 + 5)
  BY <1>1, <1>2, ShortThree
<1>4. PongItems(items, ip, port, hash, time)
  BY <1>1 DEF PongItems
<1> HIDE DEF e, items
<1>5. 2 \in Byte
  BY Bytes
<1>6. SignedItems(SignPacket(2, e), 2, items)
  BY <1>3, <1>5, SignedList
<1> QED
  BY <1>4, <1>6 DEF e

LEMMA PongRead ==
  ASSUME NEW ip \in Seq(Byte), Len(ip) <= 4, NEW port \in Nat, port < 65536, NEW time \in Nat, time <= MaxNumber,
         NEW hash \in Seq(Byte), Len(hash) <= 32
  PROVE  \E items : PongItems(items, ip, port, hash, time) /\ SignedItems(BuildPong(ip, port, hash, time), 2, items)
<1>1. ShortItem(RlpUint(time), Str(UintBytes(time)), 9) /\ Canonical(time, Str(UintBytes(time)))
  BY ShortNumbers
<1>2. ShortItem(RlpBytes(hash), Str(hash), 32 + 5)
  BY ShortStrings
<1>3. ShortItem(RlpBytes(hash), Str(hash), 37)
  BY <1>2
<1>4. PICK f : ShortEndpoint(Endpoint(ip, port), f, ip, port)
  BY EndpointRead
<1> QED
  BY <1>1, <1>3, <1>4, PongForm DEF BuildPong

\* An auth packet has four: signature, key, nonce and the version.
AuthHas(items, sig, pubkey, nonce) ==
  \E q : items = <<Str(sig), Str(pubkey), Str(nonce), Str(q)>> /\ Canonical(4, Str(q))

LEMMA AuthForm ==
  ASSUME NEW a, NEW b, NEW c, NEW d, NEW sig, NEW pubkey, NEW nonce, NEW q,
         ShortItem(a, Str(sig), 70), ShortItem(b, Str(pubkey), 70), ShortItem(c, Str(nonce), 70),
         ShortItem(d, Str(q), 9), Canonical(4, Str(q))
  PROVE  \E items, f : AuthHas(items, sig, pubkey, nonce) /\ ShortList(RlpList(<<a, b, c, d>>), items, f, 285)
<1> DEFINE e == RlpList(<<a, b, c, d>>)
           items == <<Str(sig), Str(pubkey), Str(nonce), Str(q)>>
<1>1. ShortItem(d, Str(q), 70)
  BY StillShort
<1>2. PICK g : ShortList(e, items, g, 4 * 70 + 5)
  BY <1>1, ShortFour
<1>3. AuthHas(items, sig, pubkey, nonce)
  BY DEF AuthHas
<1> HIDE DEF e, items
<1>4. ShortList(e, items, g, 285)
  BY <1>2
<1> QED
  BY <1>3, <1>4 DEF e

LEMMA AuthRead ==
  ASSUME NEW sig \in Seq(Byte), NEW pubkey \in Seq(Byte), NEW nonce \in Seq(Byte),
         Len(sig) <= 65, Len(pubkey) <= 65, Len(nonce) <= 65
  PROVE  AuthHas(Items(AuthItems(BuildAuthPacket(sig, pubkey, nonce))[1].bytes), sig, pubkey, nonce)
<1> DEFINE body == AuthBody(sig, pubkey, nonce)
           read == AuthItems(BuildAuthPacket(sig, pubkey, nonce))
<1>1. 4 <= MaxNumber
  BY SMT DEF MaxNumber
<1>2. ShortItem(RlpUint(4), Str(UintBytes(4)), 9) /\ Canonical(4, Str(UintBytes(4)))
  BY <1>1, ShortNumbers
<1>3. /\ ShortItem(RlpBytes(sig), Str(sig), 65 + 5) /\ ShortItem(RlpBytes(pubkey), Str(pubkey), 65 + 5)
      /\ ShortItem(RlpBytes(nonce), Str(nonce), 65 + 5)
  BY ShortStrings
<1>4. /\ ShortItem(RlpBytes(sig), Str(sig), 70) /\ ShortItem(RlpBytes(pubkey), Str(pubkey), 70)
      /\ ShortItem(RlpBytes(nonce), Str(nonce), 70)
  BY <1>3
<1>5. PICK items, f : AuthHas(items, sig, pubkey, nonce) /\ ShortList(body, items, f, 285)
  BY <1>2, <1>4, AuthForm DEF AuthBody
<1> HIDE DEF body
<1>6. body \in Seq(Byte) /\ Len(body) \in Nat /\ Len(body) <= 285 /\ Items(body) = <<Lst(f)>> /\ Items(f) = items
  BY <1>5 DEF ShortList, ShortItem, Encodes
<1>7. Len(body) <= 1000
  BY <1>6
<1>8. read = Items(body)
  BY <1>6, <1>7, SealedRead DEF body
<1> HIDE DEF read
<1>9. read[1] = Lst(f)
  BY <1>6, <1>8
<1>10. read[1].bytes = f
  BY <1>9 DEF Lst
<1> QED
  BY <1>5, <1>6, <1>10 DEF read

\* The items of an endpoint and of a PING, a PONG and an auth packet, one by one.
EndpointIs(f, ip, port) ==
  LET from == Items(f)
  IN  Len(from) = 3 /\ from[1] = Str(ip) /\ Canonical(port, from[2]) /\ Canonical(port, from[3])

LEMMA EndpointParts ==
  ASSUME NEW f, NEW ip, NEW port, HasEndpoint(f, ip, port)
  PROVE  EndpointIs(f, ip, port)
<1> DEFINE from == Items(f)
<1>1. PICK q : from = <<Str(ip), Str(q), Str(q)>> /\ Canonical(port, Str(q))
  BY DEF HasEndpoint
<1> HIDE DEF from
<1>2. Len(from) = 3 /\ from[1] = Str(ip) /\ from[2] = Str(q) /\ from[3] = Str(q)
  BY <1>1
<1>3. Len(from) = 3 /\ from[1] = Str(ip) /\ Canonical(port, from[2]) /\ Canonical(port, from[3])
  BY <1>1, <1>2
<1> QED
  BY <1>3 DEF EndpointIs, from

LEMMA PingParts ==
  ASSUME NEW i, NEW ip, NEW port, NEW time, PingItems(i, ip, port, time)
  PROVE  /\ Len(i) = 4 /\ Canonical(4, i[1]) /\ i[2].list /\ i[3].list /\ Canonical(time, i[4])
         /\ EndpointIs(i[2].bytes, <<0, 0, 0, 0>>, 0) /\ EndpointIs(i[3].bytes, ip, port)
<1>1. PICK q, f, t, qt :
        /\ i = <<Str(q), Lst(f), Lst(t), Str(qt)>>
        /\ Canonical(4, Str(q)) /\ HasEndpoint(f, <<0, 0, 0, 0>>, 0) /\ HasEndpoint(t, ip, port)
        /\ Canonical(time, Str(qt))
  BY DEF PingItems
<1>2. Len(i) = 4 /\ i[1] = Str(q) /\ i[2] = Lst(f) /\ i[3] = Lst(t) /\ i[4] = Str(qt)
  BY <1>1
<1>3. i[2].list /\ i[3].list /\ i[2].bytes = f /\ i[3].bytes = t
  BY <1>2 DEF Lst
<1>4. EndpointIs(f, <<0, 0, 0, 0>>, 0) /\ EndpointIs(t, ip, port)
  BY <1>1, EndpointParts
<1> QED
  BY <1>1, <1>2, <1>3, <1>4

LEMMA PongParts ==
  ASSUME NEW o, NEW ip, NEW port, NEW hash, NEW time, PongItems(o, ip, port, hash, time)
  PROVE  /\ Len(o) = 3 /\ o[1].list /\ o[2] = Str(hash) /\ Canonical(time, o[3])
         /\ EndpointIs(o[1].bytes, ip, port)
<1>1. PICK f, qt : /\ o = <<Lst(f), Str(hash), Str(qt)>>
                   /\ HasEndpoint(f, ip, port) /\ Canonical(time, Str(qt))
  BY DEF PongItems
<1>2. Len(o) = 3 /\ o[1] = Lst(f) /\ o[2] = Str(hash) /\ o[3] = Str(qt)
  BY <1>1
<1>3. o[1].list /\ o[1].bytes = f
  BY <1>2 DEF Lst
<1>4. EndpointIs(f, ip, port)
  BY <1>1, EndpointParts
<1> QED
  BY <1>1, <1>2, <1>3, <1>4

LEMMA AuthParts ==
  ASSUME NEW a, NEW sig, NEW pubkey, NEW nonce, AuthHas(a, sig, pubkey, nonce)
  PROVE  /\ Len(a) = 4 /\ a[1] = Str(sig) /\ a[2] = Str(pubkey) /\ a[3] = Str(nonce)
         /\ Canonical(4, a[4])
<1>1. PICK q : a = <<Str(sig), Str(pubkey), Str(nonce), Str(q)>> /\ Canonical(4, Str(q))
  BY DEF AuthHas
<1>2. Len(a) = 4 /\ a[1] = Str(sig) /\ a[2] = Str(pubkey) /\ a[3] = Str(nonce) /\ a[4] = Str(q)
  BY <1>1
<1> QED
  BY <1>1, <1>2

\* The key material of an auth packet is short.
LEMMA ShortFiller ==
  ASSUME NEW c \in Byte
  PROVE  /\ Filler(65, c) \in Seq(Byte) /\ Filler(64, c) \in Seq(Byte) /\ Filler(32, c) \in Seq(Byte)
         /\ Len(Filler(65, c)) <= 65 /\ Len(Filler(64, c)) <= 65 /\ Len(Filler(32, c)) <= 65
<1>1. \A n \in Nat : n <= 65 => Filler(n, c) \in Seq(Byte) /\ Len(Filler(n, c)) <= 65
  <2> SUFFICES ASSUME NEW n \in Nat, n <= 65
               PROVE  Filler(n, c) \in Seq(Byte) /\ Len(Filler(n, c)) <= 65
    OBVIOUS
  <2> DEFINE x == Filler(n, c)
  <2>1. x \in Seq(Byte) /\ Len(x) = n
    BY FillerBytes
  <2> HIDE DEF x
  <2>2. Len(x) <= 65
    BY <2>1
  <2> QED
    BY <2>1, <2>2 DEF x
<1> QED
  BY <1>1

\* Of any input.
LEMMA PacketsOfInput == Init => PacketsRead
<1> SUFFICES ASSUME Init, function = "packets"
             PROVE  PacketsRead
  BY DEF PacketsRead
<1> DEFINE port == input[1]
           time == input[2]
           secret == input[3]
           ip == <<secret, 0, 127, 128>>
           ping == BuildPing(ip, port, time)
           hash == SubSeq(ping, 1, 32)
           pong == BuildPong(ip, port, hash, time)
           sig == Filler(65, secret)
           pubkey == Filler(64, secret)
           nonce == Filler(32, secret)
           auth == BuildAuthPacket(sig, pubkey, nonce)
           i == Items(Discv4Items(ping, 1)[1].bytes)
           from == Items(i[2].bytes)
           to == Items(i[3].bytes)
           o == Items(Discv4Items(pong, 2)[1].bytes)
           back == Items(o[1].bytes)
           a == Items(AuthItems(auth)[1].bytes)
<1>1. port \in Ports /\ time \in Numbers /\ secret \in Secrets
  BY DEF Init
<1>2. port \in Nat /\ port < 65536 /\ time \in Nat /\ time <= MaxNumber /\ secret \in Byte
  BY <1>1, FunctionsAssumption DEF BytesAssumption
<1> HIDE DEF port, time, secret
<1>3. ip \in Seq(Byte) /\ Len(ip) <= 4
  <2>1. 0 \in Byte /\ 127 \in Byte /\ 128 \in Byte
    BY Bytes
  <2> QED
    BY <1>2, <2>1
<1>4. /\ sig \in Seq(Byte) /\ pubkey \in Seq(Byte) /\ nonce \in Seq(Byte)
      /\ Len(sig) <= 65 /\ Len(pubkey) <= 65 /\ Len(nonce) <= 65
  BY <1>2, ShortFiller
<1> HIDE DEF sig, pubkey, nonce, ip
<1>5. PICK pings : PingItems(pings, ip, port, time) /\ SignedItems(ping, 1, pings)
  BY <1>2, <1>3, PingRead
<1> HIDE DEF ping
<1>6. i = pings /\ hash \in Seq(Byte) /\ Len(hash) <= 32
  BY <1>5 DEF SignedItems
<1> HIDE DEF hash, i
<1>7. PICK pongs : PongItems(pongs, ip, port, hash, time) /\ SignedItems(pong, 2, pongs)
  BY <1>2, <1>3, <1>6, PongRead
<1> HIDE DEF pong
<1>8. o = pongs
  BY <1>7 DEF SignedItems
<1> HIDE DEF o
<1>9. AuthHas(a, sig, pubkey, nonce)
  BY <1>4, AuthRead
<1> HIDE DEF a, auth
<1>10. /\ Len(i) = 4 /\ Canonical(4, i[1]) /\ i[2].list /\ i[3].list /\ Canonical(time, i[4])
       /\ EndpointIs(i[2].bytes, <<0, 0, 0, 0>>, 0) /\ EndpointIs(i[3].bytes, ip, port)
  BY <1>5, <1>6, PingParts
<1>11. /\ Len(o) = 3 /\ o[1].list /\ o[2] = Str(hash) /\ Canonical(time, o[3])
       /\ EndpointIs(o[1].bytes, ip, port)
  BY <1>7, <1>8, PongParts
<1>12. /\ Len(a) = 4 /\ a[1] = Str(sig) /\ a[2] = Str(pubkey) /\ a[3] = Str(nonce)
       /\ Canonical(4, a[4])
  BY <1>9, AuthParts
<1>13. /\ Len(from) = 3 /\ from[1] = Str(<<0, 0, 0, 0>>) /\ Canonical(0, from[2]) /\ Canonical(0, from[3])
       /\ Len(to) = 3 /\ to[1] = Str(ip) /\ Canonical(port, to[2]) /\ Canonical(port, to[3])
       /\ Len(back) = 3 /\ back[1] = Str(ip) /\ Canonical(port, back[2]) /\ Canonical(port, back[3])
  BY <1>10, <1>11 DEF EndpointIs
<1> HIDE DEF from, to, back
<1>14. /\ Len(i) = 4 /\ Canonical(4, i[1]) /\ i[2].list /\ i[3].list /\ Canonical(time, i[4])
       /\ Len(from) = 3 /\ from[1] = Str(<<0, 0, 0, 0>>) /\ Canonical(0, from[2]) /\ Canonical(0, from[3])
       /\ Len(to) = 3 /\ to[1] = Str(ip) /\ Canonical(port, to[2]) /\ Canonical(port, to[3])
       /\ Len(o) = 3 /\ o[1].list /\ o[2] = Str(hash) /\ Canonical(time, o[3])
       /\ Len(back) = 3 /\ back[1] = Str(ip) /\ Canonical(port, back[2]) /\ Canonical(port, back[3])
       /\ Len(a) = 4 /\ a[1] = Str(sig) /\ a[2] = Str(pubkey)
       /\ a[3] = Str(nonce) /\ Canonical(4, a[4])
  BY <1>10, <1>11, <1>12, <1>13
<1> QED
  BY <1>14 DEF PacketsRead, from, to, back, i, o, a, auth, ping, pong, hash, ip, sig, pubkey, nonce, port, time, secret

\* Every packet the probes send is one its receiver can read.
THEOREM PacketsAreRead == Spec => []PacketsRead
BY StaysAtInput, PacketsOfInput, PTL

-----------------------------------------------------------------------------
\* The page: the jobs of the app's configuration.

\* Named targets, by name no two alike.
LEMMA NamedDistinct ==
  ASSUME NEW s, \A x, y \in 1 .. Len(s) : s[x].name = s[y].name => x = y
  PROVE  Distinct(s)
BY DEF Distinct

LEMMA RpcHostsListed ==
  /\ Len(RpcHosts) = 8 /\ RpcHosts \in Seq(ToSet(RpcHosts))
  /\ \A x, y \in 1 .. 8 : RpcHosts[x].name = RpcHosts[y].name => x = y
<1>1. /\ RpcHosts[1].name = "publicnode" /\ RpcHosts[2].name = "cloudflare"
      /\ RpcHosts[3].name = "llamarpc" /\ RpcHosts[4].name = "drpc"
      /\ RpcHosts[5].name = "flashbots" /\ RpcHosts[6].name = "1rpc"
      /\ RpcHosts[7].name = "mevblocker" /\ RpcHosts[8].name = "blast"
  BY DEF RpcHosts, Target
<1>2. Len(RpcHosts) = 8 /\ RpcHosts \in Seq(ToSet(RpcHosts))
  BY DEF RpcHosts, ToSet
<1> HIDE DEF RpcHosts
<1>3. \A x, y \in 1 .. 8 : RpcHosts[x].name = RpcHosts[y].name => x = y
  BY <1>1
<1> QED
  BY <1>2, <1>3

LEMMA BootNodesListed ==
  /\ Len(BootNodes) = 4 /\ BootNodes \in Seq(ToSet(BootNodes))
  /\ \A x, y \in 1 .. 4 : BootNodes[x].name = BootNodes[y].name => x = y
  /\ \A x \in 1 .. 4 : BootNodes[x].at # Open /\ BootNodes[x].name # Close
<1>1. /\ BootNodes[1].name = "EF-ap-southeast" /\ BootNodes[2].name = "EF-us-east"
      /\ BootNodes[3].name = "EF-hetzner-hel" /\ BootNodes[4].name = "EF-hetzner-fsn"
      /\ BootNodes[1].at = "18.138.108.67" /\ BootNodes[2].at = "3.209.45.79"
      /\ BootNodes[3].at = "65.108.70.101" /\ BootNodes[4].at = "157.90.35.166"
  BY DEF BootNodes, Target
<1>2. Len(BootNodes) = 4 /\ BootNodes \in Seq(ToSet(BootNodes))
  BY DEF BootNodes, ToSet
<1> HIDE DEF BootNodes
<1>3. \A x, y \in 1 .. 4 : BootNodes[x].name = BootNodes[y].name => x = y
  BY <1>1
<1>4. \A x \in 1 .. 4 : BootNodes[x].at # Open /\ BootNodes[x].name # Close
  BY <1>1 DEF Open, Close
<1> QED
  BY <1>2, <1>3, <1>4

\* The two lists of the configuration agree.
LEMMA BootListsAgree == BootNodesAgain = BootNodes
BY DEF BootNodes, BootNodesAgain

\* Targets with no name twice, n of them.
Named(s, n) ==
  /\ Len(s) = n /\ s \in Seq(ToSet(s))
  /\ \A x, y \in 1 .. n : s[x].name = s[y].name => x = y

LEMMA OthersListed ==
  /\ Named(<<>>, 0)
  /\ Named(DefaultConfig.wss_jsonrpc, 2)
  /\ Named(DefaultConfig.discv5_consensus, 3)
  /\ Named(DefaultConfig.beacon_https, 2)
<1>1. Named(<<>>, 0)
  BY DEF Named
<1>2. Named(DefaultConfig.wss_jsonrpc, 2)
  <2> DEFINE s == DefaultConfig.wss_jsonrpc
  <2>1. s = <<RpcHosts[1], RpcHosts[4]>>
    BY DEF DefaultConfig
  <2>2. RpcHosts[1].name # RpcHosts[4].name
    BY RpcHostsListed
  <2> HIDE DEF s
  <2>3. Len(s) = 2 /\ s \in Seq(ToSet(s)) /\ s[1] = RpcHosts[1] /\ s[2] = RpcHosts[4]
    BY <2>1 DEF ToSet
  <2>4. \A x, y \in 1 .. 2 : s[x].name = s[y].name => x = y
    BY <2>2, <2>3
  <2> QED
    BY <2>3, <2>4 DEF Named, s
<1>3. Named(DefaultConfig.discv5_consensus, 3)
  <2> DEFINE s == DefaultConfig.discv5_consensus
  <2>1. s = <<Target("teku-aws-ohio", "3.147.37.0"), Target("teku-aws-sydney", "3.107.124.68"),
              Target("nimbus-frankfurt", "3.120.104.18")>>
    BY DEF DefaultConfig
  <2> HIDE DEF s
  <2>2. Len(s) = 3 /\ s \in Seq(ToSet(s))
    BY <2>1 DEF ToSet
  <2>3. s[1].name = "teku-aws-ohio" /\ s[2].name = "teku-aws-sydney" /\ s[3].name = "nimbus-frankfurt"
    BY <2>1 DEF Target
  <2>4. \A x, y \in 1 .. 3 : s[x].name = s[y].name => x = y
    BY <2>3
  <2> QED
    BY <2>2, <2>4 DEF Named, s
<1>4. Named(DefaultConfig.beacon_https, 2)
  <2> DEFINE s == DefaultConfig.beacon_https
  <2>1. s = <<Target("publicnode", "ethereum-beacon-api.publicnode.com"),
              Target("chainsafe-lodestar", "lodestar-mainnet.chainsafe.io")>>
    BY DEF DefaultConfig
  <2> HIDE DEF s
  <2>2. Len(s) = 2 /\ s \in Seq(ToSet(s))
    BY <2>1 DEF ToSet
  <2>3. s[1].name = "publicnode" /\ s[2].name = "chainsafe-lodestar"
    BY <2>1 DEF Target
  <2>4. \A x, y \in 1 .. 2 : s[x].name = s[y].name => x = y
    BY <2>3
  <2> QED
    BY <2>2, <2>4 DEF Named, s
<1> QED
  BY <1>1, <1>2, <1>3, <1>4

LEMMA DnsCompareListed == Named(DefaultConfig.dns_compare, 6)
<1> DEFINE s == DefaultConfig.dns_compare
           a == SubSeq(RpcHosts, 1, 4)
           b == <<Target("beacon-publicnode", "ethereum-beacon-api.publicnode.com"),
                  Target("beacon-chainsafe", "lodestar-mainnet.chainsafe.io")>>
           S == ToSet(RpcHosts) \cup ToSet(b)
<1>1. s = a \o b
  BY DEF DefaultConfig
<1>2. b \in Seq(ToSet(b)) /\ Len(b) = 2 /\ b[1].name = "beacon-publicnode" /\ b[2].name = "beacon-chainsafe"
  BY DEF Target, ToSet
<1>3. RpcHosts \in Seq(S) /\ b \in Seq(S)
  <2> HIDE DEF b
  <2>1. ToSet(RpcHosts) \subseteq S /\ ToSet(b) \subseteq S
    OBVIOUS
  <2> HIDE DEF S
  <2> QED
    BY <1>2, <2>1, RpcHostsListed, SeqMonotone
<1>4. a \in Seq(S) /\ Len(a) = 4 /\ \A k \in 1 .. 4 : a[k] = RpcHosts[k]
  BY <1>3, RpcHostsListed, SubSeqPlaces
<1>5. /\ RpcHosts[1].name = "publicnode" /\ RpcHosts[2].name = "cloudflare"
      /\ RpcHosts[3].name = "llamarpc" /\ RpcHosts[4].name = "drpc"
  BY DEF RpcHosts, Target
<1> HIDE DEF s, a, b, S
<1>6. s \in Seq(S) /\ SideBySide(s, a, b)
  BY <1>1, <1>3, <1>4, ConcatPlaces
<1>7. /\ Len(s) = 6 /\ \A k \in 1 .. 4 : s[k] = RpcHosts[k]
      /\ s[5] = b[1] /\ s[6] = b[2]
  BY <1>2, <1>4, <1>6 DEF SideBySide
<1>8. \A x, y \in 1 .. 6 : s[x].name = s[y].name => x = y
  BY <1>2, <1>5, <1>7
<1>9. s \in Seq(ToSet(s))
  BY <1>6 DEF ToSet
<1> QED
  BY <1>7, <1>8, <1>9 DEF Named, s

\* How many targets each section of the app's configuration has.
Targeted == <<0, 8, 8, 2, 0, 4, 4, 4, 6, 3, 2>>

LEMMA DefaultTargets ==
  ASSUME NEW s \in 1 .. 11
  PROVE  Plan[s][1] \in AllCompiled /\ Named(DefaultConfig[Plan[s][1]], Targeted[s])
<1>1. Named(RpcHosts, 8) /\ Named(BootNodes, 4)
  BY RpcHostsListed, BootNodesListed DEF Named
<1>2. /\ DefaultConfig.control_http = <<>> /\ DefaultConfig.tcp = RpcHosts
      /\ DefaultConfig.https_jsonrpc = RpcHosts /\ DefaultConfig.discv5_execution = <<>>
      /\ DefaultConfig.p2p_boot_nodes = BootNodes /\ DefaultConfig.discv4_execution = BootNodes
      /\ DefaultConfig.rlpx_targets = BootNodes
  BY BootListsAgree DEF DefaultConfig
<1>3. AllCompiled = {Plan[u][1] : u \in 1 .. 11}
  BY DEF AllCompiled, DefaultConfig, Plan
<1>4. /\ Plan[1][1] = "control_http" /\ Plan[2][1] = "tcp" /\ Plan[3][1] = "https_jsonrpc"
      /\ Plan[4][1] = "wss_jsonrpc" /\ Plan[5][1] = "discv5_execution" /\ Plan[6][1] = "p2p_boot_nodes"
      /\ Plan[7][1] = "discv4_execution" /\ Plan[8][1] = "rlpx_targets" /\ Plan[9][1] = "dns_compare"
      /\ Plan[10][1] = "discv5_consensus" /\ Plan[11][1] = "beacon_https"
  BY DEF Plan
<1>5. Named(DefaultConfig[Plan[s][1]], Targeted[s])
  <2>1. CASE s \in {1, 5}
    BY <1>2, <1>4, <2>1, OthersListed DEF Targeted
  <2>2. CASE s \in {2, 3}
    BY <1>1, <1>2, <1>4, <2>2 DEF Targeted
  <2>3. CASE s \in {6, 7, 8}
    BY <1>1, <1>2, <1>4, <2>3 DEF Targeted
  <2>4. CASE s \in {4, 10, 11}
    BY <1>4, <2>4, OthersListed DEF Targeted
  <2>5. CASE s = 9
    BY <1>4, <2>5, DnsCompareListed DEF Targeted
  <2> QED
    BY <2>1, <2>2, <2>3, <2>4, <2>5
<1> QED
  BY <1>3, <1>5

\* The jobs of the app's configuration: 67, and none twice.
LEMMA DefaultJobs ==
  /\ AllLists(DefaultConfig, AllCompiled)
  /\ BuildJobs(DefaultConfig, AllCompiled) \in Seq(PlanJobs(DefaultConfig))
  /\ Distinct(BuildJobs(DefaultConfig, AllCompiled))
  /\ Len(BuildJobs(DefaultConfig, AllCompiled)) = 67
<1> DEFINE config == DefaultConfig
           compiled == AllCompiled
           built == BuildJobs(config, compiled)
<1>1. DOMAIN Plan = 1 .. 11
  BY DEF Plan
<1>2. \A s \in 1 .. 11 : Plan[s][1] \in compiled /\ Named(config[Plan[s][1]], Targeted[s])
  BY DefaultTargets
<1> HIDE DEF config, compiled
<1>3. \A s \in 1 .. 11 : Distinct(config[Plan[s][1]])
  BY <1>2 DEF Named, Distinct
<1>4. AllLists(config, compiled) /\ NoTargetTwice(config, compiled)
  BY <1>1, <1>2, <1>3 DEF AllLists, NoTargetTwice, Named
<1>5. built \in Seq(PlanJobs(config))
  BY <1>4, BuiltJobs
<1>6. /\ Distinct(built)
      /\ \E cut : /\ cut[0] = 0 /\ cut[11] = Len(built)
                  /\ \A s \in 1 .. 11 : cut[s] = cut[s - 1] + SectionSize(s, config, compiled)
  BY <1>4, BuiltDistinct
<1> HIDE DEF built
<1>7. PICK cut : /\ cut[0] = 0 /\ cut[11] = Len(built)
                 /\ \A s \in 1 .. 11 : cut[s] = cut[s - 1] + SectionSize(s, config, compiled)
  BY <1>6
<1>8. \A s \in 1 .. 11 : SectionSize(s, config, compiled) = Targeted[s] * Len(Plan[s][2])
  BY <1>2 DEF SectionSize, Named
<1>9. /\ Len(Plan[1][2]) = 1 /\ Len(Plan[2][2]) = 3 /\ Len(Plan[3][2]) = 2 /\ Len(Plan[4][2]) = 2
      /\ Len(Plan[5][2]) = 1 /\ Len(Plan[6][2]) = 1 /\ Len(Plan[7][2]) = 1 /\ Len(Plan[8][2]) = 1
      /\ Len(Plan[9][2]) = 1 /\ Len(Plan[10][2]) = 1 /\ Len(Plan[11][2]) = 1
  BY DEF Plan
<1>10. /\ SectionSize(1, config, compiled) = 0 /\ SectionSize(2, config, compiled) = 24
       /\ SectionSize(3, config, compiled) = 16 /\ SectionSize(4, config, compiled) = 4
       /\ SectionSize(5, config, compiled) = 0 /\ SectionSize(6, config, compiled) = 4
       /\ SectionSize(7, config, compiled) = 4 /\ SectionSize(8, config, compiled) = 4
       /\ SectionSize(9, config, compiled) = 6 /\ SectionSize(10, config, compiled) = 3
       /\ SectionSize(11, config, compiled) = 2
  <2>1. /\ Targeted[1] = 0 /\ Targeted[2] = 8 /\ Targeted[3] = 8 /\ Targeted[4] = 2 /\ Targeted[5] = 0
        /\ Targeted[6] = 4 /\ Targeted[7] = 4 /\ Targeted[8] = 4 /\ Targeted[9] = 6 /\ Targeted[10] = 3
        /\ Targeted[11] = 2
    BY DEF Targeted
  <2> HIDE DEF Plan, Targeted
  <2>2. /\ SectionSize(1, config, compiled) = Targeted[1] * Len(Plan[1][2])
        /\ SectionSize(2, config, compiled) = Targeted[2] * Len(Plan[2][2])
        /\ SectionSize(3, config, compiled) = Targeted[3] * Len(Plan[3][2])
        /\ SectionSize(4, config, compiled) = Targeted[4] * Len(Plan[4][2])
        /\ SectionSize(5, config, compiled) = Targeted[5] * Len(Plan[5][2])
        /\ SectionSize(6, config, compiled) = Targeted[6] * Len(Plan[6][2])
        /\ SectionSize(7, config, compiled) = Targeted[7] * Len(Plan[7][2])
        /\ SectionSize(8, config, compiled) = Targeted[8] * Len(Plan[8][2])
        /\ SectionSize(9, config, compiled) = Targeted[9] * Len(Plan[9][2])
        /\ SectionSize(10, config, compiled) = Targeted[10] * Len(Plan[10][2])
        /\ SectionSize(11, config, compiled) = Targeted[11] * Len(Plan[11][2])
    BY <1>8
  <2> QED
    BY <1>9, <2>1, <2>2
<1>11. /\ cut[1] = cut[0] + SectionSize(1, config, compiled) /\ cut[2] = cut[1] + SectionSize(2, config, compiled)
       /\ cut[3] = cut[2] + SectionSize(3, config, compiled) /\ cut[4] = cut[3] + SectionSize(4, config, compiled)
       /\ cut[5] = cut[4] + SectionSize(5, config, compiled) /\ cut[6] = cut[5] + SectionSize(6, config, compiled)
       /\ cut[7] = cut[6] + SectionSize(7, config, compiled) /\ cut[8] = cut[7] + SectionSize(8, config, compiled)
       /\ cut[9] = cut[8] + SectionSize(9, config, compiled) /\ cut[10] = cut[9] + SectionSize(10, config, compiled)
       /\ cut[11] = cut[10] + SectionSize(11, config, compiled)
  BY <1>7
<1>12. cut[11] = 67
  BY <1>7, <1>10, <1>11
<1> QED
  BY <1>4, <1>5, <1>6, <1>7, <1>12 DEF built, config, compiled

\* The jobs of n live peers.
LEMMA LiveJobs ==
  ASSUME NEW n \in Nat
  PROVE  /\ LivePeerJobs(Peers(n)) \in Seq([kind : PeerKinds, target : ToSet(Peers(n))])
         /\ Distinct(LivePeerJobs(Peers(n)))
         /\ Len(LivePeerJobs(Peers(n))) = n * 2
<1> DEFINE kinds == <<"beacon_tcp_connect", "lib_p2p_handshake">>
           targets == Peers(n)
<1>1. kinds \in Seq(PeerKinds) /\ Len(kinds) = 2 /\ Distinct(kinds)
  BY DEF PeerKinds, Distinct
<1>2. targets = [i \in 1 .. n |-> targets[i]] /\ \A i \in 1 .. n : targets[i].at = i /\ targets[i] \in ToSet(targets)
  BY DEF Peers, Target, ToSet
<1>3. LivePeerJobs(targets) = JobsFor(targets, kinds)
  BY DEF LivePeerJobs
<1> HIDE DEF kinds, targets
<1>4. targets \in Seq(ToSet(targets)) /\ Len(targets) = n
  BY <1>2, IsSequence
<1>5. Distinct(targets)
  BY <1>2, <1>4 DEF Distinct
<1>6. JobsFor(targets, kinds) \in Seq([kind : PeerKinds, target : ToSet(targets)])
  BY <1>1, <1>4, JobsOf
<1>7. Distinct(JobsFor(targets, kinds)) /\ Len(JobsFor(targets, kinds)) = n * 2
  BY <1>1, <1>4, <1>5, JobsDistinct
<1> QED
  BY <1>3, <1>6, <1>7 DEF targets

\* The one table of the page that shows a kind, and the section of the map
\* that has it.
TableOf(kind, t) ==
  /\ kind \notin ExecP2pKinds \cup BeaconKinds <=> t = 1
  /\ kind \in ExecP2pKinds <=> t = 2
  /\ kind \in BeaconKinds <=> t = 3
  /\ kind \in ProbeSections[t]

LEMMA KindsShown ==
  ASSUME NEW kind \in PlanKinds \cup PeerKinds
  PROVE  kind \in KindLabels /\ \E t \in 1 .. 3 : TableOf(kind, t)
<1>1. CASE kind \in {"dns_resolve", "tcp_connect", "tls_handshake", "http_control", "https_json_rpc",
                     "https_json_rpc_write", "wss_json_rpc", "wss_subscribe"}
  BY <1>1 DEF TableOf, KindLabels, ExecP2pKinds, BeaconKinds, ProbeSections
<1>2. CASE kind \in ExecP2pKinds
  BY <1>2 DEF TableOf, KindLabels, ExecP2pKinds, BeaconKinds, ProbeSections
<1>3. CASE kind \in BeaconKinds
  BY <1>3 DEF TableOf, KindLabels, ExecP2pKinds, BeaconKinds, ProbeSections
<1> QED
  BY <1>1, <1>2, <1>3 DEF PlanKinds, SingleKinds, PeerKinds, ExecP2pKinds, BeaconKinds

LEMMA PageOfInput == Init => ShownOnce
<1> SUFFICES ASSUME Init, function = "page" PROVE ShownOnce
  BY DEF ShownOnce
<1> DEFINE n == input
           built == BuildJobs(DefaultConfig, AllCompiled)
           live == LivePeerJobs(Peers(n))
           results == built \o live
           tables == Tables(results)
           C == UNION {ToSet(DefaultConfig[Plan[s][1]]) : s \in DOMAIN Plan}
           P == ToSet(Peers(n))
           T == C \cup P
           J == [kind : PlanKinds \cup PeerKinds, target : T]
<1>1. n \in 0 .. 216 /\ n \in Nat
  <2>1. input \in PeerCounts
    BY DEF Init
  <2>2. PeerCounts \subseteq 0 .. 216
    BY FunctionsAssumption DEF PeersAssumption
  <2> QED
    BY <2>1, <2>2
<1>2. built \in Seq(J) /\ Distinct(built) /\ Len(built) = 67
      /\ \A i \in 1 .. Len(built) : built[i].kind \in PlanKinds
  <2>1. built \in Seq(PlanJobs(DefaultConfig)) /\ Distinct(built) /\ Len(built) = 67
    BY DefaultJobs
  <2>2. PlanJobs(DefaultConfig) \subseteq J /\ \A job \in PlanJobs(DefaultConfig) : job.kind \in PlanKinds
    BY DEF PlanJobs
  <2> HIDE DEF built, J
  <2>3. built \in Seq(J)
    BY <2>1, <2>2, SeqMonotone
  <2>4. \A i \in DOMAIN built : built[i] \in PlanJobs(DefaultConfig)
    BY <2>1, SeqElements
  <2>5. DOMAIN built = 1 .. Len(built)
    BY <2>3
  <2> QED
    BY <2>1, <2>2, <2>3, <2>4, <2>5
<1>3. live \in Seq(J) /\ Distinct(live) /\ Len(live) = n * 2
      /\ \A i \in 1 .. Len(live) : live[i].kind \in PeerKinds
  <2> DEFINE L == [kind : PeerKinds, target : P]
  <2>1. live \in Seq(L) /\ Distinct(live) /\ Len(live) = n * 2
    BY <1>1, LiveJobs
  <2>2. L \subseteq J /\ \A job \in L : job.kind \in PeerKinds
    <3> HIDE DEF C, P
    <3> QED
      OBVIOUS
  <2> HIDE DEF live, J, L
  <2>3. live \in Seq(J)
    BY <2>1, <2>2, SeqMonotone
  <2>4. \A i \in 1 .. Len(live) : live[i] \in L
    BY <2>1
  <2> QED
    BY <2>1, <2>2, <2>3, <2>4
<1>4. \A job \in J : job.kind \in PlanKinds \cup PeerKinds
  OBVIOUS
<1> HIDE DEF n, built, live, J
<1>5. results \in Seq(J) /\ SideBySide(results, built, live)
  BY <1>2, <1>3, ConcatPlaces
<1>6. tables = << {i \in DOMAIN results : results[i].kind \notin ExecP2pKinds \cup BeaconKinds},
                  {i \in DOMAIN results : results[i].kind \in ExecP2pKinds},
                  {i \in DOMAIN results : results[i].kind \in BeaconKinds} >>
  BY DEF Tables
<1> HIDE DEF results, tables
<1>7. Len(results) = 67 + n * 2 /\ DOMAIN results = 1 .. 67 + n * 2
  BY <1>2, <1>3, <1>5 DEF SideBySide
<1>8. Len(results) <= 500
  BY <1>1, <1>7
<1>9. /\ \A i \in 1 .. 67 : results[i] = built[i]
      /\ \A i \in 1 .. n * 2 : results[67 + i] = live[i]
  BY <1>2, <1>3, <1>5 DEF SideBySide
<1>10. ASSUME NEW i \in DOMAIN results
       PROVE  /\ \E t \in 1 .. 3 : /\ {u \in 1 .. 3 : i \in tables[u]} = {t}
                                   /\ results[i].kind \in ProbeSections[t]
              /\ results[i].kind \in KindLabels
  <2>1. results[i] \in J
    BY <1>5, SeqElements
  <2>2. results[i].kind \in PlanKinds \cup PeerKinds
    BY <1>4, <2>1
  <2>3. PICK t \in 1 .. 3 : TableOf(results[i].kind, t)
    BY <2>2, KindsShown
  <2>4. \A u \in 1 .. 3 : i \in tables[u] <=> u = t
    BY <1>6, <2>3 DEF TableOf
  <2>5. {u \in 1 .. 3 : i \in tables[u]} = {t}
    BY <2>4
  <2> QED
    BY <2>2, <2>3, <2>5, KindsShown DEF TableOf
<1>11. PlanKinds \cap PeerKinds = {}
  BY DEF PlanKinds, SingleKinds, PeerKinds
<1>12. ASSUME NEW i \in DOMAIN results, NEW k \in DOMAIN results, results[i] = results[k]
       PROVE  i = k
  <2>1. i \in 1 .. 67 + n * 2 /\ k \in 1 .. 67 + n * 2 /\ n \in Nat
    BY <1>1, <1>7
  <2>2. CASE i <= 67 /\ k <= 67
    <3>1. i \in 1 .. 67 /\ k \in 1 .. 67
      BY <2>1, <2>2
    <3>2. built[i] = built[k]
      BY <1>9, <1>12, <3>1
    <3>3. i \in 1 .. Len(built) /\ k \in 1 .. Len(built)
      BY <1>2, <3>1
    <3>4. \A x, y \in 1 .. Len(built) : built[x] = built[y] => x = y
      BY ONLY <1>2 DEF Distinct
    <3> QED
      BY ONLY <3>2, <3>3, <3>4
  <2>3. CASE i > 67 /\ k > 67
    <3>1. i - 67 \in 1 .. n * 2 /\ k - 67 \in 1 .. n * 2 /\ i = 67 + (i - 67) /\ k = 67 + (k - 67)
      BY <2>1, <2>3
    <3>2. live[i - 67] = live[k - 67]
      BY <1>9, <1>12, <3>1
    <3>3. i - 67 = k - 67
      BY <1>3, <3>1, <3>2 DEF Distinct
    <3> QED
      BY <2>1, <3>3
  <2>4. CASE i <= 67 /\ k > 67
    <3>1. i \in 1 .. 67 /\ k - 67 \in 1 .. n * 2 /\ k = 67 + (k - 67)
      BY <2>1, <2>4
    <3>2. results[i] = built[i] /\ results[k] = live[k - 67]
      BY <1>9, <3>1
    <3>3. built[i].kind \in PlanKinds /\ live[k - 67].kind \in PeerKinds
      BY <1>2, <1>3, <3>1
    <3> QED
      BY <1>11, <1>12, <3>2, <3>3
  <2>5. CASE i > 67 /\ k <= 67
    <3>1. k \in 1 .. 67 /\ i - 67 \in 1 .. n * 2 /\ i = 67 + (i - 67)
      BY <2>1, <2>5
    <3>2. results[k] = built[k] /\ results[i] = live[i - 67]
      BY <1>9, <3>1
    <3>3. built[k].kind \in PlanKinds /\ live[i - 67].kind \in PeerKinds
      BY <1>2, <1>3, <3>1
    <3> QED
      BY <1>11, <1>12, <3>2, <3>3
  <2> QED
    BY <2>1, <2>2, <2>3, <2>4, <2>5
<1> QED
  BY <1>8, <1>10, <1>12 DEF ShownOnce, results, tables, built, live, n

\* Every result of the app's report, with any number of live peers it has room
\* for, is in one table of the page and a row of its own.
THEOREM PageShowsAllOnce == Spec => []ShownOnce
BY StaysAtInput, PageOfInput, PTL

\* The jobs of the app's configuration that probe the boot nodes.
LEMMA BootJobs ==
  ASSUME NEW s \in {6, 7}, NEW kind, Plan[s][2] = <<kind>>, NEW job
  PROVE  job \in ToSet(BuildJobs(DefaultConfig, AllCompiled)) /\ job.kind = kind
           <=> \E n \in 1 .. 4 : job = [kind |-> kind, target |-> BootNodes[n]]
<1> DEFINE built == BuildJobs(DefaultConfig, AllCompiled)
<1>1. DOMAIN Plan = 1 .. 11
  BY DEF Plan
<1>2. DefaultConfig[Plan[s][1]] = BootNodes /\ DOMAIN BootNodes = 1 .. 4 /\ Plan[s][1] \in AllCompiled
  <2>1. Plan[6][1] = "p2p_boot_nodes" /\ Plan[7][1] = "discv4_execution"
    BY DEF Plan
  <2>2. DefaultConfig.p2p_boot_nodes = BootNodes /\ DefaultConfig.discv4_execution = BootNodes
    BY BootListsAgree DEF DefaultConfig
  <2>3. DOMAIN BootNodes = 1 .. 4
    BY DEF BootNodes
  <2>4. s \in 1 .. 11
    OBVIOUS
  <2> QED
    BY <2>1, <2>2, <2>3, <2>4, DefaultTargets
<1>3. job \in ToSet(built) <=> JobOf(job, DefaultConfig, AllCompiled)
  BY DefaultJobs, BuiltJobs
<1>4. SectionOf(kind) = s
  <2>1. s \in DOMAIN Plan /\ 1 \in DOMAIN Plan[s][2] /\ Plan[s][2][1] = kind
    BY <1>1
  <2> QED
    BY <2>1, OwnKinds
<1> HIDE DEF built
<1>5. ASSUME JobOf(job, DefaultConfig, AllCompiled), job.kind = kind
      PROVE  \E n \in 1 .. 4 : job = [kind |-> kind, target |-> BootNodes[n]]
  <2>1. PICK u \in DOMAIN Plan : \E k \in DOMAIN Plan[u][2], i \in DOMAIN DefaultConfig[Plan[u][1]] :
               job = [kind |-> Plan[u][2][k], target |-> DefaultConfig[Plan[u][1]][i]]
    BY <1>5 DEF JobOf
  <2>2. PICK k \in DOMAIN Plan[u][2], i \in DOMAIN DefaultConfig[Plan[u][1]] :
               job = [kind |-> Plan[u][2][k], target |-> DefaultConfig[Plan[u][1]][i]]
    BY <2>1
  <2>3. Plan[u][2][k] = kind
    BY <1>5, <2>2
  <2>4. u = s
    BY <1>4, <2>3, OwnKinds
  <2> QED
    BY <1>2, <2>2, <2>3, <2>4
<1>6. ASSUME NEW n \in 1 .. 4, job = [kind |-> kind, target |-> BootNodes[n]]
      PROVE  JobOf(job, DefaultConfig, AllCompiled) /\ job.kind = kind
  <2>1. s \in DOMAIN Plan /\ 1 \in DOMAIN Plan[s][2] /\ Plan[s][2][1] = kind
    BY <1>1
  <2>2. n \in DOMAIN DefaultConfig[Plan[s][1]] /\ DefaultConfig[Plan[s][1]][n] = BootNodes[n]
    BY <1>2
  <2> QED
    BY <1>2, <1>6, <2>1, <2>2 DEF JobOf
<1> QED
  BY <1>3, <1>5, <1>6 DEF built

\* The page finds the name in a label with one.
LEMMA NameOfLabel ==
  ASSUME NEW at, NEW name, at # Open, name # Close
  PROVE  NameIn(<<at, Open, name, Close>>) = <<name>>
<1> DEFINE label == <<at, Open, name, Close>>
           starts == {i \in 1 .. 2 : /\ label[i] = Open /\ label[4] = Close
                                     /\ \A k \in i + 1 .. 3 : label[k] # Close}
           first == CHOOSE i \in starts : \A k \in starts : i <= k
<1>1. Open # Close
  BY DEF Open, Close
<1>2. Len(label) = 4
  OBVIOUS
<1>3. label[1] # Open /\ label[2] = Open /\ label[3] # Close /\ label[4] = Close
  OBVIOUS
<1>4. starts = {2}
  <2> HIDE DEF label
  <2> QED
    BY <1>3
<1>5. first = 2
  BY ONLY <1>4
<1>6. SubSeq(label, 3, 3) = <<name>>
  <2> DEFINE S == {at, Open, name, Close}
             t == <<name>>
  <2>1. label \in Seq(S) /\ t \in Seq(S) /\ Len(t) = 1 /\ t[1] = label[3]
    OBVIOUS
  <2> HIDE DEF label, S, t
  <2>2. SubSeq(label, 3, 3) = t
    <3>1. 3 - 3 + 1 = Len(t) /\ \A k \in 1 .. Len(t) : label[3 + k - 1] = t[k]
      BY <2>1
    <3> QED
      BY <1>2, <2>1, <3>1, PartIs
  <2> QED
    BY <2>2 DEF t
<1> HIDE DEF label
<1>7. NameIn(label) = IF starts = {} THEN label ELSE SubSeq(label, first + 1, 3)
  BY <1>2 DEF NameIn
<1> HIDE DEF first, starts
<1>8. first + 1 = 3 /\ starts # {}
  BY <1>4, <1>5
<1>9. NameIn(label) = <<name>>
  BY ONLY <1>6, <1>7, <1>8
<1> QED
  BY <1>9 DEF label

\* A boot node's label.
BootLabel(n) == <<BootNodes[n].at, Open, BootNodes[n].name, Close>>

LEMMA BootNames == \A n \in 1 .. 4 : NameIn(BootLabel(n)) = <<BootNodes[n].name>>
<1> TAKE n \in 1 .. 4
<1> DEFINE at == BootNodes[n].at
           name == BootNodes[n].name
<1>1. at # Open /\ name # Close
  BY BootNodesListed
<1>2. BootLabel(n) = <<at, Open, name, Close>>
  BY DEF BootLabel
<1> HIDE DEF at, name
<1>3. NameIn(<<at, Open, name, Close>>) = <<name>>
  BY <1>1, NameOfLabel
<1> QED
  BY <1>2, <1>3 DEF name

\* The result of one kind for a boot node with the verdict v of its address.
BootResult(kind, n, v) == [kind |-> kind, target |-> BootLabel(n), ok |-> v[BootNodes[n].at]]

\* Of one kind, the results with the verdicts v on the boot nodes.
HasVerdicts(shown, kind, v) ==
  \A r : r \in shown /\ r.kind = kind <=> \E n \in 1 .. 4 : r = BootResult(kind, n, v)

\* Their results, in the second table.
LEMMA BootVerdicts ==
  ASSUME NEW tcp \in Verdicts, NEW udp \in Verdicts
  PROVE  LET results == BootResults(tcp, udp)
             shown == {results[i] : i \in Tables(results)[2]}
         IN  HasVerdicts(shown, "p2p_tcp_connect", tcp) /\ HasVerdicts(shown, "discv4_ping", udp)
<1> DEFINE jobs == BuildJobs(DefaultConfig, AllCompiled)
           verdict(job) == CASE job.kind = "p2p_tcp_connect" -> tcp[job.target.at]
                             [] job.kind = "discv4_ping" -> udp[job.target.at]
                             [] OTHER -> TRUE
           result(job) == [kind |-> job.kind, target |-> TargetLabel(job), ok |-> verdict(job)]
           results == BootResults(tcp, udp)
           shown == {results[i] : i \in Tables(results)[2]}
           t(n) == [kind |-> "p2p_tcp_connect", target |-> BootNodes[n]]
           u(n) == [kind |-> "discv4_ping", target |-> BootNodes[n]]
<1>1. results = [i \in DOMAIN jobs |-> result(jobs[i])]
  BY DEF BootResults
<1>2. \A job : result(job).kind = job.kind
  OBVIOUS
<1>3. \A n \in 1 .. 4 : /\ result(t(n)) = BootResult("p2p_tcp_connect", n, tcp)
                        /\ result(u(n)) = BootResult("discv4_ping", n, udp)
  <2> SUFFICES ASSUME NEW n \in 1 .. 4
               PROVE  /\ result(t(n)) = BootResult("p2p_tcp_connect", n, tcp)
                      /\ result(u(n)) = BootResult("discv4_ping", n, udp)
    OBVIOUS
  <2>1. /\ t(n).kind = "p2p_tcp_connect" /\ t(n).target = BootNodes[n]
        /\ u(n).kind = "discv4_ping" /\ u(n).target = BootNodes[n]
    OBVIOUS
  <2> HIDE DEF t, u
  <2>2. TargetLabel(t(n)) = BootLabel(n) /\ TargetLabel(u(n)) = BootLabel(n)
    BY <2>1 DEF TargetLabel, BootLabel
  <2>3. verdict(t(n)) = tcp[BootNodes[n].at] /\ verdict(u(n)) = udp[BootNodes[n].at]
    BY <2>1
  <2> HIDE DEF verdict
  <2> QED
    BY <2>1, <2>2, <2>3 DEF BootResult
<1>5. /\ Plan[6][2] = <<"p2p_tcp_connect">> /\ Plan[7][2] = <<"discv4_ping">>
      /\ 6 \in {6, 7} /\ 7 \in {6, 7}
  BY DEF Plan
<1>6. \A job : job \in ToSet(jobs) /\ job.kind = "p2p_tcp_connect" <=> \E n \in 1 .. 4 : job = t(n)
  BY <1>5, BootJobs
<1>7. \A job : job \in ToSet(jobs) /\ job.kind = "discv4_ping" <=> \E n \in 1 .. 4 : job = u(n)
  BY <1>5, BootJobs
<1>8. shown = {results[i] : i \in {i \in DOMAIN results : results[i].kind \in ExecP2pKinds}}
  BY DEF Tables
<1> HIDE DEF jobs, result, results, shown, t, u
<1>9. DOMAIN results = DOMAIN jobs /\ \A i \in DOMAIN jobs : results[i] = result(jobs[i])
  BY <1>1
<1>10. "p2p_tcp_connect" \in ExecP2pKinds /\ "discv4_ping" \in ExecP2pKinds
  BY DEF ExecP2pKinds
<1>11. ASSUME NEW r, NEW kind \in ExecP2pKinds
       PROVE  r \in shown /\ r.kind = kind <=> \E job \in ToSet(jobs) : job.kind = kind /\ r = result(job)
  <2>1. r \in shown /\ r.kind = kind <=> \E i \in DOMAIN jobs : r = result(jobs[i]) /\ r.kind = kind
    BY <1>8, <1>9, <1>11
  <2>2. \A i \in DOMAIN jobs : r = result(jobs[i]) => (r.kind = kind <=> jobs[i].kind = kind)
    BY <1>2
  <2> QED
    BY <2>1, <2>2 DEF ToSet
<1>12. ASSUME NEW r
       PROVE  r \in shown /\ r.kind = "p2p_tcp_connect" <=>
                \E n \in 1 .. 4 : r = BootResult("p2p_tcp_connect", n, tcp)
  <2>1. r \in shown /\ r.kind = "p2p_tcp_connect" <=> \E n \in 1 .. 4 : r = result(t(n))
    BY <1>6, <1>10, <1>11
  <2> QED
    BY <1>3, <2>1
<1>13. ASSUME NEW r
       PROVE  r \in shown /\ r.kind = "discv4_ping" <=>
                \E n \in 1 .. 4 : r = BootResult("discv4_ping", n, udp)
  <2>1. r \in shown /\ r.kind = "discv4_ping" <=> \E n \in 1 .. 4 : r = result(u(n))
    BY <1>7, <1>10, <1>11
  <2> QED
    BY <1>3, <2>1
<1> QED
  BY <1>12, <1>13 DEF HasVerdicts, results, shown

\* The names of the nodes whose address has the verdict.
LEMMA NamesAre ==
  ASSUME NEW shown, NEW kind, NEW v, NEW ok, HasVerdicts(shown, kind, v), NEW name
  PROVE  name \in NamesOf(shown, kind, ok)
           <=> \E n \in 1 .. 4 : v[BootNodes[n].at] = ok /\ name = <<BootNodes[n].name>>
<1> DEFINE r(n) == BootResult(kind, n, v)
<1>1. \A n : r(n).kind = kind /\ r(n).target = BootLabel(n) /\ r(n).ok = v[BootNodes[n].at]
  BY DEF BootResult
<1>2. \A q : q \in shown /\ q.kind = kind <=> \E n \in 1 .. 4 : q = r(n)
  BY DEF HasVerdicts
<1> HIDE DEF r
<1>3. name \in NamesOf(shown, kind, ok) <=>
        \E q \in shown : q.kind = kind /\ q.ok = ok /\ name = NameIn(q.target)
  BY DEF NamesOf
<1>4. (\E q \in shown : q.kind = kind /\ q.ok = ok /\ name = NameIn(q.target))
        <=> \E n \in 1 .. 4 : r(n).ok = ok /\ name = NameIn(r(n).target)
  BY <1>2
<1> QED
  BY <1>1, <1>3, <1>4, BootNames

LEMMA MismatchOfInput == Init => MismatchIsReal
<1> SUFFICES ASSUME Init, function = "mismatch" PROVE MismatchIsReal
  BY DEF MismatchIsReal
<1> DEFINE tcp == input[1]
           udp == input[2]
           results == BootResults(tcp, udp)
           shown == {results[i] : i \in Tables(results)[2]}
           At(n) == BootNodes[n].at
           failed == {n \in DOMAIN BootNodes : tcp[At(n)] /\ ~udp[At(n)]}
<1>1. tcp \in Verdicts /\ udp \in Verdicts
  <2>1. input \in Verdicts \X Verdicts
    BY DEF Init
  <2> QED
    BY <2>1
<1>2. DOMAIN BootNodes = 1 .. 4 /\ Len(BootNodes) = 4
  BY DEF BootNodes
<1>3. \A n \in 1 .. 4 : tcp[At(n)] \in BOOLEAN /\ udp[At(n)] \in BOOLEAN
  <2>1. \A n \in 1 .. 4 : At(n) \in BootAddresses
    BY <1>2 DEF BootAddresses, ToSet
  <2> QED
    BY <1>1, <2>1 DEF Verdicts
<1>4. HasVerdicts(shown, "p2p_tcp_connect", tcp) /\ HasVerdicts(shown, "discv4_ping", udp)
  BY <1>1, BootVerdicts
<1> HIDE DEF tcp, udp, results, shown
<1>5. \A name : name \in NamesOf(shown, "p2p_tcp_connect", TRUE) <=>
                  \E n \in 1 .. 4 : tcp[At(n)] = TRUE /\ name = <<BootNodes[n].name>>
  <2> DEFINE ok == TRUE
  <2> HIDE DEF ok
  <2>1. \A name : name \in NamesOf(shown, "p2p_tcp_connect", ok) <=>
                    \E n \in 1 .. 4 : tcp[At(n)] = ok /\ name = <<BootNodes[n].name>>
    BY <1>4, NamesAre
  <2> QED
    BY <2>1 DEF ok
<1>6. \A name : name \in NamesOf(shown, "discv4_ping", FALSE) <=>
                  \E n \in 1 .. 4 : udp[At(n)] = FALSE /\ name = <<BootNodes[n].name>>
  <2> DEFINE ok == FALSE
  <2> HIDE DEF ok
  <2>1. \A name : name \in NamesOf(shown, "discv4_ping", ok) <=>
                    \E n \in 1 .. 4 : udp[At(n)] = ok /\ name = <<BootNodes[n].name>>
    BY <1>4, NamesAre
  <2> QED
    BY <2>1 DEF ok
<1>7. \A x, y \in 1 .. 4 : <<BootNodes[x].name>> = <<BootNodes[y].name>> => x = y
  <2>1. \A a, b : <<a>> = <<b>> => a = b
    OBVIOUS
  <2> QED
    BY <2>1, BootNodesListed
<1>8. ASSUME NEW name
      PROVE  name \in DetectUdpTcpMismatch(shown) <=> name \in {<<BootNodes[n].name>> : n \in failed}
  <2>1. name \in DetectUdpTcpMismatch(shown) <=>
          (\E x \in 1 .. 4 : tcp[At(x)] = TRUE /\ name = <<BootNodes[x].name>>)
            /\ (\E y \in 1 .. 4 : udp[At(y)] = FALSE /\ name = <<BootNodes[y].name>>)
    BY <1>5, <1>6 DEF DetectUdpTcpMismatch
  <2>2. name \in {<<BootNodes[n].name>> : n \in failed} <=>
          \E n \in 1 .. 4 : tcp[At(n)] = TRUE /\ udp[At(n)] = FALSE /\ name = <<BootNodes[n].name>>
    BY <1>2, <1>3
  <2> QED
    BY <1>7, <2>1, <2>2
<1>9. DetectUdpTcpMismatch(shown) = {<<BootNodes[n].name>> : n \in failed}
  BY <1>8
<1> QED
  BY <1>9 DEF MismatchIsReal, tcp, udp, results, shown

\* The note below the second table names the boot nodes that answered over TCP
\* and not over UDP at the same address, and no other.
THEOREM MismatchesAreReal == Spec => []MismatchIsReal
BY StaysAtInput, MismatchOfInput, PTL

=============================================================================
