--------------------------- MODULE OperatorProofs ---------------------------
(***************************************************************************)
(* Lemmas about the operators the models are built from: what FlattenSeq   *)
(* and FoldSeq of the community modules return, and that what Ascending    *)
(* chooses exists.  The library's induction theorems have an operator as a *)
(* parameter, but WFMin has not, and induction over the numbers of a set   *)
(* follows from it.                                                        *)
(* The last part is about JobPlan: which jobs a configuration makes, and   *)
(* when none of them twice.                                                *)
(***************************************************************************)
EXTENDS Orders, JobPlan, FiniteSetTheorems, WellFoundedInduction, TLAPS

\* A set of numbers that is not empty has a least element.
LEMMA Smallest ==
  ASSUME NEW T \in SUBSET Nat, T # {}
  PROVE  \E m \in T : \A k \in T : m <= k
<1>1. PICK m \in T : \A y \in T : ~ (<<y, m>> \in OpToRel(<, Nat))
  BY NatLessThanWellFounded, WFMin
<1>2. \A y \in T : ~(y < m)
  BY <1>1 DEF OpToRel
<1> QED
  BY <1>2

\* Induction, for a set of numbers: no operator is a parameter.
LEMMA Induction ==
  ASSUME NEW T, 0 \in T, \A n \in Nat : n \in T => n + 1 \in T
  PROVE  Nat \subseteq T
<1> SUFFICES ASSUME Nat \ T # {} PROVE FALSE
  OBVIOUS
<1>1. PICK m \in Nat \ T : \A k \in Nat \ T : m <= k
  BY Smallest
<1>2. m # 0 /\ m - 1 \in Nat /\ m - 1 \in T
  BY <1>1
<1> QED
  BY <1>2, <1>1

LEMMA SeqMonotone ==
  ASSUME NEW S, NEW T, S \subseteq T
  PROVE  Seq(S) \subseteq Seq(T)
OBVIOUS

LEMMA SeqElements ==
  ASSUME NEW S, NEW s \in Seq(S)
  PROVE  \A i \in DOMAIN s : s[i] \in S
OBVIOUS

\* A function on 1 .. n is a sequence of n elements.
LEMMA IsSequence ==
  ASSUME NEW S, NEW n \in Nat, NEW f, f = [i \in 1 .. n |-> f[i]], \A i \in 1 .. n : f[i] \in S
  PROVE  f \in Seq(S) /\ Len(f) = n
OBVIOUS

\* FlattenSeq joins its sequences from left to right.
LEMMA FlattenJoins ==
  ASSUME NEW seqs, Len(seqs) \in Nat, Len(seqs) > 0
  PROVE  \E f : /\ f = [i \in 1 .. Len(seqs) |-> IF i = 1 THEN seqs[i] ELSE f[i - 1] \o seqs[i]]
                /\ FlattenSeq(seqs) = f[Len(seqs)]
<1> DEFINE Joins(f, n) == f = [i \in 1 .. n |-> IF i = 1 THEN seqs[i] ELSE f[i - 1] \o seqs[i]]
           T == {n \in Nat : \E f : Joins(f, n)}
<1>1. 0 \in T
  <2>1. Joins([i \in 1 .. 0 |-> 0], 0)
    OBVIOUS
  <2> QED
    BY <2>1
<1>2. ASSUME NEW n \in Nat, n \in T
      PROVE  n + 1 \in T
  <2>1. PICK f : Joins(f, n)
    BY <1>2
  <2> DEFINE g == [i \in 1 .. n + 1 |-> IF i = n + 1 THEN (IF i = 1 THEN seqs[i] ELSE f[n] \o seqs[i]) ELSE f[i]]
  <2>2. Joins(g, n + 1)
    <3>1. \A i \in 1 .. n : f[i] = IF i = 1 THEN seqs[i] ELSE f[i - 1] \o seqs[i]
      BY <2>1
    <3>2. \A i \in 1 .. n + 1 : g[i] = IF i = 1 THEN seqs[i] ELSE g[i - 1] \o seqs[i]
      BY <3>1
    <3> QED
      BY <3>2
  <2> HIDE DEF g, Joins
  <2>3. \E h : Joins(h, n + 1)
    BY <2>2
  <2> QED
    BY <2>3
<1>3. \E f : Joins(f, Len(seqs))
  <2> HIDE DEF T
  <2>1. Nat \subseteq T
    BY <1>1, <1>2, Induction
  <2> QED
    BY <2>1 DEF T
<1> DEFINE c == CHOOSE f : Joins(f, Len(seqs))
<1>4. Joins(c, Len(seqs))
  BY <1>3
<1>5. FlattenSeq(seqs) = c[Len(seqs)]
  BY DEF FlattenSeq
<1> QED
  BY <1>4, <1>5

\* u holds the elements of s and then those of t.
SideBySide(u, s, t) ==
  /\ Len(u) = Len(s) + Len(t)
  /\ \A i \in 1 .. Len(s) : u[i] = s[i]
  /\ \A i \in 1 .. Len(t) : u[Len(s) + i] = t[i]

\* A concatenation keeps the order.
LEMMA ConcatPlaces ==
  ASSUME NEW S, NEW s \in Seq(S), NEW t \in Seq(S)
  PROVE  s \o t \in Seq(S) /\ SideBySide(s \o t, s, t)
BY DEF SideBySide

\* A concatenation holds the elements of both.
LEMMA Concatenated ==
  ASSUME NEW S, NEW s \in Seq(S), NEW t \in Seq(S)
  PROVE  s \o t \in Seq(S) /\ ToSet(s \o t) = ToSet(s) \cup ToSet(t)
<1>1. /\ s \o t \in Seq(S)
      /\ Len(s \o t) = Len(s) + Len(t)
      /\ \A i \in 1 .. Len(s) : (s \o t)[i] = s[i]
      /\ \A i \in 1 .. Len(t) : (s \o t)[Len(s) + i] = t[i]
  BY ConcatPlaces DEF SideBySide
<1>2. \A i \in 1 .. Len(s \o t) : i \in 1 .. Len(s) \/ i - Len(s) \in 1 .. Len(t)
  BY <1>1
<1>3. /\ DOMAIN (s \o t) = 1 .. Len(s \o t) /\ DOMAIN s = 1 .. Len(s) /\ DOMAIN t = 1 .. Len(t)
      /\ Len(s) \in Nat /\ Len(t) \in Nat
  BY <1>1
<1>4. \A i \in 1 .. Len(s) : i \in 1 .. Len(s \o t)
  BY <1>1, <1>3
<1>5. \A i \in 1 .. Len(t) : Len(s) + i \in 1 .. Len(s \o t)
  BY <1>1, <1>3
<1>6. \A i \in 1 .. Len(s \o t) : i - Len(s) \in 1 .. Len(t) => (s \o t)[i] = t[i - Len(s)]
  <2>1. \A i \in 1 .. Len(s \o t) : i = Len(s) + (i - Len(s))
    BY <1>3
  <2> QED
    BY <1>1, <2>1
<1>7. ToSet(s \o t) \subseteq ToSet(s) \cup ToSet(t)
  BY <1>1, <1>2, <1>3, <1>6 DEF ToSet
<1>8. ToSet(s) \cup ToSet(t) \subseteq ToSet(s \o t)
  BY <1>1, <1>3, <1>4, <1>5 DEF ToSet
<1> QED
  BY <1>1, <1>7, <1>8

\* What FlattenSeq returns holds exactly the elements of its sequences.
LEMMA FlattenElements ==
  ASSUME NEW S, NEW seqs \in Seq(Seq(S))
  PROVE  /\ FlattenSeq(seqs) \in Seq(S)
         /\ ToSet(FlattenSeq(seqs)) = UNION {ToSet(seqs[i]) : i \in DOMAIN seqs}
<1>1. Len(seqs) \in Nat /\ DOMAIN seqs = 1 .. Len(seqs)
  OBVIOUS
<1>2. CASE Len(seqs) = 0
  <2>1. FlattenSeq(seqs) = <<>> /\ seqs = <<>>
    BY <1>2 DEF FlattenSeq
  <2> QED
    BY <2>1 DEF ToSet
<1>3. CASE Len(seqs) > 0
  <2>1. PICK f : /\ f = [i \in 1 .. Len(seqs) |-> IF i = 1 THEN seqs[i] ELSE f[i - 1] \o seqs[i]]
                 /\ FlattenSeq(seqs) = f[Len(seqs)]
    BY <1>1, <1>3, FlattenJoins
  <2>2. \A i \in 1 .. Len(seqs) : f[i] = IF i = 1 THEN seqs[i] ELSE f[i - 1] \o seqs[i]
    BY <2>1
  <2>3. \A i \in 1 .. Len(seqs) : seqs[i] \in Seq(S)
    BY <1>1
  <2> DEFINE Holds(n) == /\ f[n] \in Seq(S)
                         /\ ToSet(f[n]) = UNION {ToSet(seqs[i]) : i \in 1 .. n}
             T == {n \in Nat : n \in 1 .. Len(seqs) => Holds(n)}
  <2>4. 0 \in T
    OBVIOUS
  <2>5. ASSUME NEW n \in Nat, n \in T
        PROVE  n + 1 \in T
    <3> SUFFICES ASSUME n + 1 \in 1 .. Len(seqs) PROVE Holds(n + 1)
      OBVIOUS
    <3>1. CASE n = 0
      <4>1. f[1] = seqs[1] /\ 1 .. 1 = {1}
        BY <3>1, <2>2
      <4> QED
        BY <4>1, <3>1, <2>3
    <3>2. CASE n # 0
      <4>1. n \in 1 .. Len(seqs) /\ n + 1 - 1 = n /\ n + 1 # 1
        BY <3>2, <1>1
      <4>2. f[n + 1] = f[n] \o seqs[n + 1]
        <5>1. f[n + 1] = IF n + 1 = 1 THEN seqs[n + 1] ELSE f[n + 1 - 1] \o seqs[n + 1]
          BY <2>2
        <5> QED
          BY <5>1, <4>1
      <4>3. Holds(n) /\ seqs[n + 1] \in Seq(S)
        BY <2>5, <4>1, <2>3
      <4>4. f[n + 1] \in Seq(S) /\ ToSet(f[n + 1]) = ToSet(f[n]) \cup ToSet(seqs[n + 1])
        BY <4>2, <4>3, Concatenated
      <4>5. 1 .. n + 1 = (1 .. n) \cup {n + 1}
        OBVIOUS
      <4> QED
        BY <4>3, <4>4, <4>5
    <3> QED
      BY <3>1, <3>2
  <2>6. Holds(Len(seqs))
    <3>1. Nat \subseteq T
      <4> HIDE DEF T
      <4> QED
        BY <2>4, <2>5, Induction
    <3> DEFINE n == Len(seqs)
    <3>2. n \in T /\ n \in 1 .. n
      <4> HIDE DEF n, T
      <4>1. n \in Nat /\ n > 0
        BY <1>1, <1>3 DEF n
      <4> QED
        BY <3>1, <4>1
    <3> QED
      BY <3>2
  <2> QED
    BY <2>1, <2>6, <1>1, <1>3
<1> QED
  BY <1>1, <1>2, <1>3

\* Sequences of two elements each lie side by side.
LEMMA FlattenPairs ==
  ASSUME NEW S, NEW seqs \in Seq(Seq(S)), \A i \in DOMAIN seqs : Len(seqs[i]) = 2
  PROVE  /\ Len(FlattenSeq(seqs)) = 2 * Len(seqs)
         /\ \A i \in 1 .. Len(seqs) : /\ FlattenSeq(seqs)[2 * i - 1] = seqs[i][1]
                                      /\ FlattenSeq(seqs)[2 * i] = seqs[i][2]
<1>1. Len(seqs) \in Nat /\ DOMAIN seqs = 1 .. Len(seqs)
  OBVIOUS
<1>2. CASE Len(seqs) = 0
  <2>1. FlattenSeq(seqs) = <<>> /\ seqs = <<>>
    BY <1>2 DEF FlattenSeq
  <2> QED
    BY <2>1
<1>3. CASE Len(seqs) > 0
  <2>1. PICK f : /\ f = [i \in 1 .. Len(seqs) |-> IF i = 1 THEN seqs[i] ELSE f[i - 1] \o seqs[i]]
                 /\ FlattenSeq(seqs) = f[Len(seqs)]
    BY <1>1, <1>3, FlattenJoins
  <2>2. \A i \in 1 .. Len(seqs) : f[i] = IF i = 1 THEN seqs[i] ELSE f[i - 1] \o seqs[i]
    BY <2>1
  <2>3. \A i \in 1 .. Len(seqs) : seqs[i] \in Seq(S) /\ Len(seqs[i]) = 2
    <3>1. \A i \in 1 .. Len(seqs) : seqs[i] \in Seq(S)
      OBVIOUS
    <3> QED
      BY <3>1, <1>1
  <2> DEFINE Holds(n) == /\ f[n] \in Seq(S)
                         /\ Len(f[n]) = 2 * n
                         /\ \A i \in 1 .. n : f[n][2 * i - 1] = seqs[i][1] /\ f[n][2 * i] = seqs[i][2]
             T == {n \in Nat : n \in 1 .. Len(seqs) => Holds(n)}
  <2>4. 0 \in T
    OBVIOUS
  <2>5. ASSUME NEW n \in Nat, n \in T
        PROVE  n + 1 \in T
    <3> SUFFICES ASSUME n + 1 \in 1 .. Len(seqs) PROVE Holds(n + 1)
      OBVIOUS
    <3>1. CASE n = 0
      <4>1. f[1] = seqs[1] /\ \A i \in 1 .. 1 : i = 1
        BY <3>1, <2>2
      <4> QED
        BY <4>1, <3>1, <2>3
    <3>2. CASE n # 0
      <4>1. n \in 1 .. Len(seqs) /\ n + 1 - 1 = n /\ n + 1 # 1
        BY <3>2, <1>1
      <4>2. f[n + 1] = f[n] \o seqs[n + 1]
        <5>1. f[n + 1] = IF n + 1 = 1 THEN seqs[n + 1] ELSE f[n + 1 - 1] \o seqs[n + 1]
          BY <2>2
        <5> QED
          BY <5>1, <4>1
      <4>3. Holds(n) /\ seqs[n + 1] \in Seq(S) /\ Len(seqs[n + 1]) = 2
        BY <2>5, <4>1, <2>3
      <4>4. /\ f[n + 1] \in Seq(S) /\ Len(f[n + 1]) = 2 * n + 2
            /\ \A i \in 1 .. 2 * n : f[n + 1][i] = f[n][i]
            /\ f[n + 1][2 * n + 1] = seqs[n + 1][1] /\ f[n + 1][2 * n + 2] = seqs[n + 1][2]
        <5>1. f[n + 1] \in Seq(S) /\ SideBySide(f[n + 1], f[n], seqs[n + 1])
          BY <4>2, <4>3, ConcatPlaces
        <5>2. Len(f[n]) = 2 * n /\ Len(seqs[n + 1]) = 2 /\ 1 \in 1 .. 2 /\ 2 \in 1 .. 2
          BY <4>3
        <5> QED
          BY <5>1, <5>2 DEF SideBySide
      <4>5. \A i \in 1 .. n : 2 * i - 1 \in 1 .. 2 * n /\ 2 * i \in 1 .. 2 * n
        OBVIOUS
      <4>6. \A i \in 1 .. n + 1 : i \in 1 .. n \/ i = n + 1
        OBVIOUS
      <4>7. 2 * (n + 1) - 1 = 2 * n + 1 /\ 2 * (n + 1) = 2 * n + 2
        OBVIOUS
      <4> QED
        BY <4>3, <4>4, <4>5, <4>6, <4>7
    <3> QED
      BY <3>1, <3>2
  <2>6. Holds(Len(seqs))
    <3>1. Nat \subseteq T
      <4> HIDE DEF T
      <4> QED
        BY <2>4, <2>5, Induction
    <3> DEFINE n == Len(seqs)
    <3>2. n \in T /\ n \in 1 .. n
      <4> HIDE DEF n, T
      <4>1. n \in Nat /\ n > 0
        BY <1>1, <1>3 DEF n
      <4> QED
        BY <3>1, <4>1
    <3> QED
      BY <3>2
  <2> QED
    BY <2>1, <2>6, <1>1, <1>3
<1> QED
  BY <1>1, <1>2, <1>3

-----------------------------------------------------------------------------
\* Induction over the subsets of a finite set, for a set of sets.
LEMMA SetInduction ==
  ASSUME NEW S, IsFiniteSet(S), NEW F, {} \in F,
         \A T \in SUBSET S : T \in F => \A x \in S \ T : T \cup {x} \in F
  PROVE  \A T \in SUBSET S : T \in F
<1> DEFINE N == {n \in Nat : \A T \in SUBSET S : Cardinality(T) = n => T \in F}
<1>1. \A T \in SUBSET S : IsFiniteSet(T) /\ Cardinality(T) \in Nat
  BY FS_Subset, FS_CardinalityType
<1>2. 0 \in N
  BY <1>1, FS_EmptySet
<1>3. ASSUME NEW n \in Nat, n \in N
      PROVE  n + 1 \in N
  <2> SUFFICES ASSUME NEW T \in SUBSET S, Cardinality(T) = n + 1 PROVE T \in F
    OBVIOUS
  <2>1. T # {}
    BY FS_EmptySet
  <2>2. PICK x \in T : TRUE
    BY <2>1
  <2>3. Cardinality(T \ {x}) = n
    <3>1. Cardinality(T \ {x}) = IF x \in T THEN Cardinality(T) - 1 ELSE Cardinality(T)
      BY <1>1, FS_RemoveElement
    <3> QED
      BY <3>1
  <2>4. T \ {x} \in F
    BY <1>3, <2>3
  <2>5. T = (T \ {x}) \cup {x} /\ x \in S \ (T \ {x}) /\ T \ {x} \in SUBSET S
    BY <2>2
  <2> QED
    BY <2>4, <2>5
<1>4. Nat \subseteq N
  <2> HIDE DEF N
  <2> QED
    BY <1>2, <1>3, Induction
<1> QED
  BY <1>1, <1>4

\* Of finitely many keys one is the greatest.
LEMMA GreatestKey ==
  ASSUME NEW S, IsFiniteSet(S), NEW key \in [S -> Int]
  PROVE  \A T \in SUBSET S : T # {} => \E m \in T : \A x \in T : key[x] <= key[m]
<1> DEFINE F == {T \in SUBSET S : T # {} => \E m \in T : \A x \in T : key[x] <= key[m]}
<1>1. {} \in F
  OBVIOUS
<1>2. ASSUME NEW T \in SUBSET S, T \in F, NEW y \in S \ T
      PROVE  T \cup {y} \in F
  <2>1. CASE T = {}
    BY <2>1
  <2>2. CASE T # {}
    <3>1. PICK m \in T : \A x \in T : key[x] <= key[m]
      BY <1>2, <2>2
    <3>2. key[m] \in Int /\ key[y] \in Int /\ \A x \in T : key[x] \in Int
      OBVIOUS
    <3>3. CASE key[y] <= key[m]
      BY <3>1, <3>3
    <3>4. CASE ~(key[y] <= key[m])
      BY <3>1, <3>2, <3>4
    <3> QED
      BY <3>3, <3>4
  <2> QED
    BY <2>1, <2>2
<1>3. \A T \in SUBSET S : T \in F
  <2> HIDE DEF F
  <2> QED
    BY <1>1, <1>2, SetInduction
<1> QED
  BY <1>3

InOrder(s, key) == \A i, k \in DOMAIN s : i < k => key[s[i]] <= key[s[k]]

\* A finite set can be sorted.
LEMMA CanBeSorted ==
  ASSUME NEW S, IsFiniteSet(S), NEW key \in [S -> Int]
  PROVE  \E s \in [1 .. Cardinality(S) -> S] : IsInjective(s) /\ InOrder(s, key)
<1> DEFINE Sorts(s, n, T) == s \in [1 .. n -> T] /\ IsInjective(s) /\ InOrder(s, key)
           N == {n \in Nat : \A T \in SUBSET S : Cardinality(T) = n => \E s : Sorts(s, n, T)}
<1>1. \A T \in SUBSET S : IsFiniteSet(T) /\ Cardinality(T) \in Nat
  BY FS_Subset, FS_CardinalityType
<1>2. 0 \in N
  <2>1. \A T : Sorts([i \in 1 .. 0 |-> 0], 0, T)
    BY DEF IsInjective, InOrder
  <2> HIDE DEF Sorts
  <2> QED
    BY <2>1
<1>3. ASSUME NEW n \in Nat, n \in N
      PROVE  n + 1 \in N
  <2> SUFFICES ASSUME NEW T \in SUBSET S, Cardinality(T) = n + 1 PROVE \E s : Sorts(s, n + 1, T)
    OBVIOUS
  <2>1. T # {}
    BY FS_EmptySet
  <2>2. PICK g \in T : \A x \in T : key[x] <= key[g]
    BY <2>1, GreatestKey
  <2>3. Cardinality(T \ {g}) = n
    <3>1. Cardinality(T \ {g}) = IF g \in T THEN Cardinality(T) - 1 ELSE Cardinality(T)
      BY <1>1, FS_RemoveElement
    <3> QED
      BY <3>1
  <2>4. PICK s : Sorts(s, n, T \ {g})
    BY <1>3, <2>3
  <2> DEFINE t == [i \in 1 .. n + 1 |-> IF i = n + 1 THEN g ELSE s[i]]
  <2>5. \A i \in 1 .. n + 1 : i # n + 1 => i \in 1 .. n /\ t[i] = s[i] /\ s[i] \in T \ {g}
    BY <2>4
  <2>6. t[n + 1] = g /\ DOMAIN t = 1 .. n + 1 /\ DOMAIN s = 1 .. n
    BY <2>4
  <2> HIDE DEF t
  <2>7. t \in [1 .. n + 1 -> T]
    BY <2>5, <2>6 DEF t
  <2>8. IsInjective(t)
    BY <2>4, <2>5, <2>6 DEF IsInjective
  <2>9. InOrder(t, key)
    BY <2>2, <2>4, <2>5, <2>6 DEF InOrder
  <2>10. Sorts(t, n + 1, T)
    BY <2>7, <2>8, <2>9
  <2> HIDE DEF Sorts
  <2> QED
    BY <2>10
<1>4. Nat \subseteq N
  <2> HIDE DEF N
  <2> QED
    BY <1>2, <1>3, Induction
<1>5. \E s : Sorts(s, Cardinality(S), S)
  BY <1>1, <1>4
<1> QED
  BY <1>5

\* Ascending goes through the whole set, once and in order.
LEMMA AscendingSorts ==
  ASSUME NEW S, IsFiniteSet(S), NEW key \in [S -> Int]
  PROVE  /\ Ascending(S, key) \in [1 .. Cardinality(S) -> S]
         /\ IsInjective(Ascending(S, key))
         /\ InOrder(Ascending(S, key), key)
         /\ \A x \in S : \E i \in 1 .. Cardinality(S) : Ascending(S, key)[i] = x
<1> DEFINE a == Ascending(S, key)
<1>1. a \in [1 .. Cardinality(S) -> S] /\ IsInjective(a) /\ InOrder(a, key)
  BY CanBeSorted DEF Ascending, InOrder
<1>2. Cardinality(S) \in Nat
  BY FS_CardinalityType
<1>3. IsFiniteSet(1 .. Cardinality(S)) /\ Cardinality(1 .. Cardinality(S)) = Cardinality(S)
  BY <1>2, FS_Interval
<1>4. a \in Injection(1 .. Cardinality(S), S)
  BY <1>1 DEF Injection
<1> HIDE DEF a
<1>5. a \in Surjection(1 .. Cardinality(S), S)
  BY <1>3, <1>4, FS_Injection
<1> QED
  BY <1>1, <1>5 DEF Surjection, a

\* How the folds of the community modules add up the values of f.
Adds(sum, f, S) ==
  sum = [T \in SUBSET S |-> IF T = {} THEN 0
                            ELSE LET x == CHOOSE x \in T : TRUE IN f[x] + sum[T \ {x}]]

LEMMA AddsExists ==
  ASSUME NEW S, IsFiniteSet(S), NEW f
  PROVE  \E sum : Adds(sum, f, S)
<1> DEFINE Small(n) == {T \in SUBSET S : Cardinality(T) <= n}
           c(T) == CHOOSE x \in T : TRUE
           AddsTo(sum, n) == sum = [T \in Small(n) |-> IF T = {} THEN 0 ELSE f[c(T)] + sum[T \ {c(T)}]]
           N == {n \in Nat : \E sum : AddsTo(sum, n)}
<1>1. \A T \in SUBSET S : IsFiniteSet(T) /\ Cardinality(T) \in Nat /\ Cardinality(T) <= Cardinality(S)
  BY FS_Subset, FS_CardinalityType
<1>2. \A T \in SUBSET S : Cardinality(T) = 0 => T = {}
  BY <1>1, FS_EmptySet
<1>3. \A T \in SUBSET S : T # {} => /\ c(T) \in T
                                    /\ T \ {c(T)} \in SUBSET S
                                    /\ Cardinality(T \ {c(T)}) = Cardinality(T) - 1
  <2> SUFFICES ASSUME NEW T \in SUBSET S, T # {}
               PROVE  c(T) \in T /\ Cardinality(T \ {c(T)}) = Cardinality(T) - 1
    OBVIOUS
  <2>1. c(T) \in T
    OBVIOUS
  <2> HIDE DEF c
  <2>2. Cardinality(T \ {c(T)}) = IF c(T) \in T THEN Cardinality(T) - 1 ELSE Cardinality(T)
    BY <1>1, FS_RemoveElement
  <2> QED
    BY <2>1, <2>2
<1> HIDE DEF c
<1>4. 0 \in N
  <2>1. \A T \in Small(0) : T = {}
    BY <1>1, <1>2
  <2>2. AddsTo([T \in Small(0) |-> 0], 0)
    BY <2>1
  <2> HIDE DEF AddsTo
  <2> QED
    BY <2>2
<1>5. ASSUME NEW n \in Nat, n \in N
      PROVE  n + 1 \in N
  <2>1. PICK sum : AddsTo(sum, n)
    BY <1>5
  <2> DEFINE more == [T \in Small(n + 1) |-> IF T \in Small(n) THEN sum[T] ELSE f[c(T)] + sum[T \ {c(T)}]]
  <2>2. \A T \in Small(n) : sum[T] = IF T = {} THEN 0 ELSE f[c(T)] + sum[T \ {c(T)}]
    BY <2>1
  <2>3. \A T \in Small(n + 1) : T # {} => T \ {c(T)} \in Small(n)
    BY <1>1, <1>3
  <2>4. Small(n) \subseteq Small(n + 1) /\ {} \in Small(n)
    BY <1>1, FS_EmptySet
  <2>5. \A T \in Small(n + 1) : T # {} => more[T \ {c(T)}] = sum[T \ {c(T)}]
    BY <2>3, <2>4
  <2>6. \A T \in Small(n + 1) : more[T] = IF T = {} THEN 0 ELSE f[c(T)] + more[T \ {c(T)}]
    BY <2>2, <2>4, <2>5
  <2>7. more = [T \in Small(n + 1) |-> more[T]]
    OBVIOUS
  <2> HIDE DEF more, Small
  <2>8. AddsTo(more, n + 1)
    BY <2>6, <2>7
  <2> HIDE DEF AddsTo
  <2> QED
    BY <2>8
<1>6. \E sum : AddsTo(sum, Cardinality(S))
  <2>1. Nat \subseteq N
    <3> HIDE DEF N
    <3> QED
      BY <1>4, <1>5, Induction
  <2>2. Cardinality(S) \in Nat
    BY FS_CardinalityType
  <2> HIDE DEF AddsTo
  <2> QED
    BY <2>1, <2>2
<1>7. Small(Cardinality(S)) = SUBSET S
  BY <1>1
<1> QED
  BY <1>6, <1>7 DEF Adds, c

\* The order in which the values are added does not matter.
AnyOrder(sum, f, S) ==
  /\ sum \in [SUBSET S -> Int]
  /\ sum[{}] = 0
  /\ \A T \in SUBSET S : \A x \in S \ T : sum[T \cup {x}] = f[x] + sum[T]

LEMMA AddsAny ==
  ASSUME NEW S, IsFiniteSet(S), NEW f \in [S -> Int], NEW sum, Adds(sum, f, S)
  PROVE  AnyOrder(sum, f, S)
<1> DEFINE c(T) == CHOOSE x \in T : TRUE
<1>1. \A T \in SUBSET S : sum[T] = IF T = {} THEN 0 ELSE f[c(T)] + sum[T \ {c(T)}]
  BY DEF Adds
<1>2. \A T \in SUBSET S : T # {} => c(T) \in T
  OBVIOUS
<1> HIDE DEF c
<1>3. sum[{}] = 0
  BY <1>1
<1> DEFINE Rest(T) == \A x \in T : sum[T] \in Int /\ sum[T \ {x}] \in Int /\ sum[T] = f[x] + sum[T \ {x}]
           N == {n \in Nat : \A T \in SUBSET S : Cardinality(T) = n => sum[T] \in Int /\ Rest(T)}
<1>4. \A T \in SUBSET S : IsFiniteSet(T) /\ Cardinality(T) \in Nat
  BY FS_Subset, FS_CardinalityType
<1>5. \A T \in SUBSET S : \A x \in T : Cardinality(T \ {x}) = Cardinality(T) - 1
  BY <1>4, FS_RemoveElement
<1>6. 0 \in N
  <2>1. \A T \in SUBSET S : Cardinality(T) = 0 => T = {}
    BY <1>4, FS_EmptySet
  <2> QED
    BY <1>3, <2>1
<1>7. ASSUME NEW n \in Nat, n \in N
      PROVE  n + 1 \in N
  <2> SUFFICES ASSUME NEW T \in SUBSET S, Cardinality(T) = n + 1
               PROVE  sum[T] \in Int /\ Rest(T)
    OBVIOUS
  <2>1. T # {} /\ c(T) \in T
    BY <1>2, FS_EmptySet
  <2>2. \A x \in T : Cardinality(T \ {x}) = n /\ T \ {x} \in SUBSET S
    BY <1>5
  <2>3. \A x \in T : sum[T \ {x}] \in Int /\ Rest(T \ {x})
    BY <1>7, <2>2
  <2>4. sum[T] = f[c(T)] + sum[T \ {c(T)}]
    BY <1>1, <2>1
  <2>5. sum[T] \in Int
    <3>1. f[c(T)] \in Int /\ sum[T \ {c(T)}] \in Int
      BY <2>1, <2>3
    <3> QED
      BY <2>4, <3>1
  <2>6. ASSUME NEW x \in T
        PROVE  sum[T] = f[x] + sum[T \ {x}]
    <3>1. CASE x = c(T)
      BY <2>4, <3>1
    <3>2. CASE x # c(T)
      <4>1. x \in T \ {c(T)} /\ c(T) \in T \ {x}
        BY <2>1, <3>2
      <4>2. sum[T \ {c(T)}] = f[x] + sum[(T \ {c(T)}) \ {x}] /\ sum[(T \ {c(T)}) \ {x}] \in Int
        BY <2>1, <2>3, <4>1
      <4>3. sum[T \ {x}] = f[c(T)] + sum[(T \ {x}) \ {c(T)}]
        BY <2>3, <4>1
      <4>4. (T \ {x}) \ {c(T)} = (T \ {c(T)}) \ {x}
        OBVIOUS
      <4>5. f[x] \in Int /\ f[c(T)] \in Int
        BY <2>1
      <4> DEFINE rest == sum[(T \ {c(T)}) \ {x}]
      <4>6. /\ sum[T] = f[c(T)] + sum[T \ {c(T)}] /\ sum[T \ {c(T)}] = f[x] + rest
            /\ sum[T \ {x}] = f[c(T)] + rest /\ rest \in Int
        BY <2>4, <4>2, <4>3, <4>4
      <4> HIDE DEF rest
      <4> QED
        BY <4>5, <4>6
    <3> QED
      BY <3>1, <3>2
  <2> QED
    BY <2>3, <2>5, <2>6
<1>8. Nat \subseteq N
  <2> HIDE DEF N
  <2> QED
    BY <1>6, <1>7, Induction
<1>9. \A T \in SUBSET S : sum[T] \in Int /\ Rest(T)
  BY <1>4, <1>8
<1>10. sum \in [SUBSET S -> Int]
  <2>1. sum = [T \in SUBSET S |-> sum[T]]
    BY DEF Adds
  <2> QED
    BY <1>9, <2>1
<1>11. ASSUME NEW T \in SUBSET S, NEW x \in S \ T
       PROVE  sum[T \cup {x}] = f[x] + sum[T]
  <2>1. (T \cup {x}) \ {x} = T /\ T \cup {x} \in SUBSET S /\ x \in T \cup {x}
    OBVIOUS
  <2> QED
    BY <1>9, <2>1
<1> QED
  BY <1>3, <1>10, <1>11 DEF AnyOrder

\* s has each element of S once.
Enumerates(s, n, S) ==
  s \in [1 .. n -> S] /\ IsInjective(s) /\ \A x \in S : \E i \in 1 .. n : s[i] = x

\* The sum over a set is the sum over the places of its elements in a
\* sequence that has each once.
LEMMA SumAlong ==
  ASSUME NEW S, IsFiniteSet(S), NEW f \in [S -> Int], NEW sum, Adds(sum, f, S),
         NEW n \in Nat, NEW s, Enumerates(s, n, S),
         NEW g \in [1 .. n -> Int], \A i \in 1 .. n : g[i] = f[s[i]], NEW along, Adds(along, g, 1 .. n)
  PROVE  along[1 .. n] = sum[S]
<1> DEFINE Seen(k) == {s[i] : i \in 1 .. k}
           N == {k \in Nat : k <= n => along[1 .. k] = sum[Seen(k)]}
<1>0. s \in [1 .. n -> S] /\ IsInjective(s) /\ \A x \in S : \E i \in 1 .. n : s[i] = x
  BY DEF Enumerates
<1>1. /\ sum \in [SUBSET S -> Int] /\ sum[{}] = 0
      /\ \A T \in SUBSET S : \A x \in S \ T : sum[T \cup {x}] = f[x] + sum[T]
  <2>1. AnyOrder(sum, f, S)
    BY AddsAny
  <2> QED
    BY <2>1 DEF AnyOrder
<1>2. IsFiniteSet(1 .. n) /\ g \in [1 .. n -> Int]
  BY FS_Interval
<1>3. /\ along \in [SUBSET (1 .. n) -> Int] /\ along[{}] = 0
      /\ \A T \in SUBSET (1 .. n) : \A x \in (1 .. n) \ T : along[T \cup {x}] = g[x] + along[T]
  <2>1. AnyOrder(along, g, 1 .. n)
    BY <1>2, AddsAny
  <2> QED
    BY <2>1 DEF AnyOrder
<1>4. 0 \in N
  <2>1. 1 .. 0 = {} /\ Seen(0) = {}
    OBVIOUS
  <2> QED
    BY <2>1, <1>1, <1>3
<1>5. ASSUME NEW k \in Nat, k \in N
      PROVE  k + 1 \in N
  <2> SUFFICES ASSUME k + 1 <= n PROVE along[1 .. k + 1] = sum[Seen(k + 1)]
    OBVIOUS
  <2>1. 1 .. k + 1 = (1 .. k) \cup {k + 1} /\ k + 1 \in (1 .. n) \ (1 .. k) /\ 1 .. k \in SUBSET (1 .. n)
    OBVIOUS
  <2>2. along[1 .. k + 1] = g[k + 1] + along[1 .. k]
    <3>1. along[(1 .. k) \cup {k + 1}] = g[k + 1] + along[1 .. k]
      BY <2>1, <1>3
    <3> QED
      BY <2>1, <3>1
  <2>3. s[k + 1] \in S \ Seen(k) /\ Seen(k) \in SUBSET S
    <3>1. \A i \in 1 .. k : i \in 1 .. n /\ i # k + 1 /\ k + 1 \in 1 .. n
      OBVIOUS
    <3>2. DOMAIN s = 1 .. n
      BY <1>0
    <3> QED
      BY <1>0, <2>1, <3>1, <3>2 DEF IsInjective
  <2>4. Seen(k + 1) = Seen(k) \cup {s[k + 1]}
    BY <1>0, <2>1
  <2>5. sum[Seen(k + 1)] = f[s[k + 1]] + sum[Seen(k)]
    <3> HIDE DEF Seen
    <3> QED
      BY <2>3, <2>4, <1>1
  <2>6. along[1 .. k] = sum[Seen(k)] /\ g[k + 1] = f[s[k + 1]]
    BY <1>5
  <2> QED
    BY <2>2, <2>5, <2>6
<1>6. Nat \subseteq N
  <2> HIDE DEF N
  <2> QED
    BY <1>4, <1>5, Induction
<1>7. Seen(n) = S
  BY <1>0
<1>8. n \in N
  BY <1>6
<1>9. along[1 .. n] = sum[Seen(n)]
  BY <1>8
<1> QED
  BY <1>7, <1>9

\* FoldSeq with + is such a sum.
LEMMA FoldSeqAdds ==
  ASSUME NEW s, IsFiniteSet(DOMAIN s)
  PROVE  \E sum : Adds(sum, s, DOMAIN s) /\ FoldSeq(+, 0, s) = sum[DOMAIN s]
<1> DEFINE iter == CHOOSE sum : Adds(sum, s, DOMAIN s)
<1>1. Adds(iter, s, DOMAIN s)
  BY AddsExists
<1>2. FoldSeq(+, 0, s) = iter[DOMAIN s]
  BY DEF FoldSeq, FoldFunction, FoldFunctionOnSet, MapThenFoldSet, Adds
<1> QED
  BY <1>1, <1>2

\* And so is SumFunction.
LEMMA SumAdds ==
  ASSUME NEW f, IsFiniteSet(DOMAIN f)
  PROVE  \E sum : Adds(sum, f, DOMAIN f) /\ SumFunction(f) = sum[DOMAIN f]
<1> DEFINE iter == CHOOSE sum : Adds(sum, f, DOMAIN f)
<1>1. Adds(iter, f, DOMAIN f)
  BY AddsExists
<1>2. SumFunction(f) = iter[DOMAIN f]
  BY DEF SumFunction, SumFunctionOnSet, FoldFunction, FoldFunctionOnSet, MapThenFoldSet, Adds
<1> QED
  BY <1>1, <1>2

\* The sum of integers is one.
LEMMA SumIsInt ==
  ASSUME NEW S, IsFiniteSet(S), NEW f \in [S -> Int]
  PROVE  SumFunction(f) \in Int
<1>1. DOMAIN f = S
  OBVIOUS
<1>2. PICK sum : Adds(sum, f, S) /\ SumFunction(f) = sum[S]
  BY <1>1, SumAdds
<1>3. sum \in [SUBSET S -> Int]
  BY <1>2, AddsAny DEF AnyOrder
<1> QED
  BY <1>2, <1>3

\* The first m of a sequence that has each element once are m.
LEMMA CountFirst ==
  ASSUME NEW S, NEW n \in Nat, NEW s, Enumerates(s, n, S), NEW m \in 0 .. n,
         NEW T, \A x : x \in T <=> \E k \in 1 .. m : s[k] = x
  PROVE  Cardinality(T) = m
<1> DEFINE f == [k \in 1 .. m |-> s[k]]
<1>1. s \in [1 .. n -> S] /\ IsInjective(s) /\ 1 .. m \subseteq 1 .. n
  BY DEF Enumerates
<1>2. f \in [1 .. m -> T] /\ \A x \in T : \E k \in 1 .. m : f[k] = x
  OBVIOUS
<1>3. \A i, k \in 1 .. m : f[i] = f[k] => i = k
  BY <1>1 DEF IsInjective
<1> HIDE DEF f
<1>4. f \in Surjection(1 .. m, T) /\ f \in Injection(1 .. m, T)
  BY <1>2, <1>3 DEF Surjection, Injection, IsInjective
<1>5. IsFiniteSet(1 .. m) /\ Cardinality(1 .. m) = m
  BY FS_Interval
<1>6. Cardinality(T) = Cardinality(1 .. m)
  BY <1>4, <1>5, FS_Surjection
<1> QED
  BY <1>5, <1>6

-----------------------------------------------------------------------------
\* Places in sequences.

\* A part of a sequence.
LEMMA SubSeqPlaces ==
  ASSUME NEW S, NEW b \in Seq(S), NEW i \in Int, NEW j \in Int, 1 <= i, j <= Len(b), i <= j + 1
  PROVE  /\ SubSeq(b, i, j) \in Seq(S) /\ Len(SubSeq(b, i, j)) = j - i + 1
         /\ \A k \in 1 .. j - i + 1 : SubSeq(b, i, j)[k] = b[i + k - 1]
OBVIOUS

\* Sequences with the same elements are the same.
LEMMA SeqSame ==
  ASSUME NEW S, NEW s \in Seq(S), NEW t \in Seq(S), Len(s) = Len(t), \A k \in 1 .. Len(s) : s[k] = t[k]
  PROVE  s = t
OBVIOUS

\* A part of a sequence, place by place.
LEMMA PartIs ==
  ASSUME NEW S, NEW b \in Seq(S), NEW t \in Seq(S), NEW i \in Int, NEW j \in Int,
         1 <= i, j <= Len(b), j - i + 1 = Len(t), \A k \in 1 .. Len(t) : b[i + k - 1] = t[k]
  PROVE  SubSeq(b, i, j) = t
<1> DEFINE s == SubSeq(b, i, j)
<1>1. Len(t) \in Nat
  OBVIOUS
<1>2. i <= j + 1
  BY <1>1
<1>3. s \in Seq(S) /\ Len(s) = j - i + 1 /\ \A k \in 1 .. j - i + 1 : s[k] = b[i + k - 1]
  BY <1>2, SubSeqPlaces
<1> HIDE DEF s
<1>4. Len(s) = Len(t) /\ \A k \in 1 .. Len(s) : s[k] = t[k]
  BY <1>1, <1>3
<1>5. s = t
  BY <1>3, <1>4, SeqSame
<1> QED
  BY <1>5 DEF s

\* flat holds one sequence of seqs after the other; cut is where they end.
CutAt(flat, seqs, cut) ==
  /\ cut \in [0 .. Len(seqs) -> Nat] /\ cut[0] = 0 /\ cut[Len(seqs)] = Len(flat)
  /\ \A i \in 1 .. Len(seqs) :
       /\ cut[i] = cut[i - 1] + Len(seqs[i]) /\ cut[i] <= Len(flat)
       /\ \A k \in 1 .. Len(seqs[i]) : flat[cut[i - 1] + k] = seqs[i][k]
  /\ \A x \in 1 .. Len(flat) : \E i \in 1 .. Len(seqs) : \E k \in 1 .. Len(seqs[i]) : x = cut[i - 1] + k

\* What FlattenSeq returns has all the elements, place by place.
LEMMA FlattenCuts ==
  ASSUME NEW S, NEW seqs \in Seq(Seq(S))
  PROVE  FlattenSeq(seqs) \in Seq(S) /\ \E cut : CutAt(FlattenSeq(seqs), seqs, cut)
<1>1. Len(seqs) \in Nat /\ DOMAIN seqs = 1 .. Len(seqs)
  OBVIOUS
<1>2. CASE Len(seqs) = 0
  <2>1. FlattenSeq(seqs) = <<>> /\ seqs = <<>>
    BY <1>2 DEF FlattenSeq
  <2>2. CutAt(<<>>, <<>>, [i \in 0 .. 0 |-> 0])
    BY DEF CutAt
  <2> QED
    BY <2>1, <2>2
<1>3. CASE Len(seqs) > 0
  <2> DEFINE n == Len(seqs)
  <2>1. PICK f : /\ f = [i \in 1 .. n |-> IF i = 1 THEN seqs[i] ELSE f[i - 1] \o seqs[i]]
                 /\ FlattenSeq(seqs) = f[n]
    BY <1>1, <1>3, FlattenJoins
  <2>2. \A i \in 1 .. n : seqs[i] \in Seq(S) /\ Len(seqs[i]) \in Nat
    <3>1. \A i \in 1 .. n : seqs[i] \in Seq(S)
      OBVIOUS
    <3> QED
      BY <3>1
  <2> HIDE DEF n
  <2>3. n \in Nat /\ n > 0
    BY <1>1, <1>3 DEF n
  <2> DEFINE cut == [i \in 0 .. n |-> IF i = 0 THEN 0 ELSE Len(f[i])]
             Places(flat, m) ==
               /\ flat \in Seq(S) /\ cut[m] = Len(flat) /\ cut[m] \in Nat
               /\ \A i \in 1 .. m : /\ cut[i] = cut[i - 1] + Len(seqs[i]) /\ cut[i - 1] \in Nat /\ cut[i] <= cut[m]
                                    /\ \A k \in 1 .. Len(seqs[i]) : flat[cut[i - 1] + k] = seqs[i][k]
               /\ \A x \in 1 .. Len(flat) : \E i \in 1 .. m : \E k \in 1 .. Len(seqs[i]) : x = cut[i - 1] + k
             T == {m \in Nat : m \in 1 .. n => Places(f[m], m)}
  <2>4. cut[0] = 0 /\ (\A i \in 1 .. n : cut[i] = Len(f[i])) /\ cut = [i \in 0 .. n |-> cut[i]]
    BY <2>3
  <2>0. \A i \in 1 .. n : f[i] = IF i = 1 THEN seqs[i] ELSE f[i - 1] \o seqs[i]
    BY <2>1
  <2> HIDE DEF cut, Places
  <2>5. 0 \in T
    OBVIOUS
  <2>6. ASSUME NEW m \in Nat, m \in T
        PROVE  m + 1 \in T
    <3> SUFFICES ASSUME m + 1 \in 1 .. n PROVE Places(f[m + 1], m + 1)
      OBVIOUS
    <3> DEFINE t == seqs[m + 1]
               u == f[m + 1]
    <3> HIDE DEF t, u
    <3>1. t \in Seq(S) /\ Len(t) \in Nat /\ cut[m + 1] = Len(u)
      BY <2>2, <2>4 DEF t, u
    <3>2. CASE m = 0
      <4>1. u = t
        BY <2>0, <3>2 DEF t, u
      <4>2. \A i \in 1 .. 1 : i = 1
        OBVIOUS
      <4>3. cut[1] = Len(t) /\ u = t /\ t = seqs[1] /\ m + 1 = 1
        BY <3>1, <3>2, <4>1 DEF t
      <4>4. cut[1] = cut[0] + Len(seqs[1]) /\ cut[0] \in Nat /\ cut[1] \in Nat /\ cut[1] = Len(t) /\ cut[0] = 0
        BY <2>4, <3>1, <4>3
      <4>5. \A k \in 1 .. Len(t) : u[cut[0] + k] = seqs[1][k]
        BY <4>3, <4>4
      <4>6. \A x \in 1 .. Len(t) : \E k \in 1 .. Len(seqs[1]) : x = cut[0] + k
        BY <4>3, <4>4
      <4>7. 1 - 1 = 0 /\ cut[1] <= cut[1]
        BY <4>4
      <4>8. Places(u, 1)
        BY <3>1, <4>2, <4>3, <4>4, <4>5, <4>6, <4>7 DEF Places
      <4> QED
        BY <4>3, <4>8 DEF u
    <3>3. CASE m # 0
      <4> DEFINE s == f[m]
      <4>1. m \in 1 .. n /\ Places(s, m)
        BY <2>6, <2>3, <3>3 DEF s
      <4> HIDE DEF s
      <4>2. u = s \o t
        <5>1. u = IF m + 1 = 1 THEN t ELSE f[m + 1 - 1] \o t
          BY <2>0 DEF t, u
        <5>2. m + 1 # 1 /\ m + 1 - 1 = m
          BY <3>3
        <5> QED
          BY <5>1, <5>2 DEF s
      <4>0. /\ s \in Seq(S) /\ cut[m] = Len(s) /\ cut[m] \in Nat
            /\ \A i \in 1 .. m : /\ cut[i] = cut[i - 1] + Len(seqs[i]) /\ cut[i - 1] \in Nat /\ cut[i] <= cut[m]
                                 /\ \A k \in 1 .. Len(seqs[i]) : s[cut[i - 1] + k] = seqs[i][k]
            /\ \A x \in 1 .. Len(s) : \E i \in 1 .. m : \E k \in 1 .. Len(seqs[i]) : x = cut[i - 1] + k
        BY <4>1 DEF Places
      <4>3. SideBySide(u, s, t) /\ u \in Seq(S)
        BY <3>1, <4>0, <4>2, ConcatPlaces
      <4>4. /\ Len(u) = Len(s) + Len(t) /\ cut[m] = Len(s) /\ Len(s) \in Nat /\ cut[m + 1] = cut[m] + Len(t)
            /\ (\A k \in 1 .. Len(s) : u[k] = s[k]) /\ (\A k \in 1 .. Len(t) : u[cut[m] + k] = t[k])
        BY <3>1, <4>0, <4>3 DEF SideBySide
      <4>5. ASSUME NEW i \in 1 .. m + 1
            PROVE  /\ cut[i] = cut[i - 1] + Len(seqs[i]) /\ cut[i - 1] \in Nat /\ cut[i] <= cut[m + 1]
                   /\ \A k \in 1 .. Len(seqs[i]) : u[cut[i - 1] + k] = seqs[i][k]
        <5>1. CASE i = m + 1
          <6>1. seqs[i] = t /\ i - 1 = m
            BY <5>1 DEF t
          <6>2. \A k \in 1 .. Len(t) : u[cut[i - 1] + k] = seqs[i][k]
            BY <4>4, <6>1
          <6>3. cut[i] = cut[i - 1] + Len(seqs[i]) /\ cut[i - 1] \in Nat /\ cut[i] <= cut[m + 1]
            <7>1. cut[i] = cut[m + 1] /\ cut[i - 1] = cut[m] /\ Len(seqs[i]) = Len(t)
              BY <5>1, <6>1
            <7>2. cut[m] \in Nat /\ cut[m + 1] \in Nat /\ cut[m + 1] = cut[m] + Len(t)
              BY <3>1, <4>4
            <7> QED
              BY <7>1, <7>2
          <6> QED
            BY <6>1, <6>2, <6>3
        <5>2. CASE i # m + 1
          <6>1. i \in 1 .. m
            BY <5>2
          <6>2. /\ cut[i] = cut[i - 1] + Len(seqs[i]) /\ cut[i - 1] \in Nat /\ cut[i] <= cut[m]
                /\ \A k \in 1 .. Len(seqs[i]) : s[cut[i - 1] + k] = seqs[i][k]
            BY <4>0, <6>1
          <6>3. Len(seqs[i]) \in Nat
            BY <2>2, <4>1, <6>1
          <6>4. cut[i] \in Nat /\ cut[i] <= Len(s) /\ cut[i - 1] + Len(seqs[i]) <= Len(s)
            BY <4>4, <6>2, <6>3
          <6>5. ASSUME NEW k \in 1 .. Len(seqs[i])
                PROVE  u[cut[i - 1] + k] = seqs[i][k]
            <7> DEFINE j == cut[i - 1] + k
            <7>1. j \in 1 .. Len(s)
              BY <4>4, <6>2, <6>3, <6>4
            <7>2. s[j] = seqs[i][k]
              BY <6>2
            <7> HIDE DEF j
            <7>3. u[j] = s[j]
              BY <4>4, <7>1
            <7> QED
              BY <7>2, <7>3 DEF j
          <6>6. cut[m] <= cut[m + 1]
            BY <3>1, <4>4
          <6>7. cut[i] <= cut[m + 1]
            BY <3>1, <4>4, <6>2, <6>4, <6>6
          <6> QED
            BY <6>2, <6>5, <6>7
        <5> QED
          BY <5>1, <5>2
      <4>6. ASSUME NEW x \in 1 .. Len(u)
            PROVE  \E i \in 1 .. m + 1 : \E k \in 1 .. Len(seqs[i]) : x = cut[i - 1] + k
        <5>1. CASE x <= Len(s)
          <6>1. x \in 1 .. Len(s)
            BY <4>4, <5>1
          <6>2. PICK i \in 1 .. m : \E k \in 1 .. Len(seqs[i]) : x = cut[i - 1] + k
            BY <4>0, <6>1
          <6>3. i \in 1 .. m + 1
            OBVIOUS
          <6> QED
            BY <6>2, <6>3
        <5>2. CASE ~(x <= Len(s))
          <6>1. x - cut[m] \in 1 .. Len(t) /\ x = cut[m] + (x - cut[m])
            BY <3>1, <4>4, <5>2
          <6>2. m + 1 \in 1 .. m + 1 /\ m + 1 - 1 = m /\ seqs[m + 1] = t
            BY DEF t
          <6> QED
            BY <6>1, <6>2
        <5> QED
          BY <5>1, <5>2
      <4> QED
        BY <3>1, <4>3, <4>4, <4>5, <4>6 DEF u, Places
    <3> QED
      BY <3>2, <3>3
  <2>7. Places(f[n], n)
    <3>1. Nat \subseteq T
      <4> HIDE DEF T
      <4> QED
        BY <2>5, <2>6, Induction
    <3>2. n \in T /\ n \in 1 .. n
      BY <2>3, <3>1
    <3> QED
      BY <3>2
  <2>8. cut \in [0 .. n -> Nat]
    <3>1. \A i \in 0 .. n : cut[i] \in Nat
      <4> TAKE i \in 0 .. n
      <4>1. CASE i = 0
        BY <2>4, <4>1
      <4>2. CASE i # 0
        <5>1. i \in 1 .. n
          BY <2>3, <4>2
        <5>2. cut[i] = cut[i - 1] + Len(seqs[i]) /\ cut[i - 1] \in Nat
          BY <2>7, <5>1 DEF Places
        <5> QED
          BY <2>2, <5>1, <5>2
      <4> QED
        BY <4>1, <4>2
    <3> QED
      BY <2>4, <3>1
  <2>9. CutAt(f[n], seqs, cut)
    BY <2>4, <2>7, <2>8 DEF CutAt, n, Places
  <2> QED
    BY <2>1, <2>7, <2>9 DEF Places
<1> QED
  BY <1>1, <1>2, <1>3

\* A sequence that has no element twice.
Distinct(s) == \A x, y \in 1 .. Len(s) : s[x] = s[y] => x = y

\* If no sequence of seqs has an element twice and no two of them have one in
\* common, neither has FlattenSeq(seqs).
LEMMA FlattenDistinct ==
  ASSUME NEW S, NEW seqs \in Seq(Seq(S)), \A i \in 1 .. Len(seqs) : Distinct(seqs[i]),
         \A i, j \in 1 .. Len(seqs) : \A k \in 1 .. Len(seqs[i]), l \in 1 .. Len(seqs[j]) :
           seqs[i][k] = seqs[j][l] => i = j
  PROVE  Distinct(FlattenSeq(seqs))
<1> DEFINE flat == FlattenSeq(seqs)
<1>1. PICK cut : CutAt(flat, seqs, cut)
  BY FlattenCuts
<1> HIDE DEF flat
<1>2. /\ \A i \in 1 .. Len(seqs) : \A k \in 1 .. Len(seqs[i]) : flat[cut[i - 1] + k] = seqs[i][k]
      /\ \A x \in 1 .. Len(flat) : \E i \in 1 .. Len(seqs) : \E k \in 1 .. Len(seqs[i]) : x = cut[i - 1] + k
  BY <1>1 DEF CutAt
<1>3. ASSUME NEW x \in 1 .. Len(flat), NEW y \in 1 .. Len(flat), flat[x] = flat[y]
      PROVE  x = y
  <2>1. PICK i \in 1 .. Len(seqs) : \E k \in 1 .. Len(seqs[i]) : x = cut[i - 1] + k
    BY <1>2
  <2>2. PICK k \in 1 .. Len(seqs[i]) : x = cut[i - 1] + k
    BY <2>1
  <2>3. PICK j \in 1 .. Len(seqs) : \E l \in 1 .. Len(seqs[j]) : y = cut[j - 1] + l
    BY <1>2
  <2>4. PICK l \in 1 .. Len(seqs[j]) : y = cut[j - 1] + l
    BY <2>3
  <2>5. flat[x] = seqs[i][k] /\ flat[y] = seqs[j][l]
    BY <1>2, <2>2, <2>4
  <2>6. seqs[i][k] = seqs[j][l]
    BY <1>3, <2>5
  <2>7. i = j
    BY <2>6
  <2>8. k = l
    BY <2>6, <2>7 DEF Distinct
  <2> QED
    BY <2>2, <2>4, <2>7, <2>8
<1> QED
  BY <1>3 DEF flat, Distinct

\* Sequences of the same length m make one that is m times as many.
LEMMA FlattenEven ==
  ASSUME NEW S, NEW seqs \in Seq(Seq(S)), NEW m \in Nat, \A i \in 1 .. Len(seqs) : Len(seqs[i]) = m
  PROVE  Len(FlattenSeq(seqs)) = Len(seqs) * m
<1> DEFINE flat == FlattenSeq(seqs)
           n == Len(seqs)
<1>0. n \in Nat
  OBVIOUS
<1>1. PICK cut : CutAt(flat, seqs, cut)
  BY FlattenCuts
<1> HIDE DEF flat, n
<1>2. cut[0] = 0 /\ cut[n] = Len(flat) /\ \A i \in 1 .. n : cut[i] = cut[i - 1] + m
  BY <1>1 DEF CutAt, n
<1> DEFINE U == {i \in Nat : i <= n => cut[i] = i * m}
<1>3. 0 \in U
  BY <1>2
<1>4. ASSUME NEW i \in Nat, i \in U
      PROVE  i + 1 \in U
  <2> SUFFICES ASSUME i + 1 <= n PROVE cut[i + 1] = (i + 1) * m
    OBVIOUS
  <2>1. i + 1 \in 1 .. n /\ i + 1 - 1 = i /\ i <= n
    BY <1>0
  <2>2. cut[i + 1] = cut[i] + m
    BY <1>2, <2>1
  <2>3. cut[i] = i * m
    BY <1>4, <2>1
  <2> QED
    BY <2>2, <2>3
<1> HIDE DEF U
<1>5. Nat \subseteq U
  BY <1>3, <1>4, Induction
<1>6. cut[n] = n * m
  BY <1>0, <1>5 DEF U
<1> QED
  BY <1>2, <1>6 DEF flat, n

-----------------------------------------------------------------------------
\* The jobs of a configuration.

MadeOf(js, kinds, targets) ==
  \A job : job \in ToSet(js) <=> \E k \in DOMAIN kinds, i \in DOMAIN targets :
                                   job = [kind |-> kinds[k], target |-> targets[i]]

\* JobsFor makes a job of every kind for every target, and no other.
LEMMA JobsOf ==
  ASSUME NEW K, NEW T, NEW kinds \in Seq(K), NEW targets \in Seq(T)
  PROVE  /\ JobsFor(targets, kinds) \in Seq([kind : K, target : T])
         /\ MadeOf(JobsFor(targets, kinds), kinds, targets)
<1> DEFINE J == [kind : K, target : T]
           row(i) == [k \in DOMAIN kinds |-> [kind |-> kinds[k], target |-> targets[i]]]
           rows == [i \in DOMAIN targets |-> row(i)]
<1>1. \A i \in DOMAIN targets : row(i) \in Seq(J)
  <2>1. \A i \in DOMAIN targets : targets[i] \in T
    OBVIOUS
  <2>2. \A k \in DOMAIN kinds : kinds[k] \in K
    OBVIOUS
  <2>3. DOMAIN kinds = 1 .. Len(kinds) /\ Len(kinds) \in Nat
    OBVIOUS
  <2> QED
    BY <2>1, <2>2, <2>3
<1>2. rows \in Seq(Seq(J)) /\ DOMAIN rows = DOMAIN targets
  <2>1. DOMAIN targets = 1 .. Len(targets) /\ Len(targets) \in Nat
    OBVIOUS
  <2> HIDE DEF row, J
  <2> QED
    BY <1>1, <2>1
<1>3. JobsFor(targets, kinds) = FlattenSeq(rows)
  BY DEF JobsFor
<1>4. \A i \in DOMAIN targets :
        \A job : job \in ToSet(rows[i]) <=>
                   \E k \in DOMAIN kinds : job = [kind |-> kinds[k], target |-> targets[i]]
  BY DEF ToSet
<1> HIDE DEF rows, row
<1>5. /\ JobsFor(targets, kinds) \in Seq(J)
      /\ ToSet(JobsFor(targets, kinds)) = UNION {ToSet(rows[i]) : i \in DOMAIN rows}
  BY <1>2, <1>3, FlattenElements
<1>6. \A job : job \in UNION {ToSet(rows[i]) : i \in DOMAIN rows} <=>
                 \E i \in DOMAIN targets : job \in ToSet(rows[i])
  BY <1>2
<1>7. ASSUME NEW job
      PROVE  job \in ToSet(JobsFor(targets, kinds)) <=>
               \E i \in DOMAIN targets : \E k \in DOMAIN kinds :
                 job = [kind |-> kinds[k], target |-> targets[i]]
  <2>1. job \in ToSet(JobsFor(targets, kinds)) <=> \E i \in DOMAIN targets : job \in ToSet(rows[i])
    BY <1>5, <1>6
  <2> QED
    BY <2>1, <1>4
<1> QED
  BY <1>5, <1>7 DEF MadeOf

\* And none twice, if no kind and no target is there twice.
LEMMA JobsDistinct ==
  ASSUME NEW K, NEW T, NEW kinds \in Seq(K), NEW targets \in Seq(T), Distinct(kinds), Distinct(targets)
  PROVE  /\ Distinct(JobsFor(targets, kinds))
         /\ Len(JobsFor(targets, kinds)) = Len(targets) * Len(kinds)
<1> DEFINE J == [kind : K, target : T]
           n == Len(targets)
           m == Len(kinds)
           rows == [i \in DOMAIN targets |-> [k \in DOMAIN kinds |-> [kind |-> kinds[k], target |-> targets[i]]]]
<1>1. n \in Nat /\ DOMAIN targets = 1 .. n /\ m \in Nat /\ DOMAIN kinds = 1 .. m
  OBVIOUS
<1>2. (\A i \in 1 .. n : targets[i] \in T) /\ (\A k \in 1 .. m : kinds[k] \in K)
  OBVIOUS
<1>3. JobsFor(targets, kinds) = FlattenSeq(rows)
  BY DEF JobsFor
<1> HIDE DEF n, m
<1>4. \A i \in 1 .. n : /\ rows[i] = [k \in 1 .. m |-> rows[i][k]]
                        /\ \A k \in 1 .. m : rows[i][k] = [kind |-> kinds[k], target |-> targets[i]]
  BY <1>1
<1>5. rows = [i \in 1 .. n |-> rows[i]]
  BY <1>1
<1> HIDE DEF rows
<1>6. \A i \in 1 .. n : rows[i] \in Seq(J) /\ Len(rows[i]) = m
  <2> SUFFICES ASSUME NEW i \in 1 .. n PROVE rows[i] \in Seq(J) /\ Len(rows[i]) = m
    OBVIOUS
  <2>1. \A k \in 1 .. m : rows[i][k] \in J
    <3> TAKE k \in 1 .. m
    <3>1. rows[i][k] = [kind |-> kinds[k], target |-> targets[i]]
      BY <1>4
    <3> QED
      BY <1>2, <3>1
  <2> HIDE DEF J
  <2> QED
    BY <1>1, <1>4, <2>1, IsSequence
<1> HIDE DEF J
<1>7. rows \in Seq(Seq(J)) /\ Len(rows) = n
  BY <1>1, <1>5, <1>6, IsSequence
<1>8. \A i, j \in 1 .. n : \A k, l \in 1 .. m : rows[i][k] = rows[j][l] => i = j /\ k = l
  <2> SUFFICES ASSUME NEW i \in 1 .. n, NEW j \in 1 .. n, NEW k \in 1 .. m, NEW l \in 1 .. m,
                      rows[i][k] = rows[j][l]
               PROVE  i = j /\ k = l
    OBVIOUS
  <2>1. /\ rows[i][k] = [kind |-> kinds[k], target |-> targets[i]]
        /\ rows[j][l] = [kind |-> kinds[l], target |-> targets[j]]
    BY <1>4
  <2>2. [kind |-> kinds[k], target |-> targets[i]] = [kind |-> kinds[l], target |-> targets[j]]
    BY <2>1
  <2>3. kinds[k] = kinds[l] /\ targets[i] = targets[j]
    BY <2>2
  <2> QED
    BY <2>3 DEF Distinct, n, m
<1>9. \A i \in 1 .. Len(rows) : Distinct(rows[i])
  BY <1>6, <1>7, <1>8 DEF Distinct
<1>10. \A i, j \in 1 .. Len(rows) : \A k \in 1 .. Len(rows[i]), l \in 1 .. Len(rows[j]) :
         rows[i][k] = rows[j][l] => i = j
  BY <1>6, <1>7, <1>8
<1>11. Distinct(FlattenSeq(rows))
  BY <1>7, <1>9, <1>10, FlattenDistinct
<1>12. Len(FlattenSeq(rows)) = n * m
  BY <1>1, <1>6, <1>7, FlattenEven
<1> QED
  BY <1>3, <1>11, <1>12 DEF n, m

PeerKinds == {"beacon_tcp_connect", "lib_p2p_handshake"}
SingleKinds ==
  {"http_control", "discv5_ping", "p2p_tcp_connect", "discv4_ping",
   "rlpx_handshake", "dns_compare", "beacon_discv5_ping", "beacon_https"}
PlanKinds ==
  SingleKinds \cup {"https_json_rpc", "https_json_rpc_write", "wss_json_rpc", "wss_subscribe"}
              \cup {"dns_resolve", "tcp_connect", "tls_handshake"}

\* The kinds of the sections of the plan are not those of the live peers.
LEMMA KindsOfPlan ==
  ASSUME NEW s \in DOMAIN Plan
  PROVE  Plan[s][2] \in Seq(PlanKinds) /\ PlanKinds \cap PeerKinds = {}
<1>1. DOMAIN Plan = 1 .. 11
  BY DEF Plan
<1>2. \/ \E a \in SingleKinds : Plan[s][2] = <<a>>
      \/ Plan[s][2] = <<"https_json_rpc", "https_json_rpc_write">>
      \/ Plan[s][2] = <<"wss_json_rpc", "wss_subscribe">>
      \/ Plan[s][2] = <<"dns_resolve", "tcp_connect", "tls_handshake">>
  BY <1>1 DEF Plan, SingleKinds
<1>3. \/ \E a \in PlanKinds : Plan[s][2] = <<a>>
      \/ \E a, b \in PlanKinds : Plan[s][2] = <<a, b>>
      \/ \E a, b, c \in PlanKinds : Plan[s][2] = <<a, b, c>>
  BY <1>2 DEF PlanKinds
<1>4. PlanKinds \cap PeerKinds = {}
  BY DEF PlanKinds, SingleKinds, PeerKinds
<1> HIDE DEF Plan, PlanKinds
<1>5. \A a, b, c \in PlanKinds : <<a>> \in Seq(PlanKinds) /\ <<a, b>> \in Seq(PlanKinds)
                                   /\ <<a, b, c>> \in Seq(PlanKinds)
  OBVIOUS
<1> QED
  BY <1>3, <1>4, <1>5

\* Every section has kinds of its own, each once.
SectionOf(kind) ==
  IF kind = "http_control" THEN 1
  ELSE IF kind \in {"dns_resolve", "tcp_connect", "tls_handshake"} THEN 2
  ELSE IF kind \in {"https_json_rpc", "https_json_rpc_write"} THEN 3
  ELSE IF kind \in {"wss_json_rpc", "wss_subscribe"} THEN 4
  ELSE IF kind = "discv5_ping" THEN 5
  ELSE IF kind = "p2p_tcp_connect" THEN 6
  ELSE IF kind = "discv4_ping" THEN 7
  ELSE IF kind = "rlpx_handshake" THEN 8
  ELSE IF kind = "dns_compare" THEN 9
  ELSE IF kind = "beacon_discv5_ping" THEN 10
  ELSE 11

LEMMA OwnKinds ==
  ASSUME NEW s \in DOMAIN Plan
  PROVE  Distinct(Plan[s][2]) /\ \A k \in DOMAIN Plan[s][2] : SectionOf(Plan[s][2][k]) = s
<1>1. DOMAIN Plan = 1 .. 11
  BY DEF Plan
<1>2. \/ s \in {1, 5, 6, 7, 8, 9, 10, 11} /\ \E a : Plan[s][2] = <<a>> /\ SectionOf(a) = s
      \/ s \in {3, 4} /\ \E a, b : Plan[s][2] = <<a, b>> /\ a # b /\ SectionOf(a) = s /\ SectionOf(b) = s
      \/ s = 2 /\ \E a, b, c : /\ Plan[s][2] = <<a, b, c>> /\ a # b /\ b # c /\ a # c
                               /\ SectionOf(a) = s /\ SectionOf(b) = s /\ SectionOf(c) = s
  BY <1>1 DEF Plan, SectionOf
<1> QED
  BY <1>2 DEF Distinct

\* The jobs of a configuration: those of its compiled sections.
JobOf(job, config, compiled) ==
  \E s \in DOMAIN Plan :
    /\ Plan[s][1] \in compiled
    /\ \E k \in DOMAIN Plan[s][2], i \in DOMAIN config[Plan[s][1]] :
         job = [kind |-> Plan[s][2][k], target |-> config[Plan[s][1]][i]]

\* The jobs of one section of the plan.
SectionJobs(s, config, compiled) ==
  IF Plan[s][1] \in compiled THEN JobsFor(config[Plan[s][1]], Plan[s][2]) ELSE <<>>

Sections(config, compiled) == [s \in DOMAIN Plan |-> SectionJobs(s, config, compiled)]

AllLists(config, compiled) ==
  \A s \in DOMAIN Plan : Plan[s][1] \in compiled => config[Plan[s][1]] \in Seq(ToSet(config[Plan[s][1]]))

PlanJobs(config) == [kind : PlanKinds, target : UNION {ToSet(config[Plan[s][1]]) : s \in DOMAIN Plan}]

LEMMA SectionMakes ==
  ASSUME NEW config, NEW compiled, AllLists(config, compiled), NEW s \in DOMAIN Plan
  PROVE  /\ SectionJobs(s, config, compiled) \in Seq(PlanJobs(config))
         /\ Plan[s][1] \in compiled => MadeOf(SectionJobs(s, config, compiled), Plan[s][2], config[Plan[s][1]])
         /\ Plan[s][1] \notin compiled => SectionJobs(s, config, compiled) = <<>>
<1> DEFINE c == Plan[s][1]
           kinds == Plan[s][2]
           targets == config[c]
           T == UNION {ToSet(config[Plan[u][1]]) : u \in DOMAIN Plan}
           part == SectionJobs(s, config, compiled)
<1>1. CASE c \in compiled
  <2>1. targets \in Seq(ToSet(targets)) /\ ToSet(targets) \subseteq T
    BY <1>1 DEF AllLists
  <2>2. kinds \in Seq(PlanKinds)
    BY KindsOfPlan
  <2>3. part = JobsFor(targets, kinds)
    BY <1>1 DEF SectionJobs
  <2> HIDE DEF part, targets, kinds, T
  <2>4. targets \in Seq(T)
    BY <2>1, SeqMonotone
  <2>5. /\ JobsFor(targets, kinds) \in Seq([kind : PlanKinds, target : T])
        /\ MadeOf(JobsFor(targets, kinds), kinds, targets)
    BY ONLY <2>2, <2>4, JobsOf
  <2> QED
    BY <1>1, <2>3, <2>5 DEF PlanJobs, T, part, targets, kinds
<1>2. CASE c \notin compiled
  BY <1>2 DEF SectionJobs
<1> QED
  BY <1>1, <1>2

LEMMA SectionsAreSequences ==
  ASSUME NEW config, NEW compiled, AllLists(config, compiled)
  PROVE  /\ Sections(config, compiled) \in Seq(Seq(PlanJobs(config))) /\ Len(Sections(config, compiled)) = 11
         /\ DOMAIN Plan = 1 .. 11 /\ BuildJobs(config, compiled) = FlattenSeq(Sections(config, compiled))
<1>1. DOMAIN Plan = 1 .. 11
  BY DEF Plan
<1>2. \A s \in 1 .. 11 : SectionJobs(s, config, compiled) \in Seq(PlanJobs(config))
  BY <1>1, SectionMakes
<1> DEFINE parts == Sections(config, compiled)
<1>3. parts = [s \in 1 .. 11 |-> parts[s]] /\ \A s \in 1 .. 11 : parts[s] \in Seq(PlanJobs(config))
  BY <1>1, <1>2 DEF Sections
<1>4. parts \in Seq(Seq(PlanJobs(config))) /\ Len(parts) = 11
  <2> HIDE DEF parts
  <2>1. 11 \in Nat
    OBVIOUS
  <2> QED
    BY <1>3, <2>1, IsSequence
<1>5. BuildJobs(config, compiled) = FlattenSeq(parts)
  BY DEF BuildJobs, Sections, SectionJobs
<1> QED
  BY <1>1, <1>4, <1>5

\* build_jobs makes the jobs of the compiled sections, and no other.
LEMMA BuiltJobs ==
  ASSUME NEW config, NEW compiled, AllLists(config, compiled)
  PROVE  /\ BuildJobs(config, compiled) \in Seq(PlanJobs(config))
         /\ \A job : job \in ToSet(BuildJobs(config, compiled)) <=> JobOf(job, config, compiled)
<1> DEFINE parts == Sections(config, compiled)
           J == PlanJobs(config)
           built == BuildJobs(config, compiled)
<1>1. parts \in Seq(Seq(J)) /\ Len(parts) = 11 /\ DOMAIN Plan = 1 .. 11 /\ built = FlattenSeq(parts)
  BY SectionsAreSequences
<1>2. \A s \in DOMAIN Plan : parts[s] = SectionJobs(s, config, compiled)
  BY DEF Sections
<1>3. DOMAIN parts = DOMAIN Plan
  BY DEF Sections
<1> HIDE DEF parts, J, built
<1>4. built \in Seq(J) /\ ToSet(built) = UNION {ToSet(parts[s]) : s \in DOMAIN parts}
  BY <1>1, FlattenElements
<1>5. \A s \in DOMAIN Plan : Plan[s][1] \notin compiled => ToSet(parts[s]) = {}
  <2> SUFFICES ASSUME NEW s \in DOMAIN Plan, Plan[s][1] \notin compiled PROVE ToSet(parts[s]) = {}
    OBVIOUS
  <2>1. parts[s] = <<>>
    BY <1>2, SectionMakes
  <2> QED
    BY <2>1 DEF ToSet
<1>6. \A s \in DOMAIN Plan : Plan[s][1] \in compiled => MadeOf(parts[s], Plan[s][2], config[Plan[s][1]])
  BY <1>2, SectionMakes
<1>7. ASSUME NEW job
      PROVE  job \in ToSet(built) <=> JobOf(job, config, compiled)
  <2>1. job \in ToSet(built) <=> \E s \in DOMAIN Plan : job \in ToSet(parts[s])
    BY <1>3, <1>4
  <2> QED
    BY <2>1, <1>5, <1>6 DEF JobOf, MadeOf
<1> QED
  BY <1>4, <1>7 DEF J, built

\* No target of a section is there twice.
NoTargetTwice(config, compiled) ==
  \A s \in DOMAIN Plan : Plan[s][1] \in compiled => Distinct(config[Plan[s][1]])

\* How many jobs of a section there are.
SectionSize(s, config, compiled) ==
  IF Plan[s][1] \in compiled THEN Len(config[Plan[s][1]]) * Len(Plan[s][2]) ELSE 0

LEMMA SectionDistinct ==
  ASSUME NEW config, NEW compiled, AllLists(config, compiled), NoTargetTwice(config, compiled),
         NEW s \in DOMAIN Plan
  PROVE  /\ Distinct(SectionJobs(s, config, compiled))
         /\ Len(SectionJobs(s, config, compiled)) = SectionSize(s, config, compiled)
<1> DEFINE c == Plan[s][1]
           kinds == Plan[s][2]
           targets == config[c]
           part == SectionJobs(s, config, compiled)
<1>1. CASE c \in compiled
  <2>1. targets \in Seq(ToSet(targets)) /\ Distinct(targets)
    BY <1>1 DEF AllLists, NoTargetTwice
  <2>2. kinds \in Seq(PlanKinds) /\ Distinct(kinds)
    BY KindsOfPlan, OwnKinds
  <2>3. part = JobsFor(targets, kinds) /\ SectionSize(s, config, compiled) = Len(targets) * Len(kinds)
    BY <1>1 DEF SectionJobs, SectionSize
  <2> HIDE DEF part, targets, kinds
  <2>4. Distinct(part) /\ Len(part) = Len(targets) * Len(kinds)
    BY <2>1, <2>2, <2>3, JobsDistinct
  <2> QED
    BY <2>3, <2>4 DEF part
<1>2. CASE c \notin compiled
  BY <1>2 DEF SectionJobs, SectionSize, Distinct
<1> QED
  BY <1>1, <1>2

\* Two sections have no job in common.
LEMMA SectionsDisjoint ==
  ASSUME NEW config, NEW compiled, AllLists(config, compiled), NEW s \in DOMAIN Plan,
         NEW k \in 1 .. Len(SectionJobs(s, config, compiled))
  PROVE  SectionOf(SectionJobs(s, config, compiled)[k].kind) = s
<1> DEFINE part == SectionJobs(s, config, compiled)
<1>1. part \in Seq(PlanJobs(config))
  BY SectionMakes
<1>2. CASE Plan[s][1] \in compiled
  <2>1. MadeOf(part, Plan[s][2], config[Plan[s][1]])
    BY <1>2, SectionMakes
  <2> HIDE DEF part
  <2>2. part[k] \in ToSet(part)
    BY <1>1 DEF ToSet, part
  <2>3. PICK m \in DOMAIN Plan[s][2] : \E i \in DOMAIN config[Plan[s][1]] :
               part[k] = [kind |-> Plan[s][2][m], target |-> config[Plan[s][1]][i]]
    BY <2>1, <2>2 DEF MadeOf
  <2>4. part[k].kind = Plan[s][2][m]
    BY <2>3
  <2>5. SectionOf(Plan[s][2][m]) = s
    BY OwnKinds
  <2> QED
    BY <2>4, <2>5 DEF part
<1>3. CASE Plan[s][1] \notin compiled
  <2>1. part = <<>>
    BY <1>3, SectionMakes
  <2>2. Len(part) = 0
    BY <2>1
  <2> HIDE DEF part
  <2> QED
    BY <2>2 DEF part
<1> QED
  BY <1>2, <1>3

\* build_jobs makes no job twice, and of each section a job for each kind and
\* target.
LEMMA BuiltDistinct ==
  ASSUME NEW config, NEW compiled, AllLists(config, compiled), NoTargetTwice(config, compiled)
  PROVE  /\ Distinct(BuildJobs(config, compiled))
         /\ \E cut : /\ cut[0] = 0 /\ cut[11] = Len(BuildJobs(config, compiled))
                     /\ \A s \in 1 .. 11 : cut[s] = cut[s - 1] + SectionSize(s, config, compiled)
<1> DEFINE parts == Sections(config, compiled)
           J == PlanJobs(config)
           built == BuildJobs(config, compiled)
<1>1. parts \in Seq(Seq(J)) /\ Len(parts) = 11 /\ DOMAIN Plan = 1 .. 11 /\ built = FlattenSeq(parts)
  BY SectionsAreSequences
<1>2. \A s \in 1 .. 11 : parts[s] = SectionJobs(s, config, compiled)
  BY <1>1 DEF Sections
<1> HIDE DEF parts, J, built
<1>3. \A s \in 1 .. 11 : Distinct(parts[s]) /\ Len(parts[s]) = SectionSize(s, config, compiled)
  <2> SUFFICES ASSUME NEW s \in 1 .. 11
               PROVE  Distinct(parts[s]) /\ Len(parts[s]) = SectionSize(s, config, compiled)
    OBVIOUS
  <2>1. s \in DOMAIN Plan
    BY <1>1
  <2>2. /\ Distinct(SectionJobs(s, config, compiled))
        /\ Len(SectionJobs(s, config, compiled)) = SectionSize(s, config, compiled)
    BY <2>1, SectionDistinct
  <2>3. parts[s] = SectionJobs(s, config, compiled)
    BY <1>2
  <2> QED
    BY <2>2, <2>3
<1>4. \A s \in 1 .. 11 : \A k \in 1 .. Len(parts[s]) : SectionOf(parts[s][k].kind) = s
  <2> SUFFICES ASSUME NEW s \in 1 .. 11, NEW k \in 1 .. Len(parts[s])
               PROVE  SectionOf(parts[s][k].kind) = s
    OBVIOUS
  <2>1. s \in DOMAIN Plan /\ parts[s] = SectionJobs(s, config, compiled)
    BY <1>1, <1>2
  <2>2. k \in 1 .. Len(SectionJobs(s, config, compiled))
    BY <2>1
  <2>3. SectionOf(SectionJobs(s, config, compiled)[k].kind) = s
    BY <2>1, <2>2, SectionsDisjoint
  <2> QED
    BY <2>1, <2>3
<1>5. \A s, u \in 1 .. Len(parts) : \A k \in 1 .. Len(parts[s]), l \in 1 .. Len(parts[u]) :
        parts[s][k] = parts[u][l] => s = u
  <2> SUFFICES ASSUME NEW s \in 1 .. 11, NEW u \in 1 .. 11, NEW k \in 1 .. Len(parts[s]),
                      NEW l \in 1 .. Len(parts[u]), parts[s][k] = parts[u][l]
               PROVE  s = u
    BY <1>1
  <2>1. SectionOf(parts[s][k].kind) = s /\ SectionOf(parts[u][l].kind) = u
    BY <1>4
  <2> QED
    BY <2>1
<1>6. Distinct(FlattenSeq(parts))
  BY <1>1, <1>3, <1>5, FlattenDistinct
<1>7. PICK cut : CutAt(FlattenSeq(parts), parts, cut)
  BY <1>1, FlattenCuts
<1>8. /\ cut[0] = 0 /\ cut[11] = Len(FlattenSeq(parts))
      /\ \A s \in 1 .. 11 : cut[s] = cut[s - 1] + Len(parts[s])
  BY <1>1, <1>7 DEF CutAt
<1>9. \A s \in 1 .. 11 : cut[s] = cut[s - 1] + SectionSize(s, config, compiled)
  BY <1>3, <1>8
<1> QED
  BY <1>1, <1>6, <1>8, <1>9 DEF built

=============================================================================
