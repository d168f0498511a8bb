------------------------------- MODULE Orders -------------------------------
(***************************************************************************)
(* Sorting, by what it promises: SortSeq and SetToSortSeq say the same but *)
(* have no definition that a proof could use.                              *)
(***************************************************************************)
EXTENDS Integers, SequencesExt

\* The elements of a finite set, each once, in ascending order of their keys.
Ascending(S, key) ==
  CHOOSE s \in [1 .. Cardinality(S) -> S] :
    /\ IsInjective(s)
    /\ \A i, k \in DOMAIN s : i < k => key[s[i]] <= key[s[k]]

=============================================================================
