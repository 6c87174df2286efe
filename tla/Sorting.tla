------------------------------ MODULE Sorting -------------------------------
(***************************************************************************)
(* The values of a set in the order of their keys, the places of a         *)
(* sequence in that of its keys, and the values at some of its places:     *)
(* SetToSortSeq and SortSeq, for keys that are numbers, and SelectSeq, in  *)
(* a form that one can prove about.                                        *)
(***************************************************************************)
EXTENDS Naturals, FiniteSets

\* Those that come before x.
Before(S, key, x) == {y \in S : key[y] < key[x]}

\* Number k is the one that has k - 1 before it.  No two have the same key.
Sorted(S, key) ==
  [k \in 1 .. Cardinality(S) |->
     CHOOSE x \in S : Cardinality(Before(S, key, x)) = k - 1]

\* Places come in the order of their keys, and as they are where keys are equal.
Earlier(keys, i) ==
  {j \in DOMAIN keys : keys[j] < keys[i] \/ (keys[j] = keys[i] /\ j < i)}

StableOrder(keys) ==
  [k \in DOMAIN keys |->
     CHOOSE i \in DOMAIN keys : Cardinality(Earlier(keys, i)) = k - 1]

\* The values of a sequence at some of its places, in order: SelectSeq.
Chosen(s, places) ==
  [k \in 1 .. Cardinality(places) |-> s[Sorted(places, [i \in places |-> i])[k]]]
=============================================================================
