-------------------------------- MODULE Ordering -------------------------------
(***************************************************************************)
(* Sorting and selecting, by what they give: the k-th of a sorted list is  *)
(* the entry with k - 1 others before it.                                  *)
(***************************************************************************)
EXTENDS Integers, Sequences, FiniteSets

(* The members of S in a strict total order, given as a set of pairs.      *)
InOrder(S, order) ==
    [k \in 1..Cardinality(S) |-> CHOOSE x \in S : Cardinality({y \in S : <<y, x>> \in order}) = k - 1]

Ascending(S) == InOrder(S, {p \in S \X S : p[1] < p[2]})

(* The entries of s at the positions in P, as they stand in s.             *)
At(s, P) == LET pos == Ascending(P) IN [k \in DOMAIN pos |-> s[pos[k]]]
================================================================================
