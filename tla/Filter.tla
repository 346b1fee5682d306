------------------------------- MODULE Filter -------------------------------
(***************************************************************************)
(* The loop "keep some elements of a slice, in order", by the positions    *)
(* that are kept.  It is SelectSeq in a form a proof can take apart: which *)
(* element comes k-th does not depend on a recursion over the sequence.    *)
(***************************************************************************)
EXTENDS Naturals, Sequences, FiniteSets

\* How many positions in I lie before i, and the k-th position in I.
Rank(I, i) == Cardinality({j \in I : j < i})
Nth(I, k) == CHOOSE i \in I : Rank(I, i) = k - 1

\* The elements of s at the positions in I, in order.
Pick(s, I) == [k \in 1..Cardinality(I) |-> s[Nth(I, k)]]
=============================================================================
