--------------------------- MODULE FilterTheorems ---------------------------
(***************************************************************************)
(* What Pick leaves of a sequence: elements of it, at most as many, in the *)
(* same order, and every one whose position is kept.                       *)
(***************************************************************************)
EXTENDS Filter, Integers, FiniteSetTheorems, WellFoundedInduction, TLAPS

-----------------------------------------------------------------------------
(* Least numbers.  The library's induction theorems take a predicate, which *)
(* no prover used here can instantiate; its theorem on well-founded         *)
(* relations takes a set, and a least counterexample does as well.          *)

NatLess == {ss \in Nat \X Nat : ss[1] < ss[2]}

LEMMA NatLessWellFounded == IsWellFoundedOn(NatLess, Nat)
  BY NatLessThanWellFounded, Zenon DEF OpToRel, NatLess

\* Every nonempty set of naturals has a least element.
THEOREM LeastNat ==
  ASSUME NEW T, \A n \in T : n \in Nat, T # {}
  PROVE  \E n \in T : \A m \in T : n <= m
<1>1. T \subseteq Nat
  OBVIOUS
<1>2. \E x \in T : \A y \in T : ~(<<y, x>> \in NatLess)
  BY <1>1, NatLessWellFounded, WFMin
<1>3. PICK x \in T : \A y \in T : ~(<<y, x>> \in NatLess)
  BY <1>2
<1>4. ASSUME NEW y \in T PROVE x <= y
  <2>1. x \in Nat /\ y \in Nat /\ <<y, x>> \notin NatLess
    BY <1>3
  <2> QED
    BY <2>1 DEF NatLess
<1> QED
  BY <1>4

-----------------------------------------------------------------------------
(* Ranks.                                                                   *)

\* The positions before i are finitely many.
LEMMA RankType ==
  ASSUME NEW I, IsFiniteSet(I), NEW i
  PROVE  IsFiniteSet({j \in I : j < i}) /\ Rank(I, i) \in Nat
<1>1. {j \in I : j < i} \subseteq I
  OBVIOUS
<1>2. IsFiniteSet({j \in I : j < i})
  BY <1>1, FS_Subset
<1> QED
  BY <1>2, FS_CardinalityType DEF Rank

\* A set within another that leaves something out is smaller.
LEMMA SmallerSubset ==
  ASSUME NEW B, IsFiniteSet(B), NEW A, A \subseteq B, NEW x \in B, x \notin A
  PROVE  Cardinality(A) < Cardinality(B)
<1>1. IsFiniteSet(A) /\ Cardinality(A) <= Cardinality(B) /\ (Cardinality(A) = Cardinality(B) => A = B)
  BY FS_Subset
<1>2. Cardinality(A) \in Nat /\ Cardinality(B) \in Nat /\ A # B
  BY <1>1, FS_CardinalityType
<1> QED
  BY <1>1, <1>2

\* A later position of I has a greater rank.
LEMMA RankGrows ==
  ASSUME NEW I, IsFiniteSet(I), \A m \in I : m \in Nat, NEW i \in I, NEW j \in I, i < j
  PROVE  Rank(I, i) < Rank(I, j)
<1>1. {m \in I : m < i} \subseteq {m \in I : m < j}
  OBVIOUS
<1>2. i \in {m \in I : m < j} /\ i \notin {m \in I : m < i}
  OBVIOUS
<1>3. IsFiniteSet({m \in I : m < j})
  BY RankType
<1> QED
  BY <1>1, <1>2, <1>3, SmallerSubset DEF Rank

\* There is a position of every rank.
LEMMA RankTaken ==
  ASSUME NEW I, IsFiniteSet(I), \A m \in I : m \in Nat, NEW k \in 1..Cardinality(I)
  PROVE  \E i \in I : Rank(I, i) = k - 1
<1>0. Cardinality(I) \in Nat
  BY FS_CardinalityType
<1> DEFINE T == {m \in 1..Cardinality(I) : \A i \in I : Rank(I, i) # m - 1}
<1>1. SUFFICES ASSUME T # {} PROVE FALSE
  BY <1>0
<1>2. \A m \in T : m \in Nat
  BY <1>0
<1>3. PICK m \in T : \A l \in T : m <= l
  <2> HIDE DEF T
  <2> QED
    BY <1>1, <1>2, LeastNat
<1>4. m \in 1..Cardinality(I) /\ m \in Nat /\ m >= 1 /\ \A i \in I : Rank(I, i) # m - 1
  BY <1>0, <1>3
\* The least position has rank 0.
<1>5. CASE m = 1
  <2>1. I # {}
    BY <1>0, <1>4, FS_EmptySet
  <2>2. PICK i \in I : \A j \in I : i <= j
    BY <2>1, LeastNat
  <2>3. {j \in I : j < i} = {}
    BY <2>2
  <2>4. Rank(I, i) = 0
    BY <2>3, FS_EmptySet DEF Rank
  <2> QED
    BY <1>4, <1>5, <2>4
\* The least position after the one of rank m - 2 has rank m - 1.
<1>6. CASE m # 1
  <2>1. m - 1 \in 1..Cardinality(I)
    BY <1>0, <1>4, <1>6
  <2>2. m - 1 \notin T
    BY <1>3, <1>4
  <2>3. PICK i \in I : Rank(I, i) = m - 1 - 1
    BY <2>1, <2>2
  <2>4. /\ IsFiniteSet({j \in I : j < i}) /\ Cardinality({j \in I : j < i}) = m - 2
        /\ i \notin {j \in I : j < i} /\ i \in Nat
    BY <1>4, <2>3, RankType DEF Rank
  <2>5. /\ IsFiniteSet({j \in I : j < i} \cup {i})
        /\ Cardinality({j \in I : j < i} \cup {i}) = m - 1
    <3> DEFINE A == {j \in I : j < i}
    <3>1. IsFiniteSet(A) /\ i \notin A /\ Cardinality(A) = m - 2
      BY <2>4
    <3> HIDE DEF A
    <3>2. IsFiniteSet(A \cup {i}) /\ Cardinality(A \cup {i}) = Cardinality(A) + 1
      BY <3>1, FS_AddElement
    <3> QED
      BY <1>4, <3>1, <3>2 DEF A
  <2>6. {j \in I : j < i} \cup {i} # I
    BY <1>0, <1>4, <2>5
  <2>7. PICK h \in I : h # i /\ ~(h < i)
    BY <2>6
  <2>8. h \in {j \in I : i < j} /\ \A j \in {j \in I : i < j} : j \in Nat
    BY <2>4, <2>7
  <2>9. PICK l \in {j \in I : i < j} : \A j \in {j \in I : i < j} : l <= j
    BY <2>8, LeastNat
  <2>10. l \in I /\ i < l /\ l \in Nat
    BY <2>9
  <2>11. ASSUME NEW j \in I PROVE j < l <=> j < i \/ j = i
    <3>1. j \in Nat /\ (i < j => l <= j)
      BY <2>9
    <3> QED
      BY <2>4, <2>10, <3>1
  <2>12. {j \in I : j < l} = {j \in I : j < i} \cup {i}
    BY <2>11
  <2>13. Rank(I, l) = m - 1
    BY <2>5, <2>12 DEF Rank
  <2> QED
    BY <1>4, <2>10, <2>13
<1> QED
  BY <1>5, <1>6

\* Nth is that position, so it enumerates I in order.
THEOREM NthInOrder ==
  ASSUME NEW I, IsFiniteSet(I), \A m \in I : m \in Nat, NEW k \in 1..Cardinality(I)
  PROVE  /\ Nth(I, k) \in I
         /\ Rank(I, Nth(I, k)) = k - 1
         /\ \A l \in 1..Cardinality(I) : k < l => Nth(I, k) < Nth(I, l)
<1>0. Cardinality(I) \in Nat
  BY FS_CardinalityType
<1>1. ASSUME NEW l \in 1..Cardinality(I) PROVE Nth(I, l) \in I /\ Rank(I, Nth(I, l)) = l - 1
  BY RankTaken DEF Nth
<1>2. ASSUME NEW l \in 1..Cardinality(I), k < l PROVE Nth(I, k) < Nth(I, l)
  <2>1. /\ Nth(I, k) \in I /\ Rank(I, Nth(I, k)) = k - 1
        /\ Nth(I, l) \in I /\ Rank(I, Nth(I, l)) = l - 1
    BY <1>1
  <2>2. ~(Nth(I, l) < Nth(I, k))
    <3>1. ~(l - 1 < k - 1)
      BY <1>0, <1>2
    <3> QED
      BY <2>1, <3>1, RankGrows
  <2>3. Nth(I, l) # Nth(I, k)
    BY <1>0, <1>2, <2>1
  <2>4. Nth(I, k) \in Nat /\ Nth(I, l) \in Nat
    BY <2>1
  <2> QED
    BY <2>2, <2>3, <2>4
<1> QED
  BY <1>1, <1>2

\* And it leaves none out.
THEOREM NthOnto ==
  ASSUME NEW I, IsFiniteSet(I), \A m \in I : m \in Nat, NEW i \in I
  PROVE  Rank(I, i) + 1 \in 1..Cardinality(I) /\ Nth(I, Rank(I, i) + 1) = i
<1>0. Cardinality(I) \in Nat /\ Rank(I, i) \in Nat
  BY RankType, FS_CardinalityType
<1>1. Rank(I, i) < Cardinality(I)
  <2>1. {j \in I : j < i} \subseteq I /\ i \notin {j \in I : j < i}
    OBVIOUS
  <2> QED
    BY <2>1, SmallerSubset DEF Rank
<1>2. Rank(I, i) + 1 \in 1..Cardinality(I)
  BY <1>0, <1>1
<1> DEFINE k == Rank(I, i) + 1
           h == Nth(I, k)
<1>3. h \in I /\ Rank(I, h) = k - 1
  <2> HIDE DEF k
  <2> QED
    BY <1>2, NthInOrder DEF k
<1> HIDE DEF h
<1>4. Rank(I, h) = Rank(I, i)
  BY <1>0, <1>3
<1>5. ~(h < i) /\ ~(i < h)
  <2>1. ~(Rank(I, i) < Rank(I, h)) /\ ~(Rank(I, h) < Rank(I, i))
    BY <1>0, <1>4
  <2> QED
    BY <1>3, <2>1, RankGrows
<1>6. h \in Nat /\ i \in Nat
  BY <1>3
<1>7. h = i
  BY <1>5, <1>6
<1> QED
  BY <1>2, <1>7 DEF h

-----------------------------------------------------------------------------
(* Pick.                                                                    *)

\* A set of positions in a sequence.
LEMMA Positions ==
  ASSUME NEW n \in Nat, NEW I, I \subseteq 1..n
  PROVE  /\ IsFiniteSet(I) /\ \A m \in I : m \in Nat
         /\ Cardinality(I) \in Nat /\ Cardinality(I) <= n
<1>1. IsFiniteSet(1..n) /\ Cardinality(1..n) = n
  <2>1. IsFiniteSet(1..n) /\ Cardinality(1..n) = IF 1 > n THEN 0 ELSE n-1+1
    BY FS_Interval
  <2> QED
    BY <2>1
<1>2. IsFiniteSet(I) /\ Cardinality(I) <= n
  BY <1>1, FS_Subset
<1>3. Cardinality(I) \in Nat
  BY <1>2, FS_CardinalityType
<1>4. ASSUME NEW m \in I PROVE m \in Nat
  <2>1. m \in 1..n
    OBVIOUS
  <2> QED
    BY <2>1
<1> QED
  BY <1>2, <1>3, <1>4

\* A filter loop leaves a slice of the same elements, no longer than before.
THEOREM PickSeq ==
  ASSUME NEW S, NEW s \in Seq(S), NEW I, I \subseteq 1..Len(s)
  PROVE  /\ Pick(s, I) \in Seq(S)
         /\ Len(Pick(s, I)) = Cardinality(I)
         /\ Cardinality(I) \in Nat /\ Cardinality(I) <= Len(s)
         /\ \A k \in 1..Cardinality(I) : Nth(I, k) \in I /\ Pick(s, I)[k] = s[Nth(I, k)]
<1>1. Len(s) \in Nat /\ \A i \in 1..Len(s) : s[i] \in S
  OBVIOUS
<1>2. /\ IsFiniteSet(I) /\ \A m \in I : m \in Nat
      /\ Cardinality(I) \in Nat /\ Cardinality(I) <= Len(s)
  BY <1>1, Positions
<1>3. \A k \in 1..Cardinality(I) : Nth(I, k) \in I
  BY <1>2, NthInOrder
<1>4. \A k \in 1..Cardinality(I) : s[Nth(I, k)] \in S
  BY <1>1, <1>3
<1>5. Pick(s, I) \in [1..Cardinality(I) -> S]
  BY <1>4 DEF Pick
<1>6. Pick(s, I) \in Seq(S) /\ Len(Pick(s, I)) = Cardinality(I)
  BY <1>2, <1>5
<1> QED
  BY <1>2, <1>3, <1>6 DEF Pick

\* No element at a kept position is lost.
THEOREM PickKeeps ==
  ASSUME NEW S, NEW s \in Seq(S), NEW I, I \subseteq 1..Len(s), NEW i \in I
  PROVE  Rank(I, i) + 1 \in 1..Cardinality(I) /\ Pick(s, I)[Rank(I, i) + 1] = s[i]
<1>1. Len(s) \in Nat
  OBVIOUS
<1>2. IsFiniteSet(I) /\ \A m \in I : m \in Nat
  BY <1>1, Positions
<1>3. Rank(I, i) + 1 \in 1..Cardinality(I) /\ Nth(I, Rank(I, i) + 1) = i
  BY <1>2, NthOnto
<1> QED
  BY <1>3 DEF Pick
=============================================================================
