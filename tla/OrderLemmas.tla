----------------------------- MODULE OrderLemmas -----------------------------
(***************************************************************************)
(* Facts about orders that the proofs need: the front of a sorted vector   *)
(* exists because what is sorted is finite, and it is the leading literal. *)
(***************************************************************************)
EXTENDS TemporalClauses, FiniteSetTheorems, WellFoundedInduction, TLAPS

\* A non-empty set of naturals has a least element.
LEMMA NatMinimum ==
  ASSUME NEW T \in SUBSET Nat, T # {}
  PROVE  \E n \in T : \A m \in T : n <= m
<1> DEFINE R == OpToRel(<, Nat)
<1>1. IsWellFoundedOn(R, Nat)
    BY NatLessThanWellFounded
<1>2. PICK n \in T : \A m \in T : <<m, n>> \notin R
    BY <1>1, WFMin, Zenon
<1>3. \A m \in T : ~ (m < n)
    BY <1>2 DEF OpToRel
<1> HIDE DEF R
<1>4. n \in Nat /\ \A m \in T : m \in Nat
    OBVIOUS
<1>5. \A m \in T : n <= m
    BY <1>3, <1>4
<1> QED BY <1>5

\* A finite set has an element with none above it in a strict order: one
\* with the fewest above it.
LEMMA MaximalElement ==
  ASSUME NEW K, IsFiniteSet(K), K # {}, NEW R,
         \A i \in K : <<i, i>> \notin R,
         \A i, j, k \in K : <<i, j>> \in R /\ <<j, k>> \in R => <<i, k>> \in R
  PROVE  \E k \in K : \A j \in K : <<k, j>> \notin R
<1> DEFINE above == [k \in K |-> {j \in K : <<k, j>> \in R}]
           T == {Cardinality(above[k]) : k \in K}
<1>1. \A k \in K : above[k] = {j \in K : <<k, j>> \in R}
    OBVIOUS
<1> HIDE DEF above
<1>2. \A k \in K : IsFiniteSet(above[k]) /\ Cardinality(above[k]) \in Nat
    BY <1>1, FS_Subset, FS_CardinalityType
<1>3. T \in SUBSET Nat /\ T # {}
    BY <1>2
<1>4. PICK n \in T : \A m \in T : n <= m
    BY <1>3, NatMinimum
<1>5. PICK k \in K : n = Cardinality(above[k])
    BY DEF T
<1>6. ASSUME NEW j \in K, <<k, j>> \in R
      PROVE  FALSE
    <2>1. above[j] \subseteq above[k] /\ j \in above[k] /\ j \notin above[j]
        BY <1>1, <1>6
    <2>2. Cardinality(above[j]) <= Cardinality(above[k]) /\ Cardinality(above[j]) # Cardinality(above[k])
        BY <1>2, <2>1, FS_Subset
    <2>3. Cardinality(above[k]) <= Cardinality(above[j])
        BY <1>4, <1>5 DEF T
    <2> QED BY <1>2, <2>2, <2>3
<1> QED BY <1>6

\* In a finite set under a strict total order, counting what is below an
\* element numbers the elements from 0 on, without gaps.
LEMMA Ranking ==
  ASSUME NEW K, IsFiniteSet(K), NEW below,
         \A k \in K : below[k] \subseteq K /\ k \notin below[k],
         \A j, k \in K : j \in below[k] => below[j] \subseteq below[k],
         \A j, k \in K : j # k => j \in below[k] \/ k \in below[j]
  PROVE  /\ \A k \in K : Cardinality(below[k]) \in 0..(Cardinality(K) - 1)
         /\ \A n \in 1..Cardinality(K) : \E k \in K : Cardinality(below[k]) = n - 1
         /\ \A i, k \in K : Cardinality(below[i]) = Cardinality(below[k]) => i = k
<1> DEFINE rank  == [k \in K |-> Cardinality(below[k]) + 1]
           size  == Cardinality(K)
<1>2. \A k \in K : rank[k] = Cardinality(below[k]) + 1
    OBVIOUS
<1>3. size \in Nat
    BY FS_CardinalityType
<1> HIDE DEF size
<1>4. ASSUME NEW k \in K
      PROVE  /\ IsFiniteSet(below[k]) /\ Cardinality(below[k]) \in Nat
             /\ Cardinality(below[k]) < size
    <2>2. IsFiniteSet(below[k]) /\ Cardinality(below[k]) \in Nat
        BY FS_Subset, FS_CardinalityType
    <2>3. Cardinality(below[k]) <= size /\ Cardinality(below[k]) # size
        BY FS_Subset DEF size
    <2> QED BY <1>3, <2>2, <2>3
<1>5. ASSUME NEW i \in K, NEW k \in K, i \in below[k]
      PROVE  Cardinality(below[i]) # Cardinality(below[k])
    BY <1>4, <1>5, FS_Subset
<1>6. \A i, k \in K : Cardinality(below[i]) = Cardinality(below[k]) => i = k
    BY <1>5
<1>7. rank \in [K -> 1..size]
    BY <1>3, <1>4
<1>8. \A i, k \in K : rank[i] = rank[k] => i = k
    <2>1. \A i, k \in K : rank[i] = rank[k] => Cardinality(below[i]) = Cardinality(below[k])
        BY <1>2, <1>4
    <2> QED BY <1>6, <2>1
<1> HIDE DEF rank
<1>9. rank \in Injection(K, 1..size)
    BY <1>7, <1>8 DEF Injection, IsInjective
<1>10. IsFiniteSet(1..size) /\ Cardinality(1..size) = size
    BY <1>3, FS_Interval
<1>11. rank \in Surjection(K, 1..size)
    BY <1>9, <1>10, FS_Injection DEF size
<1>12. \A n \in 1..size : \E k \in K : rank[k] = n
    BY <1>11 DEF Surjection
<1>13. \A n \in 1..size : \E k \in K : Cardinality(below[k]) = n - 1
    <2> SUFFICES ASSUME NEW n \in 1..size PROVE \E k \in K : Cardinality(below[k]) = n - 1
        OBVIOUS
    <2>1. PICK k \in K : rank[k] = n
        BY <1>12
    <2>2. Cardinality(below[k]) = n - 1
        BY <1>2, <1>3, <1>4, <2>1
    <2> QED BY <2>2
<1>14. \A k \in K : Cardinality(below[k]) \in 0..(size - 1)
    BY <1>3, <1>4
<1> QED BY <1>6, <1>13, <1>14 DEF size

\* Within a clause of one kind the order of the literals is strict.
LEMMA LiteralOrder ==
  ASSUME NEW c \in Clauses, OneKind(c), NEW i \in c, NEW j \in c, NEW k \in c
  PROVE  /\ ~ LiteralLess(i, i)
         /\ LiteralLess(i, j) /\ LiteralLess(j, k) => LiteralLess(i, k)
<1>1. i.prop \in Nat /\ j.prop \in Nat /\ k.prop \in Nat
    BY PropAssumption DEF Clauses, Literals
<1>2. \/ {i.attr, j.attr, k.attr} \subseteq {"initial"}
      \/ {i.attr, j.attr, k.attr} \subseteq {"universal"}
      \/ {i.attr, j.attr, k.attr} \subseteq {"step_now", "step_next"}
    BY DEF OneKind, AttributesOf
<1> QED BY <1>1, <1>2 DEF LiteralLess

\* The sorted vector of a non-empty clause has a front.
LEMMA HasFront ==
  ASSUME NEW c \in Clauses, IsFiniteSet(c), c # {}, OneKind(c)
  PROVE  /\ getLeadingLiteral(c) \in c
         /\ \A k \in c : ~ LiteralLess(getLeadingLiteral(c), k)
<1> DEFINE R == {e \in c \X c : LiteralLess(e[1], e[2])}
<1>1. \A i, j \in c : <<i, j>> \in R <=> LiteralLess(i, j)
    OBVIOUS
<1>2. \E k \in c : \A j \in c : <<k, j>> \notin R
    <2>1. \A i \in c : <<i, i>> \notin R
        BY <1>1, LiteralOrder
    <2>2. \A i, j, k \in c : <<i, j>> \in R /\ <<j, k>> \in R => <<i, k>> \in R
        BY <1>1, LiteralOrder
    <2> HIDE DEF R
    <2> QED BY <2>1, <2>2, MaximalElement
<1> QED BY <1>1, <1>2 DEF getLeadingLiteral
=============================================================================
