----------------------- MODULE ClauseContainerProofs -----------------------
(***************************************************************************)
(* For every pool of input clauses and every width of clause ids: what the *)
(* ordered set of Passive keeps, that the two indexes of Active agree, and *)
(* what the walks with the nested iterators come to.                       *)
(***************************************************************************)
EXTENDS ClauseContainer, OrderLemmas, SequenceTheorems

\* Until the ids wrap each clause in the set has an id below the next one.
IdsGiven == made < IdRange => \A p \in passive : p.id \in 1 .. made

\* PassiveKeeps with what it takes to be inductive.
KInv ==
  /\ made \in Nat
  /\ \A p \in passive : p.lits \in Inputs
  /\ IdsGiven
  /\ PassiveKeeps

-----------------------------------------------------------------------------
\* Size, leading key and id put any two clauses with different ids in order.
LEMMA IdsDecide ==
  ASSUME NEW p, NEW q, p.lits \in Inputs, q.lits \in Inputs,
         p.id \in Nat, q.id \in Nat, p.id # q.id
  PROVE  passiveLess(p, q) \/ passiveLess(q, p)
<1>1. ASSUME NEW lits \in Inputs
      PROVE  /\ Cardinality(lits) \in Nat
             /\ getLeadingLiteral(lits).prop \in Nat
             /\ getLeadingLiteral(lits).neg \in BOOLEAN
  <2>1. lits \in Clauses /\ IsFiniteSet(lits) /\ lits # {} /\ OneKind(lits)
    BY ContainerAssumption DEF ContainerAssumption
  <2>2. getLeadingLiteral(lits) \in Literals
    BY <2>1, HasFront DEF Clauses
  <2> QED
    BY <2>1, <2>2, FS_CardinalityType, PropAssumption DEF Literals
<1> DEFINE w == Cardinality(p.lits)
           x == Cardinality(q.lits)
           k == getLeadingLiteral(p.lits)
           l == getLeadingLiteral(q.lits)
<1>2. /\ w \in Nat /\ x \in Nat /\ k.prop \in Nat /\ l.prop \in Nat
      /\ k.neg \in BOOLEAN /\ l.neg \in BOOLEAN
  BY <1>1
<1>3. /\ before(leading(p), leading(q)) = KeyLess(k, l)
      /\ before(leading(q), leading(p)) = KeyLess(l, k)
      /\ leading(p) = leading(q) <=> k.prop = l.prop /\ k.neg = l.neg
  BY DEF before, leading, Key, KeyLess
<1> HIDE DEF w, x, k, l
<1>4. KeyLess(k, l) \/ KeyLess(l, k) \/ (k.prop = l.prop /\ k.neg = l.neg)
  <2>1. k.prop < l.prop \/ l.prop < k.prop \/ k.prop = l.prop
    BY <1>2
  <2>2. (~ k.neg /\ l.neg) \/ (~ l.neg /\ k.neg) \/ k.neg = l.neg
    BY Zenon, <1>2
  <2> QED
    BY Zenon, <2>1, <2>2 DEF KeyLess
<1>5. w < x \/ x < w \/ w = x
  BY <1>2
<1>6. p.id < q.id \/ q.id < p.id
  OBVIOUS
<1> QED
  BY Zenon, <1>3, <1>4, <1>5, <1>6 DEF passiveLess, w, x

-----------------------------------------------------------------------------
\* At first nothing is held.
LEMMA InitKeeps == Init => KInv
BY DEF Init, KInv, IdsGiven, PassiveKeeps

\* A clause that comes in finds no equivalent one as long as its id is new.
LEMMA PushBackKeeps ==
  ASSUME KInv, NEW lits \in Inputs, PushBack(lits)
  PROVE  KInv'
<1> DEFINE new == Clause(lits)
<1>1. /\ IdRange \in Nat \ {0} /\ made \in Nat
      /\ new.lits = lits /\ new.id = (made + 1) % IdRange
  BY ContainerAssumption DEF ContainerAssumption, KInv, Clause
<1>2. /\ made' = made + 1
      /\ \/ passive' = passive /\ passiveTrie' = passiveTrie
         \/ passive' = insertSet(new) /\ passiveTrie' = passiveTrie \cup {new}
  BY Zenon DEF PushBack, passiveVars
<1>3. insertSet(new) \in {passive, passive \cup {new}}
  BY Zenon DEF insertSet
<1>4. new.id \in Nat /\ (made + 1 < IdRange => new.id = made + 1)
  BY <1>1
<1>5. ASSUME made + 1 <= IdRange
      PROVE  insertSet(new) = passive \cup {new}
  <2>1. made < IdRange
    BY <1>1, <1>5
  <2>2. ASSUME NEW q \in passive
        PROVE  q.id \in Nat /\ new.id # q.id
    <3>1. q.id \in 1 .. made
      BY <2>1 DEF KInv, IdsGiven
    <3>2. new.id = made + 1 \/ new.id = 0
      BY <1>1, <1>5
    <3> QED
      BY <1>1, <3>1, <3>2
  <2>3. \A q \in passive : passiveLess(new, q) \/ passiveLess(q, new)
    BY <1>1, <1>4, <2>2, IdsDecide DEF KInv
  <2> QED
    BY <2>3 DEF insertSet
<1> HIDE DEF new
<1>6. IdsGiven'
  <2> SUFFICES ASSUME made + 1 < IdRange, NEW p \in passive'
               PROVE  p.id \in 1 .. made + 1
    BY <1>2 DEF IdsGiven
  <2>1. made < IdRange
    BY <1>1
  <2>2. p \in passive \/ p = new
    BY <1>2, <1>3
  <2>3. CASE p \in passive
    BY <1>1, <2>1, <2>3 DEF KInv, IdsGiven
  <2>4. CASE p = new
    BY <1>1, <1>4, <2>4
  <2> QED
    BY <2>2, <2>3, <2>4
<1>7. PassiveKeeps'
  <2>1. passive' \subseteq passiveTrie'
    BY <1>2, <1>3 DEF KInv, PassiveKeeps
  <2>2. ASSUME made' <= IdRange PROVE passive' = passiveTrie'
    <3>1. made <= IdRange /\ made + 1 <= IdRange
      BY <1>1, <1>2, <2>2
    <3> QED
      BY <1>2, <1>5, <3>1 DEF KInv, PassiveKeeps
  <2> QED
    BY <2>1, <2>2 DEF PassiveKeeps
<1>8. \A p \in passive' : p.lits \in Inputs
  BY <1>1, <1>2, <1>3 DEF KInv
<1> QED
  BY <1>1, <1>2, <1>6, <1>7, <1>8 DEF KInv

\* What is taken out is taken out of the set and of its index.
LEMMA SelectKeeps == KInv /\ Select => KInv'
BY DEF KInv, IdsGiven, PassiveKeeps, Select

\* Clauses that go straight into Active use up an id.
LEMMA ToFirstKeeps ==
  ASSUME KInv, NEW lits \in Inputs, ToFirst(lits)
  PROVE  KInv'
<1>1. made' = made + 1 /\ UNCHANGED <<passive, passiveTrie>>
  BY DEF ToFirst, passiveVars
<1>2. made \in Nat /\ IdRange \in Nat
  BY ContainerAssumption DEF ContainerAssumption, KInv
<1>3. IdsGiven'
  <2> SUFFICES ASSUME made + 1 < IdRange, NEW p \in passive
               PROVE  p.id \in 1 .. made + 1
    BY <1>1 DEF IdsGiven
  <2>1. made < IdRange
    BY <1>2
  <2> QED
    BY <1>2, <2>1 DEF KInv, IdsGiven
<1>4. PassiveKeeps'
  <2>1. made' <= IdRange => made <= IdRange
    BY <1>1, <1>2
  <2> QED
    BY <1>1, <2>1 DEF KInv, PassiveKeeps
<1> QED
  BY <1>1, <1>2, <1>3, <1>4 DEF KInv

\* Every step preserves the invariant.
LEMMA NextKeeps == KInv /\ [Next]_vars => KInv'
<1> SUFFICES ASSUME KInv, [Next]_vars PROVE KInv'
  OBVIOUS
<1>1. ASSUME NEW lits \in Inputs, PushBack(lits) \/ ToFirst(lits) PROVE KInv'
  BY <1>1, PushBackKeeps, ToFirstKeeps
<1>2. CASE Select
  BY <1>2, SelectKeeps
<1>3. ASSUME UNCHANGED <<made, passive, passiveTrie>> PROVE KInv'
  BY Zenon, <1>3 DEF KInv, IdsGiven, PassiveKeeps
<1>4. CASE \/ \E p \in current : Discard(p) \/ BackwardSubsumption(p) \/ Activate(p)
           \/ \E d \in doomed : RemoveDoomed(d)
           \/ \E s \in Selectors : Walk(s)
           \/ Satisfy \/ Visit \/ EndWalk
           \/ UNCHANGED vars
  <2>1. UNCHANGED <<made, passive, passiveTrie>>
    BY Zenon, <1>4
    DEF Discard, BackwardSubsumption, Activate, RemoveDoomed, Walk, Satisfy, Visit, EndWalk, vars,
        passiveVars
  <2> QED
    BY <1>3, <2>1
<1> QED
  BY <1>1, <1>2, <1>4 DEF Next

\* However wide a clause id is, Passive loses nothing until the ids wrap; and
\* after that its index still holds all that the set does.
THEOREM PassiveLosesNothing == Spec => []PassiveKeeps
<1>1. KInv => PassiveKeeps
  BY DEF KInv
<1> QED
  BY <1>1, InitKeeps, NextKeeps, PTL DEF Spec

-----------------------------------------------------------------------------
(***************************************************************************)
(* Sequences without repetition, as the vectors of the resolution index    *)
(* are.                                                                    *)
(***************************************************************************)
\* push_back puts an element after all others.
LEMMA AppendParts ==
  ASSUME NEW S, NEW s \in Seq(S), NEW e \in S, IsInjective(s), e \notin ToSet(s)
  PROVE  /\ Append(s, e) \in Seq(S) /\ Append(s, e) # <<>>
         /\ IsInjective(Append(s, e))
         /\ ToSet(Append(s, e)) = ToSet(s) \cup {e}
         /\ \A x, y : Precedes(Append(s, e), x, y) <=> Precedes(s, x, y) \/ (x \in ToSet(s) /\ y = e)
<1> DEFINE t == Append(s, e)
           n == Len(s)
<1>1. /\ t \in Seq(S) /\ n \in Nat /\ DOMAIN s = 1 .. n /\ DOMAIN t = 1 .. (n + 1)
      /\ \A i \in 1 .. n : t[i] = s[i]
      /\ t[n + 1] = e
    OBVIOUS
<1> HIDE DEF t, n
<1>2. t # <<>>
    BY <1>1
<1>3. \A i \in 1 .. (n + 1) : i \in 1 .. n \/ i = n + 1
    BY <1>1
<1>4. \A i \in 1 .. n : s[i] # e
    BY <1>1 DEF ToSet
<1>5. IsInjective(t)
    BY <1>1, <1>3, <1>4 DEF IsInjective
<1>6. ToSet(t) = ToSet(s) \cup {e}
    BY <1>1, <1>3 DEF ToSet
<1>7. ASSUME NEW x, NEW y
      PROVE  Precedes(t, x, y) <=> Precedes(s, x, y) \/ (x \in ToSet(s) /\ y = e)
    <2>1. ASSUME Precedes(t, x, y) PROVE Precedes(s, x, y) \/ (x \in ToSet(s) /\ y = e)
        <3>1. PICK i \in 1 .. (n + 1), j \in 1 .. (n + 1) : i < j /\ t[i] = x /\ t[j] = y
            BY <1>1, <2>1 DEF Precedes
        <3>2. i \in 1 .. n
            BY <1>1, <3>1
        <3> QED BY <1>1, <1>3, <3>1, <3>2 DEF Precedes, ToSet
    <2>2. ASSUME Precedes(s, x, y) PROVE Precedes(t, x, y)
        BY <1>1, <2>2 DEF Precedes
    <2>3. ASSUME x \in ToSet(s), y = e PROVE Precedes(t, x, y)
        <3>1. PICK i \in 1 .. n : s[i] = x
            BY <1>1, <2>3 DEF ToSet
        <3> QED BY <1>1, <2>3, <3>1 DEF Precedes
    <2> QED BY <2>1, <2>2, <2>3
<1> QED BY <1>1, <1>2, <1>5, <1>6, <1>7 DEF t

\* erase takes an element out and leaves the others in their order.
LEMMA RemoveFirstParts ==
  ASSUME NEW S, NEW s \in Seq(S), NEW e \in ToSet(s), IsInjective(s)
  PROVE  /\ RemoveFirst(s, e) \in Seq(S)
         /\ IsInjective(RemoveFirst(s, e))
         /\ ToSet(RemoveFirst(s, e)) = ToSet(s) \ {e}
         /\ \A x, y : Precedes(RemoveFirst(s, e), x, y) <=> Precedes(s, x, y) /\ x # e /\ y # e
<1> DEFINE t == RemoveFirst(s, e)
           n == Len(s)
           I == {i \in 1 .. Len(s) : s[i] = e}
<1>1. n \in Nat /\ DOMAIN s = 1 .. n /\ \A i \in 1 .. n : s[i] \in S
    OBVIOUS
<1>2. PICK k \in 1 .. n : s[k] = e
    BY <1>1 DEF ToSet
<1>3. \A i \in 1 .. n : s[i] = e <=> i = k
    BY <1>1, <1>2 DEF IsInjective
<1>4. I = {k}
    BY <1>1, <1>3
<1>5. SelectInSeq(s, LAMBDA v : v = e) = k
    <2>1. SelectInSeq(s, LAMBDA v : v = e) = IF I # {} THEN Min(I) ELSE 0
        BY DEF SelectInSeq
    <2>2. Min({k}) = k
        BY <1>1 DEF Min
    <2> QED BY <1>4, <2>1, <2>2
<1>6. t = SubSeq(s, 1, k - 1) \o SubSeq(s, k + 1, n)
    BY <1>1, <1>2, <1>5 DEF RemoveFirst, RemoveAt
<1> DEFINE a == SubSeq(s, 1, k - 1)
           b == SubSeq(s, k + 1, n)
<1>7. a \in Seq(S) /\ Len(a) = k - 1 /\ \A i \in 1 .. (k - 1) : a[i] = s[i]
    BY <1>1, SubSeqProperties
<1>8. b \in Seq(S) /\ Len(b) = n - k /\ \A i \in 1 .. (n - k) : b[i] = s[k + i]
    <2>1. /\ b \in Seq(S)
          /\ Len(b) = IF k + 1 <= n THEN n - (k + 1) + 1 ELSE 0
          /\ \A i \in 1 .. n - (k + 1) + 1 : b[i] = s[(k + 1) + i - 1]
        <3>1. k + 1 \in Int /\ n \in Int /\ \A i \in (k + 1) .. n : s[i] \in S
            BY <1>1
        <3> HIDE DEF n
        <3> QED BY <3>1, SubSeqProperties
    <2> HIDE DEF b, n
    <2>2. n - (k + 1) + 1 = n - k /\ Len(b) = n - k
        BY <1>1, <2>1
    <2>3. \A i \in 1 .. (n - k) : (k + 1) + i - 1 = k + i
        BY <1>1
    <2> QED BY <2>1, <2>2, <2>3
<1> HIDE DEF t, n, a, b, I
<1>9. /\ t \in Seq(S) /\ Len(t) = n - 1 /\ DOMAIN t = 1 .. (n - 1)
      /\ \A i \in 1 .. (n - 1) : t[i] = IF i < k THEN s[i] ELSE s[i + 1]
    <2>1. /\ t \in Seq(S) /\ Len(t) = Len(a) + Len(b)
          /\ \A i \in 1 .. Len(a) + Len(b) : t[i] = IF i <= Len(a) THEN a[i] ELSE b[i - Len(a)]
        BY <1>6, <1>7, <1>8, ConcatProperties DEF a, b
    <2>2. Len(t) = n - 1 /\ DOMAIN t = 1 .. (n - 1)
        BY <1>1, <1>7, <1>8, <2>1
    <2>3. ASSUME NEW i \in 1 .. (n - 1) PROVE t[i] = IF i < k THEN s[i] ELSE s[i + 1]
        <3>1. t[i] = IF i <= k - 1 THEN a[i] ELSE b[i - (k - 1)]
            BY <1>1, <1>7, <1>8, <2>1
        <3>2. CASE i < k
            BY <1>1, <1>7, <3>1, <3>2
        <3>3. CASE ~ (i < k)
            <4>1. i - (k - 1) \in 1 .. (n - k) /\ k + (i - (k - 1)) = i + 1
                BY <1>1, <3>3
            <4> QED BY <1>1, <1>8, <3>1, <3>3, <4>1
        <3> QED BY <3>2, <3>3
    <2> QED BY <2>1, <2>2, <2>3
<1> DEFINE old == [i \in 1 .. (n - 1) |-> IF i < k THEN i ELSE i + 1]
           new == [i \in 1 .. n |-> IF i < k THEN i ELSE i - 1]
<1>10. \A i \in 1 .. (n - 1) : old[i] \in 1 .. n /\ old[i] # k /\ t[i] = s[old[i]]
    BY <1>1, <1>9
<1>11. \A i \in 1 .. n : i # k => new[i] \in 1 .. (n - 1) /\ t[new[i]] = s[i]
    BY <1>1, <1>9
<1>12. /\ \A i, j \in 1 .. (n - 1) : old[i] = old[j] => i = j
       /\ \A i, j \in 1 .. (n - 1) : i < j => old[i] < old[j]
    BY <1>1
<1>13. \A i, j \in 1 .. n : i # k /\ j # k /\ i < j => new[i] < new[j]
    BY <1>1
<1> HIDE DEF old, new
<1> DEFINE M == 1 .. (n - 1)
           N == 1 .. n
<1>14. IsInjective(t)
    <2>1. \A i, j \in N : s[i] = s[j] => i = j
        BY <1>1 DEF IsInjective
    <2>2. \A i \in M : old[i] \in N /\ t[i] = s[old[i]]
        BY <1>10
    <2>3. \A i, j \in M : old[i] = old[j] => i = j
        BY <1>12
    <2>4. DOMAIN t = M
        BY <1>9
    <2> HIDE DEF M, N
    <2> QED BY <2>1, <2>2, <2>3, <2>4 DEF IsInjective
<1>15. ToSet(t) = ToSet(s) \ {e}
    <2>1. DOMAIN t = M /\ DOMAIN s = N
        BY <1>1, <1>9
    <2>2. \A i \in M : old[i] \in N /\ old[i] # k /\ t[i] = s[old[i]]
        BY <1>10
    <2>3. \A i \in N : i # k => new[i] \in M /\ t[new[i]] = s[i]
        BY <1>11
    <2>4. \A i \in N : s[i] = e <=> i = k
        BY <1>3
    <2> HIDE DEF M, N
    <2> QED BY <2>1, <2>2, <2>3, <2>4 DEF ToSet
<1>16. ASSUME NEW x, NEW y
       PROVE  Precedes(t, x, y) <=> Precedes(s, x, y) /\ x # e /\ y # e
    <2>1. ASSUME Precedes(t, x, y) PROVE Precedes(s, x, y) /\ x # e /\ y # e
        <3>1. PICK i \in 1 .. (n - 1), j \in 1 .. (n - 1) : i < j /\ t[i] = x /\ t[j] = y
            BY <1>9, <2>1 DEF Precedes
        <3>2. /\ old[i] < old[j] /\ s[old[i]] = x /\ s[old[j]] = y
              /\ old[i] \in 1 .. n /\ old[j] \in 1 .. n /\ old[i] # k /\ old[j] # k
            BY <1>1, <1>10, <1>12, <3>1
        <3> QED BY <1>1, <1>3, <3>2 DEF Precedes
    <2>2. ASSUME Precedes(s, x, y), x # e, y # e PROVE Precedes(t, x, y)
        <3>1. PICK i \in 1 .. n, j \in 1 .. n : i < j /\ s[i] = x /\ s[j] = y
            BY <1>1, <2>2 DEF Precedes
        <3>2. /\ new[i] \in 1 .. (n - 1) /\ new[j] \in 1 .. (n - 1) /\ new[i] < new[j]
              /\ t[new[i]] = x /\ t[new[j]] = y
            BY <1>3, <1>11, <1>13, <2>2, <3>1
        <3> QED BY <1>9, <3>2 DEF Precedes
    <2> QED BY <2>1, <2>2
<1> QED BY <1>9, <1>14, <1>15, <1>16 DEF t

\* Without repetition means that nothing precedes itself.
LEMMA InjectiveIrreflexive ==
  ASSUME NEW S, NEW s \in Seq(S)
  PROVE  IsInjective(s) <=> \A x : ~ Precedes(s, x, x)
<1>1. DOMAIN s = 1 .. Len(s) /\ Len(s) \in Nat
    OBVIOUS
<1>2. ASSUME IsInjective(s), NEW x, Precedes(s, x, x) PROVE FALSE
    <2>1. PICK i \in DOMAIN s, j \in DOMAIN s : i < j /\ s[i] = x /\ s[j] = x
        BY <1>2 DEF Precedes
    <2> QED BY <1>1, <1>2, <2>1 DEF IsInjective
<1>3. ASSUME \A x : ~ Precedes(s, x, x), NEW i \in DOMAIN s, NEW j \in DOMAIN s, s[i] = s[j]
      PROVE  i = j
    <2>1. ~ (i < j) /\ ~ (j < i)
        BY <1>3 DEF Precedes
    <2> QED BY <1>1, <2>1
<1> QED BY <1>2, <1>3 DEF IsInjective

-----------------------------------------------------------------------------
(***************************************************************************)
(* The resolution index and what is active.                                *)
(***************************************************************************)
\* The vector of the key k has the clauses of s with this key, in their order.
Vector(ix, s, k) ==
  LET here == {p \in ToSet(s) : leading(p) = k}
  IN  IF here = {} THEN k \notin DOMAIN ix
      ELSE /\ k \in DOMAIN ix /\ ToSet(ix[k]) = here
           /\ \A p, q \in here : Precedes(ix[k], p, q) <=> Precedes(s, p, q)

\* The index over clauses of T is one of s.
Indexes(T, ix, s) ==
  /\ DOMAIN ix \subseteq AllKeys /\ \A k \in DOMAIN ix : ix[k] \in Seq(T)
  /\ s \in Seq(T) /\ IsInjective(s)
  /\ \A k \in AllKeys : Vector(ix, s, k)

\* No element of a vector is in it twice.
LEMMA VectorInjective ==
  ASSUME NEW T, NEW ix, NEW s, Indexes(T, ix, s), NEW k \in DOMAIN ix
  PROVE  IsInjective(ix[k])
<1>1. \A x : ~ Precedes(s, x, x)
    BY InjectiveIrreflexive DEF Indexes
<1>2. Vector(ix, s, k) /\ ix[k] \in Seq(T)
    BY DEF Indexes
<1>3. ASSUME NEW x, Precedes(ix[k], x, x) PROVE FALSE
    <2>1. x \in ToSet(ix[k])
        BY <1>3 DEF Precedes, ToSet
    <2> QED BY <1>1, <1>2, <1>3, <2>1 DEF Vector
<1> QED BY <1>2, <1>3, InjectiveIrreflexive

\* A clause goes to the end of the vector of its leading literal.
LEMMA InsertIndexes ==
  ASSUME NEW T, Indexes(T, index, arrived), NEW p \in T, leading(p) \in AllKeys,
         p \notin ToSet(arrived)
  PROVE  Indexes(T, insertIndex(p), Append(arrived, p))
<1> DEFINE k == leading(p)
           old == IF k \in DOMAIN index THEN index[k] ELSE <<>>
           ix == insertIndex(p)
           s  == Append(arrived, p)
<1>1. /\ arrived \in Seq(T) /\ IsInjective(arrived)
      /\ \A j \in DOMAIN index : index[j] \in Seq(T)
      /\ \A j \in AllKeys : Vector(index, arrived, j)
    BY DEF Indexes
<1>2. /\ s \in Seq(T) /\ IsInjective(s) /\ ToSet(s) = ToSet(arrived) \cup {p}
      /\ \A x, y : Precedes(s, x, y) <=> Precedes(arrived, x, y) \/ (x \in ToSet(arrived) /\ y = p)
    BY <1>1, AppendParts
<1>3. DOMAIN ix = DOMAIN index \cup {k}
    BY DEF insertIndex
<1>4. \A j \in DOMAIN index : j # k => ix[j] = index[j]
    <2> SUFFICES ASSUME NEW j \in DOMAIN index, j # k PROVE ix[j] = index[j]
        OBVIOUS
    <2>1. ix[j] = index[j] \o <<>>
        BY DEF insertIndex
    <2> QED BY <1>1, <2>1, ConcatEmptySeq
<1>5. ix[k] = Append(old, p) /\ old \in Seq(T)
    <2>1. ix[k] = old \o <<p>>
        BY <1>3 DEF insertIndex
    <2>2. old \in Seq(T)
        BY <1>1, EmptySeq
    <2> HIDE DEF old
    <2> QED BY <2>1, <2>2, AppendIsConcat
<1>6. ToSet(old) = {q \in ToSet(arrived) : leading(q) = k}
    <2>1. CASE k \in DOMAIN index
        <3>1. Vector(index, arrived, k)
            BY <1>1
        <3> QED BY <2>1, <3>1 DEF Vector
    <2>2. CASE k \notin DOMAIN index
        <3>1. Vector(index, arrived, k)
            BY <1>1
        <3>2. old = <<>> /\ ToSet(<<>>) = {}
            BY <2>2 DEF ToSet
        <3> QED BY <2>2, <3>1, <3>2 DEF Vector
    <2> QED BY <2>1, <2>2
<1>7. /\ IsInjective(old)
      /\ \A x, y \in ToSet(old) : Precedes(old, x, y) <=> Precedes(arrived, x, y)
    <2>1. CASE k \in DOMAIN index
        <3>1. Vector(index, arrived, k) /\ IsInjective(index[k])
            BY <1>1, <2>1, VectorInjective
        <3> QED BY <1>6, <2>1, <3>1 DEF Vector
    <2>2. CASE k \notin DOMAIN index
        BY <2>2 DEF IsInjective, ToSet
    <2> QED BY <2>1, <2>2
<1> HIDE DEF old, ix, s
<1>8. p \notin ToSet(old)
    BY <1>6
<1>9. /\ Append(old, p) \in Seq(T) /\ Append(old, p) # <<>>
      /\ ToSet(Append(old, p)) = ToSet(old) \cup {p}
      /\ \A x, y : Precedes(Append(old, p), x, y) <=> Precedes(old, x, y) \/ (x \in ToSet(old) /\ y = p)
    BY <1>5, <1>7, <1>8, AppendParts
<1>10. \A j \in DOMAIN ix : ix[j] \in Seq(T)
    BY <1>1, <1>3, <1>4, <1>5, <1>9
<1>11. ASSUME NEW j \in AllKeys
       PROVE  Vector(ix, s, j)
    <2>1. CASE j # k
        <3>1. {q \in ToSet(s) : leading(q) = j} = {q \in ToSet(arrived) : leading(q) = j}
            BY <1>2, <2>1
        <3>2. \A x, y \in {q \in ToSet(s) : leading(q) = j} : Precedes(s, x, y) <=> Precedes(arrived, x, y)
            BY <1>2, <2>1
        <3>3. Vector(index, arrived, j)
            BY <1>1
        <3> QED BY <1>3, <1>4, <2>1, <3>1, <3>2, <3>3 DEF Vector
    <2>2. CASE j = k
        <3>1. {q \in ToSet(s) : leading(q) = k} = ToSet(old) \cup {p}
            BY <1>2, <1>6
        <3>2. \A x, y \in ToSet(old) \cup {p} : Precedes(ix[k], x, y) <=> Precedes(s, x, y)
            <4> SUFFICES ASSUME NEW x \in ToSet(old) \cup {p}, NEW y \in ToSet(old) \cup {p}
                         PROVE  Precedes(ix[k], x, y) <=> Precedes(s, x, y)
                OBVIOUS
            <4>1. Precedes(ix[k], x, y) <=> Precedes(old, x, y) \/ (x \in ToSet(old) /\ y = p)
                BY <1>5, <1>9
            <4>2. Precedes(s, x, y) <=> Precedes(arrived, x, y) \/ (x \in ToSet(arrived) /\ y = p)
                BY <1>2
            <4>3. \A z : ~ Precedes(old, p, z) /\ ~ Precedes(old, z, p)
                BY <1>8 DEF Precedes, ToSet
            <4>4. \A z : ~ Precedes(arrived, p, z) /\ ~ Precedes(arrived, z, p)
                BY DEF Precedes, ToSet
            <4>5. x \in ToSet(old) \/ x = p
                OBVIOUS
            <4>6. x \in ToSet(old) => x \in ToSet(arrived)
                BY <1>6
            <4>7. y \in ToSet(old) \/ y = p
                OBVIOUS
            <4> QED BY <1>7, <4>1, <4>2, <4>3, <4>4, <4>5, <4>6, <4>7, <1>8
        <3> QED BY <1>3, <1>5, <1>9, <2>2, <3>1, <3>2 DEF Vector
    <2> QED BY <2>1, <2>2
<1> QED BY <1>2, <1>3, <1>10, <1>11 DEF Indexes, ix, s

\* A clause is taken out of its vector, and an emptied vector goes.
LEMMA RemoveIndexes ==
  ASSUME NEW T, Indexes(T, index, arrived), NEW d \in ToSet(arrived), leading(d) \in AllKeys
  PROVE  Indexes(T, removeIndex(d), RemoveFirst(arrived, d))
<1> DEFINE k == leading(d)
           left == RemoveFirst(index[k], d)
           ix == removeIndex(d)
           s  == RemoveFirst(arrived, d)
<1>1. /\ arrived \in Seq(T) /\ IsInjective(arrived)
      /\ \A j \in DOMAIN index : index[j] \in Seq(T)
      /\ DOMAIN index \subseteq AllKeys
      /\ \A j \in AllKeys : Vector(index, arrived, j)
    BY DEF Indexes
<1>2. /\ s \in Seq(T) /\ IsInjective(s) /\ ToSet(s) = ToSet(arrived) \ {d}
      /\ \A x, y : Precedes(s, x, y) <=> Precedes(arrived, x, y) /\ x # d /\ y # d
    BY <1>1, RemoveFirstParts
<1>3. /\ k \in DOMAIN index /\ d \in ToSet(index[k])
      /\ ToSet(index[k]) = {q \in ToSet(arrived) : leading(q) = k}
      /\ \A x, y \in ToSet(index[k]) : Precedes(index[k], x, y) <=> Precedes(arrived, x, y)
    <2>1. Vector(index, arrived, k) /\ d \in {q \in ToSet(arrived) : leading(q) = k}
        BY <1>1
    <2> QED BY <2>1 DEF Vector
<1>4. /\ left \in Seq(T) /\ ToSet(left) = ToSet(index[k]) \ {d}
      /\ \A x, y : Precedes(left, x, y) <=> Precedes(index[k], x, y) /\ x # d /\ y # d
    <2>1. IsInjective(index[k]) /\ index[k] \in Seq(T)
        BY <1>1, <1>3, VectorInjective
    <2> QED BY <1>3, <2>1, RemoveFirstParts
<1>5. /\ DOMAIN ix = DOMAIN index \ (IF left = <<>> THEN {k} ELSE {})
      /\ \A j \in DOMAIN ix : ix[j] = IF j = k THEN left ELSE index[j]
    BY <1>3 DEF removeIndex
<1>6. left = <<>> <=> ToSet(left) = {}
    <2>1. ToSet(<<>>) = {}
        BY DEF ToSet
    <2>2. left \in Seq(T) => left = <<>> \/ 1 \in DOMAIN left
        OBVIOUS
    <2> HIDE DEF left
    <2> QED BY <1>4, <2>1, <2>2 DEF ToSet
<1> HIDE DEF left, ix, s
<1>7. \A j \in DOMAIN ix : ix[j] \in Seq(T)
    BY <1>1, <1>4, <1>5
<1>8. ASSUME NEW j \in AllKeys
      PROVE  Vector(ix, s, j)
    <2>1. CASE j # k
        <3>1. {q \in ToSet(s) : leading(q) = j} = {q \in ToSet(arrived) : leading(q) = j}
            BY <1>2, <2>1
        <3>2. \A x, y \in {q \in ToSet(s) : leading(q) = j} : Precedes(s, x, y) <=> Precedes(arrived, x, y)
            BY <1>2, <2>1
        <3>3. Vector(index, arrived, j) /\ (j \in DOMAIN ix <=> j \in DOMAIN index)
            BY <1>1, <1>5, <2>1
        <3> QED BY <1>5, <2>1, <3>1, <3>2, <3>3 DEF Vector
    <2>2. CASE j = k
        <3>1. {q \in ToSet(s) : leading(q) = k} = ToSet(left)
            BY <1>2, <1>3, <1>4
        <3>2. k \in DOMAIN ix <=> ToSet(left) # {}
            BY <1>3, <1>5, <1>6
        <3>3. \A x, y \in ToSet(left) : Precedes(left, x, y) <=> Precedes(s, x, y)
            BY <1>2, <1>3, <1>4
        <3> QED BY <1>5, <2>2, <3>1, <3>2, <3>3 DEF Vector
    <2> QED BY <2>1, <2>2
<1> QED BY <1>1, <1>2, <1>5, <1>7, <1>8 DEF Indexes, ix, s

-----------------------------------------------------------------------------
(***************************************************************************)
(* The orders of keys and of Passive.                                      *)
(***************************************************************************)
\* Keys are totally ordered.
LEMMA KeyOrder ==
  ASSUME NEW j \in AllKeys, NEW k \in AllKeys, NEW l \in AllKeys
  PROVE  /\ ~ before(j, j)
         /\ before(j, k) /\ before(k, l) => before(j, l)
         /\ before(j, k) \/ before(k, j) \/ j = k
<1>1. /\ j[1] \in Nat /\ k[1] \in Nat /\ l[1] \in Nat
      /\ j[2] \in BOOLEAN /\ k[2] \in BOOLEAN /\ l[2] \in BOOLEAN
      /\ j = k <=> j[1] = k[1] /\ j[2] = k[2]
    <2>1. ASSUME NEW e \in AllKeys PROVE e = <<e[1], e[2]>> /\ e[1] \in Nat /\ e[2] \in BOOLEAN
        <3>1. PICK x \in Prop, b \in BOOLEAN : e = <<x, b>>
            BY DEF AllKeys
        <3> QED BY <3>1, PropAssumption
    <2>2. j = <<j[1], j[2]>> /\ k = <<k[1], k[2]>>
        BY <2>1
    <2>3. j[1] = k[1] /\ j[2] = k[2] => j = k
        BY Zenon, <2>2
    <2> QED BY Zenon, <2>1, <2>3
<1>2. \A g, h : before(g, h) <=> g[1] < h[1] \/ (g[1] = h[1] /\ ~ g[2] /\ h[2])
    BY DEF before, KeyLess
<1> DEFINE a == j[1]
           b == k[1]
           c == l[1]
<1>3. a \in Nat /\ b \in Nat /\ c \in Nat
    BY <1>1
<1>4. /\ before(j, j) <=> a < a \/ (a = a /\ ~ j[2] /\ j[2])
      /\ before(j, k) <=> a < b \/ (a = b /\ ~ j[2] /\ k[2])
      /\ before(k, j) <=> b < a \/ (b = a /\ ~ k[2] /\ j[2])
      /\ before(k, l) <=> b < c \/ (b = c /\ ~ k[2] /\ l[2])
      /\ before(j, l) <=> a < c \/ (a = c /\ ~ j[2] /\ l[2])
    BY Zenon, <1>2
<1>5. j = k <=> a = b /\ j[2] = k[2]
    BY <1>1
<1> HIDE DEF a, b, c
<1>6. /\ ~ (a < a) /\ (a < b \/ b < a \/ a = b)
      /\ a < b /\ b < c => a < c
      /\ a < b /\ b = c => a < c
      /\ a = b /\ b < c => a < c
    BY <1>3
<1> QED BY Zenon, <1>1, <1>4, <1>5, <1>6

\* Every set of keys has a first one.
LEMMA FirstKey ==
  ASSUME NEW K \in SUBSET AllKeys, K # {}
  PROVE  /\ first(K) \in K /\ first(K) # End
         /\ \A j \in K : j # first(K) => before(first(K), j)
<1>1. \E k \in K : \A j \in K : ~ before(j, k)
    <2> DEFINE T == {k[1] : k \in K}
    <2>1. \A k \in K : k[1] \in Nat /\ k[2] \in BOOLEAN
        BY PropAssumption DEF AllKeys
    <2>2. T \in SUBSET Nat /\ T # {}
        BY <2>1
    <2>3. PICK n \in T : \A m \in T : n <= m
        BY <2>2, NatMinimum
    <2>4. \A j \in K : n <= j[1]
        BY <2>3
    <2>5. PICK g \in K : g[1] = n
        BY <2>3
    <2>6. n \in Nat
        BY <2>2, <2>3
    <2>7. \A j, k : before(j, k) <=> j[1] < k[1] \/ (j[1] = k[1] /\ ~ j[2] /\ k[2])
        BY DEF before, KeyLess
    <2>8. \A j \in K : ~ (j[1] < n)
        BY <2>1, <2>4, <2>6
    <2>9. CASE \E k \in K : k[1] = n /\ ~ k[2]
        <3>1. PICK k \in K : k[1] = n /\ ~ k[2]
            BY <2>9
        <3>2. \A j \in K : ~ before(j, k)
            BY Zenon, <2>7, <2>8, <3>1
        <3> QED BY <3>2
    <2>10. CASE \A k \in K : k[1] = n => k[2]
        <3>1. \A j \in K : ~ before(j, g)
            BY Zenon, <2>5, <2>7, <2>8, <2>10
        <3> QED BY <3>1
    <2> QED BY <2>9, <2>10
<1>2. first(K) \in K /\ \A j \in K : ~ before(j, first(K))
    BY <1>1 DEF first
<1>3. first(K) # End
    BY <1>2 DEF AllKeys, End
<1>4. \A j \in K : j # first(K) => before(first(K), j)
    BY <1>2, KeyOrder
<1> QED BY <1>2, <1>3, <1>4

\* What the orders read of a clause.
LEMMA PointerParts ==
  ASSUME made \in Nat, NEW p \in Pointers
  PROVE  /\ leading(p) \in AllKeys /\ Cardinality(p.lits) \in Nat /\ p.id \in Nat
         /\ p.ref \in 1 .. made /\ p.lits \in Inputs
<1>1. IdRange \in Nat \ {0}
    BY ContainerAssumption DEF ContainerAssumption
<1>2. p.ref \in 1 .. made /\ p.lits \in Inputs
    BY DEF Pointers
<1>3. p.id \in Nat
    <2>1. CASE made < IdRange
        BY <1>1, <2>1 DEF Pointers
    <2>2. CASE ~ (made < IdRange)
        BY <1>1, <2>2 DEF Pointers
    <2> QED BY <2>1, <2>2
<1>4. p.lits \in Clauses /\ IsFiniteSet(p.lits) /\ p.lits # {} /\ OneKind(p.lits)
    BY <1>2, ContainerAssumption DEF ContainerAssumption
<1>5. getLeadingLiteral(p.lits) \in Literals
    BY <1>4, HasFront DEF Clauses
<1>6. leading(p) \in AllKeys
    BY <1>5 DEF leading, Key, AllKeys, Literals
<1> QED BY <1>2, <1>3, <1>4, <1>6, FS_CardinalityType

\* passiveClauseComparator is a strict order.
LEMMA PassiveOrder ==
  ASSUME made \in Nat, NEW p \in Pointers, NEW q \in Pointers, NEW r \in Pointers
  PROVE  /\ ~ passiveLess(p, p)
         /\ passiveLess(p, q) /\ passiveLess(q, r) => passiveLess(p, r)
<1> DEFINE size(x) == Cardinality(x.lits)
           a == leading(p)
           b == leading(q)
           c == leading(r)
<1>1. /\ a \in AllKeys /\ b \in AllKeys /\ c \in AllKeys
      /\ size(p) \in Nat /\ size(q) \in Nat /\ size(r) \in Nat
      /\ p.id \in Nat /\ q.id \in Nat /\ r.id \in Nat
    BY PointerParts
<1>2. \A x, y : passiveLess(x, y) <=>
                  \/ size(x) < size(y)
                  \/ size(x) = size(y) /\ before(leading(x), leading(y))
                  \/ size(x) = size(y) /\ leading(x) = leading(y) /\ x.id < y.id
    BY DEF passiveLess
<1>3. ~ before(a, a) /\ (before(a, b) /\ before(b, c) => before(a, c))
    BY <1>1, KeyOrder
<1> DEFINE m == size(p)
           n == size(q)
           o == size(r)
           i == p.id
           j == q.id
           k == r.id
<1>4. /\ passiveLess(p, p) <=> m < m \/ (m = m /\ before(a, a)) \/ (m = m /\ a = a /\ i < i)
      /\ passiveLess(p, q) <=> m < n \/ (m = n /\ before(a, b)) \/ (m = n /\ a = b /\ i < j)
      /\ passiveLess(q, r) <=> n < o \/ (n = o /\ before(b, c)) \/ (n = o /\ b = c /\ j < k)
      /\ passiveLess(p, r) <=> m < o \/ (m = o /\ before(a, c)) \/ (m = o /\ a = c /\ i < k)
    BY Zenon, <1>2
<1>5. m \in Nat /\ n \in Nat /\ o \in Nat /\ i \in Nat /\ j \in Nat /\ k \in Nat
    BY <1>1
<1> HIDE DEF m, n, o, i, j, k, a, b, c
<1>6. /\ ~ (m < m) /\ ~ (i < i)
      /\ m < n /\ n < o => m < o
      /\ m < n /\ n = o => m < o
      /\ m = n /\ n < o => m < o
      /\ i < j /\ j < k => i < k
    BY <1>5
<1> QED BY Zenon, <1>3, <1>4, <1>6

\* A finite set in which any two clauses are in order has a first one.
LEMMA FirstClause ==
  ASSUME made \in Nat, NEW S \in SUBSET Pointers, IsFiniteSet(S), S # {},
         \A p, q \in S : p # q => passiveLess(p, q) \/ passiveLess(q, p)
  PROVE  \E p \in S : {x \in S : \A q \in S \ {x} : passiveLess(x, q)} = {p}
<1> DEFINE R == {e \in S \X S : passiveLess(e[2], e[1])}
<1>1. \A i, j \in S : <<i, j>> \in R <=> passiveLess(j, i)
    OBVIOUS
<1>2. \E k \in S : \A j \in S : <<k, j>> \notin R
    <2>1. \A i \in S : <<i, i>> \notin R
        BY <1>1, PassiveOrder
    <2>2. \A i, j, k \in S : <<i, j>> \in R /\ <<j, k>> \in R => <<i, k>> \in R
        BY <1>1, PassiveOrder
    <2> HIDE DEF R
    <2> QED BY <2>1, <2>2, MaximalElement
<1> HIDE DEF R
<1>3. PICK p \in S : \A q \in S : ~ passiveLess(q, p)
    BY <1>1, <1>2
<1>4. \A q \in S \ {p} : passiveLess(p, q)
    BY <1>3
<1>5. ASSUME NEW x \in S, \A q \in S \ {x} : passiveLess(x, q)
      PROVE  x = p
    BY <1>3, <1>5
<1> QED BY <1>4, <1>5

-----------------------------------------------------------------------------
(***************************************************************************)
(* Positions of a walk.                                                    *)
(***************************************************************************)
Holding == activeTrie \cup passive

\* What walks rely on: the index is one of what is active, nothing is in both
\* halves, and any two clauses of the second are in order.
InOrder == \A p, q \in passive : p # q => passiveLess(p, q) \/ passiveLess(q, p)

Walkable ==
  /\ made \in Nat
  /\ Indexes(Pointers, index, arrived) /\ activeTrie = ToSet(arrived)
  /\ passive \subseteq Pointers /\ IsFiniteSet(passive) /\ InOrder
  /\ activeTrie \cap passive = {}

Iterators ==
  [first : BOOLEAN, key : AllKeys \cup {End}, pos : (AllKeys \cup {End}) \X Nat,
   endPos : Garbage, second : SUBSET Pointers]

Ended(i) == ~ i.first /\ i.second = {}

Position(i) ==
  /\ i \in Iterators
  /\ i.first => /\ i.key \in DOMAIN index
                /\ \E n \in 1 .. Len(index[i.key]) : i.pos = <<i.key, n>>
  /\ ~ i.first => i.second = {} \/ \E p \in passive : i.second = {p}

Passed(i) == {r \in Holding : Ended(i) \/ earlier(r, deref(i))}

\* Every active clause has its key in the index.
LEMMA KeyHeld ==
  ASSUME Walkable, NEW r \in activeTrie
  PROVE  leading(r) \in AllKeys /\ leading(r) \in DOMAIN index
         /\ \E m \in 1 .. Len(index[leading(r)]) : index[leading(r)][m] = r
<1>1. r \in ToSet(arrived) /\ arrived \in Seq(Pointers) /\ made \in Nat
    BY DEF Walkable, Indexes
<1>2. r \in Pointers
    BY <1>1 DEF ToSet
<1>3. leading(r) \in AllKeys
    BY <1>1, <1>2, PointerParts
<1>4. Vector(index, arrived, leading(r))
    BY <1>3 DEF Walkable, Indexes
<1>5. leading(r) \in DOMAIN index /\ r \in ToSet(index[leading(r)])
    BY <1>1, <1>4 DEF Vector
<1>6. index[leading(r)] \in Seq(Pointers)
    BY <1>5 DEF Walkable, Indexes
<1> QED BY <1>3, <1>5, <1>6 DEF ToSet

\* No vector is empty.
LEMMA NoEmptyVector ==
  ASSUME Walkable, NEW k \in DOMAIN index
  PROVE  Len(index[k]) \in Nat /\ 1 \in 1 .. Len(index[k])
<1>1. Vector(index, arrived, k) /\ index[k] \in Seq(Pointers)
    BY DEF Walkable, Indexes
<1>2. ToSet(index[k]) # {}
    BY <1>1 DEF Vector
<1>3. index[k] # <<>>
    BY <1>2 DEF ToSet
<1> QED BY <1>1, <1>3

\* The clause at a place of a vector, and what is before it.
LEMMA InVector ==
  ASSUME Walkable, NEW k \in DOMAIN index, NEW n \in 1 .. Len(index[k])
  PROVE  /\ index[k][n] \in activeTrie /\ leading(index[k][n]) = k
         /\ {r \in Holding : earlier(r, index[k][n])} =
              {r \in activeTrie : before(leading(r), k) \/ \E m \in 1 .. (n - 1) : index[k][m] = r}
<1> DEFINE v == index[k]
           p == index[k][n]
<1>1. /\ k \in AllKeys /\ v \in Seq(Pointers) /\ IsInjective(v)
      /\ DOMAIN v = 1 .. Len(v) /\ Len(v) \in Nat
    BY VectorInjective DEF Walkable, Indexes
<1>2. /\ ToSet(v) = {r \in activeTrie : leading(r) = k}
      /\ \A x, y \in ToSet(v) : Precedes(v, x, y) <=> Precedes(arrived, x, y)
    <2>1. Vector(index, arrived, k) /\ activeTrie = ToSet(arrived)
        BY <1>1 DEF Walkable, Indexes
    <2> QED BY <2>1 DEF Vector
<1> HIDE DEF v
<1>3. p = v[n] /\ n \in 1 .. Len(v)
    BY DEF v
<1>4. p \in ToSet(v)
    BY <1>1, <1>3 DEF ToSet
<1>5. p \in activeTrie /\ leading(p) = k /\ p \notin passive
    BY <1>2, <1>4 DEF Walkable
<1> HIDE DEF p
<1>6. ASSUME NEW r \in ToSet(v)
      PROVE  Precedes(arrived, r, p) <=> \E m \in 1 .. (n - 1) : v[m] = r
    <2>1. Precedes(arrived, r, p) <=> Precedes(v, r, p)
        BY <1>2, <1>4
    <2>2. ASSUME Precedes(v, r, p) PROVE \E m \in 1 .. (n - 1) : v[m] = r
        <3>1. PICK i \in 1 .. Len(v), j \in 1 .. Len(v) : i < j /\ v[i] = r /\ v[j] = p
            BY <1>1, <2>2 DEF Precedes
        <3>2. j = n
            BY <1>1, <1>3, <3>1 DEF IsInjective
        <3> QED BY <1>1, <3>1, <3>2
    <2>3. ASSUME NEW m \in 1 .. (n - 1), v[m] = r PROVE Precedes(v, r, p)
        BY <1>1, <1>3, <2>3 DEF Precedes
    <2> QED BY <2>1, <2>2, <2>3
<1>7. ASSUME NEW r \in Holding
      PROVE  earlier(r, p) <=>
               r \in activeTrie /\ (before(leading(r), k) \/ (leading(r) = k /\ Precedes(arrived, r, p)))
    BY <1>5 DEF earlier
<1>8. ASSUME NEW r \in activeTrie, NEW m \in 1 .. (n - 1), v[m] = r
      PROVE  r \in ToSet(v)
    <2>1. m \in DOMAIN v
        BY <1>1, <1>3
    <2> QED BY <1>8, <2>1 DEF ToSet
<1>9. ASSUME NEW r \in Holding
      PROVE  earlier(r, p) <=>
               r \in activeTrie /\ (before(leading(r), k) \/ \E m \in 1 .. (n - 1) : v[m] = r)
    BY <1>2, <1>6, <1>7, <1>8
<1> QED BY <1>5, <1>9 DEF Holding, p, v

\* A clause of Passive, and what is before it.
LEMMA InPassive ==
  ASSUME Walkable, NEW p \in passive
  PROVE  {r \in Holding : earlier(r, p)} = activeTrie \cup {r \in passive : passiveLess(r, p)}
<1>1. p \notin activeTrie
    BY DEF Walkable
<1>2. \A r \in Holding : earlier(r, p) <=> r \in activeTrie \/ (r \in passive /\ passiveLess(r, p))
    BY <1>1 DEF earlier, Holding
<1> QED BY <1>2 DEF Holding

\* The second half begins with its first clause, after all of the first half.
LEMMA SecondHalf ==
  ASSUME Walkable, NEW i \in Iterators, ~ i.first, i.second = setBegin
  PROVE  Position(i) /\ Passed(i) = activeTrie
<1>1. CASE passive = {}
    <2>1. i.second = {}
        BY <1>1 DEF setBegin
    <2> QED BY <1>1, <2>1 DEF Position, Passed, Ended, Holding
<1>2. CASE passive # {}
    <2>1. PICK p \in passive : setBegin = {p}
        BY <1>2, FirstClause DEF Walkable, InOrder, setBegin
    <2>2. deref(i) = p /\ ~ Ended(i)
        BY <2>1 DEF deref, Ended
    <2>3. \A r \in passive : ~ passiveLess(r, p)
        <3> SUFFICES ASSUME NEW r \in passive, passiveLess(r, p) PROVE FALSE
            OBVIOUS
        <3>1. p \in Pointers /\ r \in Pointers /\ made \in Nat
            BY DEF Walkable
        <3>2. r # p
            BY <3>1, PassiveOrder
        <3>3. passiveLess(p, r)
            BY <2>1, <3>2 DEF setBegin
        <3> QED BY <3>1, <3>3, PassiveOrder
    <2>4. Passed(i) = {r \in Holding : earlier(r, p)}
        BY <2>2 DEF Passed
    <2>5. Passed(i) = activeTrie
        BY <2>3, <2>4, InPassive
    <2> QED BY <2>1, <2>5 DEF Position
<1> QED BY <1>1, <1>2

\* A walk begins before the first clause.
LEMMA WalkBegins ==
  ASSUME Walkable, NEW i \in beginnings
  PROVE  /\ Position(started(i)) /\ Passed(started(i)) = {}
         /\ endOf(i).second = {}
<1> DEFINE K == DOMAIN index
<1>1. PICK x \in (IF index = <<>> THEN Garbage ELSE {<<first(K), 1>>}), e \in Garbage :
        i = [first |-> TRUE, key |-> first(K), pos |-> x, endPos |-> e, second |-> setBegin]
    BY DEF beginnings
<1>2. endOf(i).second = {}
    BY <1>1 DEF endOf
<1>3. setBegin \subseteq passive /\ passive \subseteq Pointers /\ K \subseteq AllKeys
    BY DEF setBegin, Walkable, Indexes
<1>4. CASE K = {}
    <2>1. i.key = End /\ i.first /\ i.endPos \in Garbage /\ i.second = setBegin
        BY <1>1, <1>4 DEF first
    <2>2. started(i) = [i EXCEPT !.first = FALSE, !.second = setBegin]
        BY <2>1 DEF started, samePosition
    <2>3. started(i) = [first |-> FALSE, key |-> End, pos |-> x, endPos |-> e, second |-> setBegin]
        BY <1>1, <2>1, <2>2
    <2>4. x \in (AllKeys \cup {End}) \X Nat
        <3>1. x \in Garbage
            <4>1. index = <<>>
                BY <1>4 DEF Walkable, Indexes
            <4> QED BY <4>1
        <3> QED BY <3>1 DEF Garbage
    <2>5. started(i) \in Iterators /\ ~ started(i).first /\ started(i).second = setBegin
        BY <1>3, <2>3, <2>4 DEF Iterators
    <2>6. activeTrie = {}
        <3> SUFFICES ASSUME NEW p \in activeTrie PROVE FALSE
            OBVIOUS
        <3> QED BY <1>4, KeyHeld
    <2> QED BY <1>2, <2>5, <2>6, SecondHalf
<1>5. CASE K # {}
    <2> DEFINE k == first(K)
    <2>1. k \in K /\ k # End /\ k \in AllKeys /\ \A j \in K : j # k => before(k, j)
        BY <1>3, <1>5, FirstKey
    <2> HIDE DEF k
    <2>2. x = <<k, 1>>
        <3>1. index # <<>>
            BY <1>5
        <3> QED BY <3>1 DEF k
    <2>3. started(i) = i
        BY <1>1, <2>1 DEF started, samePosition, k
    <2>4. i \in Iterators /\ i.first /\ i.key = k /\ i.pos = <<k, 1>>
        BY <1>1, <1>3, <2>1, <2>2 DEF Iterators, k
    <2>5. 1 \in 1 .. Len(index[k])
        BY <2>1, NoEmptyVector
    <2>6. Position(i)
        BY <2>1, <2>4, <2>5 DEF Position
    <2>7. deref(i) = index[k][1] /\ ~ Ended(i)
        BY <2>4 DEF deref, Ended
    <2>8. Passed(i) = {r \in activeTrie : before(leading(r), k) \/ \E m \in 1 .. (1 - 1) : index[k][m] = r}
        BY <2>1, <2>5, <2>7, InVector DEF Passed
    <2>9. ASSUME NEW r \in activeTrie PROVE ~ before(leading(r), k)
        <3>1. leading(r) \in K
            BY KeyHeld
        <3>2. leading(r) \in AllKeys
            BY <1>3, <3>1
        <3> QED BY <2>1, <3>1, <3>2, KeyOrder
    <2>10. Passed(i) = {}
        BY <2>8, <2>9
    <2> QED BY <1>2, <2>3, <2>6, <2>10
<1> QED BY <1>4, <1>5

\* An iterator is a record of its five parts.
LEMMA IteratorParts ==
  ASSUME NEW i \in Iterators
  PROVE  /\ i = [first |-> i.first, key |-> i.key, pos |-> i.pos, endPos |-> i.endPos,
                 second |-> i.second]
         /\ i.first \in BOOLEAN /\ i.endPos \in Garbage /\ i.second \in SUBSET Pointers
BY DEF Iterators

\* A step in the first half: to the next place of the vector, to the vector
\* of the next key, or to the second half.
LEMMA WalkAdvancesFirst ==
  ASSUME Walkable, NEW i, Position(i), i.first
  PROVE  /\ deref(i) \in Holding \ Passed(i)
         /\ Position(advanced(i)) /\ Passed(advanced(i)) = Passed(i) \cup {deref(i)}
<1> DEFINE k == i.key
           p == deref(i)
           K == DOMAIN index
           above == {l \in K : before(k, l)}
           j == first(above)
<1>1. /\ i \in Iterators /\ k \in K /\ k \in AllKeys /\ K \subseteq AllKeys
      /\ ~ Ended(i)
    BY DEF Position, Walkable, Indexes, Ended
<1>2. PICK n \in 1 .. Len(index[k]) : i.pos = <<k, n>>
    BY DEF Position
<1>3. Len(index[k]) \in Nat /\ p = index[k][n] /\ i.pos[2] = n
    BY <1>1, <1>2, NoEmptyVector DEF deref
<1> DEFINE early(m) == {r \in activeTrie : before(leading(r), k) \/ \E o \in 1 .. m : index[k][o] = r}
<1>4. p \in activeTrie /\ leading(p) = k /\ Passed(i) = early(n - 1)
    BY <1>1, <1>3, InVector DEF Passed
<1>5. p \notin Passed(i)
    <2>1. ~ before(leading(p), k)
        BY <1>1, <1>4, KeyOrder
    <2>2. ASSUME NEW o \in 1 .. (n - 1), index[k][o] = p PROVE FALSE
        <3>1. IsInjective(index[k]) /\ index[k] \in Seq(Pointers)
            BY <1>1, VectorInjective DEF Walkable, Indexes
        <3>2. o \in DOMAIN index[k] /\ n \in DOMAIN index[k] /\ o # n
            BY <1>3, <3>1
        <3> QED BY <1>3, <2>2, <3>1, <3>2 DEF IsInjective
    <2> QED BY <1>4, <2>1, <2>2
<1>6. Passed(i) \cup {p} = early(n)
    <2>1. early(n - 1) \cup {p} \subseteq early(n)
        BY <1>3, <1>4
    <2>2. early(n) \subseteq early(n - 1) \cup {p}
        <3> SUFFICES ASSUME NEW r \in early(n), ~ before(leading(r), k) PROVE r \in early(n - 1) \cup {p}
            OBVIOUS
        <3>1. PICK o \in 1 .. n : index[k][o] = r
            OBVIOUS
        <3> QED BY <1>3, <3>1
    <2> QED BY <1>4, <2>1, <2>2
<1> DEFINE a == nextInIndex(i)
<1>7. CASE n + 1 <= Len(index[k])
    <2>1. a = [i EXCEPT !.pos = <<k, n + 1>>]
        BY <1>3, <1>7 DEF nextInIndex
    <2>2. /\ a \in Iterators /\ a.first /\ a.key = k /\ a.pos = <<k, n + 1>>
        BY <1>1, <1>3, <2>1 DEF Iterators
    <2>3. k # End
        BY <1>1 DEF AllKeys, End
    <2>4. advanced(i) = a
        BY <2>2, <2>3 DEF advanced, started, samePosition
    <2>5. n + 1 \in 1 .. Len(index[k]) /\ (n + 1) - 1 = n
        BY <1>3, <1>7
    <2>6. deref(a) = index[k][n + 1] /\ ~ Ended(a)
        BY <2>2 DEF deref, Ended
    <2>7. Passed(a) = early(n)
        <3>1. {r \in Holding : earlier(r, index[k][n + 1])} =
                {r \in activeTrie : before(leading(r), k) \/ \E m \in 1 .. ((n + 1) - 1) : index[k][m] = r}
            BY <1>1, <2>5, InVector
        <3> QED BY <2>5, <2>6, <3>1 DEF Passed
    <2>8. Position(a)
        BY <1>1, <2>2, <2>5 DEF Position
    <2> QED BY <1>4, <1>5, <1>6, <2>4, <2>7, <2>8 DEF Holding
<1>8. CASE n = Len(index[k])
    <2>1. early(n) = {r \in activeTrie : before(leading(r), k) \/ leading(r) = k}
        <3>1. ASSUME NEW o \in 1 .. n PROVE leading(index[k][o]) = k
            BY <1>1, <1>8, <3>1, InVector
        <3>2. ASSUME NEW r \in activeTrie, leading(r) = k PROVE \E o \in 1 .. n : index[k][o] = r
            BY <1>8, <3>2, KeyHeld
        <3> QED BY <3>1, <3>2
    <2>2. CASE above # {}
        <3>1. j \in above /\ j # End /\ j \in AllKeys /\ \A l \in above : l # j => before(j, l)
            BY <1>1, <2>2, FirstKey
        <3> HIDE DEF j
        <3>2. a = [i EXCEPT !.key = j, !.pos = <<j, 1>>]
            BY <1>3, <1>8, <3>1 DEF nextInIndex, j
        <3>3. a \in Iterators /\ a.first /\ a.key = j /\ a.pos = <<j, 1>>
            <4>1. <<j, 1>> \in (AllKeys \cup {End}) \X Nat
                BY <3>1
            <4>2. j \in AllKeys \cup {End}
                BY <3>1
            <4> HIDE DEF a, p, k, K
            <4> DEFINE b == [first |-> i.first, key |-> j, pos |-> <<j, 1>>, endPos |-> i.endPos,
                             second |-> i.second]
            <4>3. i = [first |-> i.first, key |-> i.key, pos |-> i.pos, endPos |-> i.endPos,
                       second |-> i.second]
                BY <1>1, IteratorParts
            <4>4. a = b
                BY <3>2, <4>3
            <4>5. b \in Iterators
                BY <1>1, <4>1, <4>2, IteratorParts DEF Iterators
            <4>6. b.first /\ b.key = j /\ b.pos = <<j, 1>>
                OBVIOUS
            <4> QED BY <4>4, <4>5, <4>6
        <3>4. advanced(i) = a
            BY <3>1, <3>3 DEF advanced, started, samePosition
        <3>5. Len(index[j]) \in Nat /\ 1 \in 1 .. Len(index[j])
            BY <3>1, NoEmptyVector
        <3>6. deref(a) = index[j][1] /\ ~ Ended(a)
            BY <3>3 DEF deref, Ended
        <3>7. Passed(a) = {r \in activeTrie : before(leading(r), j)}
            <4>1. {r \in Holding : earlier(r, index[j][1])} =
                    {r \in activeTrie : before(leading(r), j) \/ \E m \in 1 .. (1 - 1) : index[j][m] = r}
                BY <3>1, <3>5, InVector
            <4> QED BY <3>6, <4>1 DEF Passed
        <3>8. ASSUME NEW r \in activeTrie
              PROVE  before(leading(r), j) <=> before(leading(r), k) \/ leading(r) = k
            <4>1. leading(r) \in AllKeys /\ leading(r) \in K /\ before(k, j)
                BY <3>1, KeyHeld
            <4>2. before(leading(r), k) \/ leading(r) = k => before(leading(r), j)
                BY <1>1, <3>1, <4>1, KeyOrder
            <4>3. ASSUME before(leading(r), j), ~ before(leading(r), k), leading(r) # k PROVE FALSE
                <5>1. leading(r) \in above
                    BY <1>1, <4>1, <4>3, KeyOrder
                <5>2. leading(r) = j \/ before(j, leading(r))
                    BY <3>1, <5>1
                <5> QED BY <3>1, <4>1, <4>3, <5>2, KeyOrder
            <4> QED BY <4>2, <4>3
        <3>9. Passed(a) = early(n)
            BY <2>1, <3>7, <3>8
        <3>10. Position(a)
            BY <3>1, <3>3, <3>5 DEF Position
        <3> QED BY <1>4, <1>5, <1>6, <3>4, <3>9, <3>10 DEF Holding
    <2>3. CASE above = {}
        <3>1. j = End
            BY <2>3 DEF first
        <3>2. a = [i EXCEPT !.key = End, !.pos = <<k, n + 1>>]
            <4>1. i.pos[2] + 1 > Len(index[i.key]) /\ ~ (i.pos[2] + 1 <= Len(index[i.key]))
                BY <1>3, <1>8
            <4>2. first({l \in DOMAIN index : before(i.key, l)}) = End
                BY <3>1
            <4> HIDE DEF j, above, p, K
            <4> QED BY <1>3, <4>1, <4>2 DEF nextInIndex
        <3>3. a \in Iterators /\ a.first /\ a.key = End
            <4>1. <<k, n + 1>> \in (AllKeys \cup {End}) \X Nat
                BY <1>1, <1>3
            <4>2. End \in AllKeys \cup {End}
                OBVIOUS
            <4> HIDE DEF a, p, k, K
            <4> DEFINE b == [first |-> i.first, key |-> End, pos |-> <<k, n + 1>>, endPos |-> i.endPos,
                             second |-> i.second]
            <4>3. i = [first |-> i.first, key |-> i.key, pos |-> i.pos, endPos |-> i.endPos,
                       second |-> i.second]
                BY <1>1, IteratorParts
            <4>4. a = b
                BY <3>2, <4>3
            <4>5. b \in Iterators
                BY <1>1, <4>1, <4>2, IteratorParts DEF Iterators
            <4>6. b.first /\ b.key = End /\ b.pos = <<k, n + 1>>
                OBVIOUS
            <4> QED BY <4>4, <4>5, <4>6
        <3>4. advanced(i) = [a EXCEPT !.first = FALSE, !.second = setBegin]
            BY <3>3 DEF advanced, started, samePosition
        <3>5. setBegin \subseteq Pointers
            BY DEF setBegin, Walkable
        <3>6. /\ advanced(i) \in Iterators /\ ~ advanced(i).first /\ advanced(i).second = setBegin
            BY <3>3, <3>4, <3>5 DEF Iterators
        <3>7. Position(advanced(i)) /\ Passed(advanced(i)) = activeTrie
            BY <3>6, SecondHalf
        <3>8. ASSUME NEW r \in activeTrie PROVE before(leading(r), k) \/ leading(r) = k
            <4>1. leading(r) \in AllKeys /\ leading(r) \in K
                BY KeyHeld
            <4> QED BY <1>1, <2>3, <4>1, KeyOrder
        <3>9. early(n) = activeTrie
            BY <2>1, <3>8
        <3> QED BY <1>4, <1>5, <1>6, <3>7, <3>9 DEF Holding
    <2> QED BY <2>2, <2>3
<1>9. n + 1 <= Len(index[k]) \/ n = Len(index[k])
    BY <1>3
<1> QED BY <1>7, <1>8, <1>9

\* A step in the second half: to the next clause, or to the end.
LEMMA WalkAdvancesSecond ==
  ASSUME Walkable, NEW i, Position(i), ~ i.first, ~ Ended(i)
  PROVE  /\ deref(i) \in Holding \ Passed(i)
         /\ Position(advanced(i)) /\ Passed(advanced(i)) = Passed(i) \cup {deref(i)}
<1>1. i \in Iterators /\ i.second # {}
    BY DEF Position, Ended
<1>2. PICK p \in passive : i.second = {p}
    BY <1>1 DEF Position
<1>3. deref(i) = p
    BY <1>2 DEF deref
<1> DEFINE above == {q \in passive : passiveLess(p, q)}
           a == advanced(i)
<1>4. a = [i EXCEPT !.second = setAfter(p)]
    BY <1>2 DEF advanced
<1>5. setAfter(p) = {q \in above : \A r \in above \ {q} : passiveLess(q, r)}
    BY DEF setAfter
<1>6. /\ made \in Nat /\ passive \subseteq Pointers /\ above \subseteq passive
      /\ \A q, r \in passive : q # r => passiveLess(q, r) \/ passiveLess(r, q)
      /\ \A q, r \in passive : ~ (passiveLess(q, r) /\ passiveLess(r, q)) /\ ~ passiveLess(q, q)
    BY PassiveOrder DEF Walkable, InOrder
<1>7. a \in Iterators /\ ~ a.first /\ a.second = setAfter(p)
    BY <1>1, <1>4, <1>5, <1>6 DEF Iterators
<1>8. Passed(i) = activeTrie \cup {r \in passive : passiveLess(r, p)}
    BY <1>3, InPassive DEF Passed
<1>9. p \in Holding \ Passed(i)
    BY <1>6, <1>8 DEF Holding, Walkable
<1>10. Passed(i) \cup {p} = activeTrie \cup {r \in passive : ~ passiveLess(p, r)}
    BY <1>6, <1>8
<1>11. CASE above = {}
    <2>1. setAfter(p) = {}
        BY <1>5, <1>11
    <2>2. Position(a) /\ Passed(a) = Holding
        BY <1>7, <2>1 DEF Position, Passed, Ended
    <2> QED BY <1>3, <1>9, <1>10, <1>11, <2>2 DEF Holding
<1>12. CASE above # {}
    <2>1. IsFiniteSet(above)
        BY <1>6, FS_Subset DEF Walkable
    <2>2. PICK q \in above : setAfter(p) = {q}
        <3> DEFINE least == {x \in above : \A y \in above \ {x} : passiveLess(x, y)}
        <3>1. above \in SUBSET Pointers /\ \A x, y \in above : x # y => passiveLess(x, y) \/ passiveLess(y, x)
            BY <1>6
        <3>2. setAfter(p) = least
            BY <1>5
        <3> HIDE DEF above
        <3>3. \E x \in above : least = {x}
            BY <1>6, <1>12, <2>1, <3>1, FirstClause
        <3> QED BY <3>2, <3>3
    <2>3. deref(a) = q /\ ~ Ended(a) /\ Position(a)
        BY <1>6, <1>7, <2>2 DEF deref, Ended, Position
    <2>4. Passed(a) = activeTrie \cup {r \in passive : passiveLess(r, q)}
        BY <1>6, <2>3, InPassive DEF Passed
    <2>5. ASSUME NEW r \in passive
          PROVE  passiveLess(r, q) <=> ~ passiveLess(p, r)
        <3>1. passiveLess(p, r) /\ r # q => passiveLess(q, r)
            BY <1>5, <2>2
        <3>2. ~ passiveLess(p, r) /\ r # p => passiveLess(r, p)
            BY <1>6
        <3>3. passiveLess(r, p) => passiveLess(r, q)
            BY <1>6, PassiveOrder
        <3> QED BY <1>6, <3>1, <3>2, <3>3
    <2> QED BY <1>3, <1>9, <1>10, <2>3, <2>4, <2>5
<1> QED BY <1>11, <1>12

-----------------------------------------------------------------------------
(***************************************************************************)
(* The invariant of the clause set.                                        *)
(***************************************************************************)
\* A clause is in one place: active, passive, or selected.
Apart ==
  /\ ToSet(arrived) \cap passiveTrie = {}
  /\ current \cap (ToSet(arrived) \cup passiveTrie) = {}

WalkInv ==
  pc = "walking" =>
    /\ Position(at) /\ last.second = {}
    /\ ToSet(visited) = {p \in Passed(at) : selects(p)}
    /\ \A i, j \in DOMAIN visited : i < j => earlier(visited[i], visited[j])

ContainerInv ==
  /\ KInv /\ ContainerTypeOK /\ Indexes(Pointers, index, arrived)
  /\ activeTrie \cup doomed = ToSet(arrived) /\ activeTrie \cap doomed = {}
  /\ IsFiniteSet(passive) /\ InOrder /\ Apart
  /\ pc # "removing" => doomed = {}
  /\ WalkInv

\* It says of Active what it should.
LEMMA ContainerConsistent == ContainerInv => ActiveConsistent
<1> SUFFICES ASSUME ContainerInv PROVE ActiveConsistent
    OBVIOUS
<1>1. \A k \in AllKeys : Vector(index, arrived, k)
    BY DEF ContainerInv, Indexes
<1>2. IsInjective(arrived)
    BY DEF ContainerInv, Indexes
<1> QED BY <1>1, <1>2 DEF ContainerInv, ActiveConsistent, Vector

\* Between operations walks can rely on it.
LEMMA ContainerWalkable ==
  ASSUME ContainerInv, pc # "removing"
  PROVE  Walkable
<1>1. made \in Nat /\ passive \subseteq Pointers
    BY DEF ContainerInv, ContainerTypeOK, KInv
<1>2. activeTrie = ToSet(arrived)
    <2>1. doomed = {}
        BY DEF ContainerInv
    <2> QED BY <2>1 DEF ContainerInv
<1>3. passive \subseteq passiveTrie
    BY DEF ContainerInv, KInv, PassiveKeeps
<1> QED BY <1>1, <1>2, <1>3 DEF ContainerInv, Walkable, Apart

\* At first all is empty.
LEMMA InitContainer == Init => ContainerInv
<1> SUFFICES ASSUME Init PROVE ContainerInv
    OBVIOUS
<1>1. KInv
    BY InitKeeps
<1>2. /\ pc = "idle" /\ made = 0 /\ mode \in Modes /\ DOMAIN index = {} /\ activeTrie = {}
      /\ arrived = <<>> /\ passive = {} /\ passiveTrie = {} /\ current = {} /\ doomed = {}
      /\ selector = "all" /\ visited = <<>>
    BY DEF Init
<1>3. ToSet(<<>>) = {} /\ IsInjective(<<>>) /\ <<>> \in Seq(Pointers)
    BY EmptySeq DEF ToSet, IsInjective
<1>4. ContainerTypeOK
    <2>1. 0 \in 0 .. MaxClauses /\ Cardinality({}) <= 1
        BY ContainerAssumption, FS_EmptySet DEF ContainerAssumption
    <2> QED BY <1>2, <1>3, <2>1 DEF ContainerTypeOK, Selectors
<1>5. Indexes(Pointers, index, arrived)
    BY <1>2, <1>3 DEF Indexes, Vector
<1>6. IsFiniteSet(passive) /\ InOrder /\ Apart /\ WalkInv
    BY <1>2, FS_EmptySet DEF InOrder, Apart, WalkInv
<1> QED BY <1>1, <1>2, <1>3, <1>4, <1>5, <1>6 DEF ContainerInv

\* The next clause constructed is a new one.
LEMMA NewPointer ==
  ASSUME made \in Nat, made' = made + 1, NEW lits \in Inputs
  PROVE  /\ Pointers \subseteq Pointers'
         /\ Clause(lits) \in Pointers' /\ Clause(lits) \notin Pointers
         /\ leading(Clause(lits)) \in AllKeys
<1> DEFINE new == Clause(lits)
           Ids(n) == IF n < IdRange THEN 1 .. n ELSE 0 .. IdRange - 1
<1>1. IdRange \in Nat \ {0}
    BY ContainerAssumption DEF ContainerAssumption
<1>2. /\ Pointers = [ref : 1 .. made, lits : Inputs, id : Ids(made)]
      /\ Pointers' = [ref : 1 .. made + 1, lits : Inputs, id : Ids(made + 1)]
    BY DEF Pointers
<1>3. Ids(made) \subseteq Ids(made + 1) /\ (made + 1) % IdRange \in Ids(made + 1)
    <2>1. CASE made + 1 < IdRange
        BY <1>1, <2>1
    <2>2. CASE ~ (made + 1 < IdRange)
        BY <1>1, <2>2
    <2> QED BY <2>1, <2>2
<1> HIDE DEF Ids
<1>4. 1 .. made \subseteq 1 .. made + 1
    OBVIOUS
<1>5. Pointers \subseteq Pointers'
    BY <1>2, <1>3, <1>4
<1>6. new = [ref |-> made + 1, id |-> (made + 1) % IdRange, lits |-> lits]
    BY DEF Clause
<1>7. new \in Pointers' /\ new.ref = made + 1
    BY <1>2, <1>3, <1>6
<1>8. new \notin Pointers
    <2>1. \A p \in Pointers : p.ref \in 1 .. made
        BY <1>2
    <2> QED BY <1>7, <2>1
<1>9. leading(new) \in AllKeys
    <2>1. new.lits = lits
        BY <1>6
    <2>2. lits \in Clauses /\ IsFiniteSet(lits) /\ lits # {} /\ OneKind(lits)
        BY ContainerAssumption DEF ContainerAssumption
    <2>3. getLeadingLiteral(lits) \in Literals
        BY <2>2, HasFront DEF Clauses
    <2> QED BY <2>1, <2>3 DEF leading, Key, AllKeys, Literals
<1> QED BY <1>5, <1>7, <1>8, <1>9

\* An index stays one when more clauses exist.
LEMMA IndexesGrow ==
  ASSUME NEW T, NEW U, T \subseteq U, NEW ix, NEW s, Indexes(T, ix, s)
  PROVE  Indexes(U, ix, s)
<1>1. \A k \in DOMAIN ix : ix[k] \in Seq(U)
    BY SeqMonotonic DEF Indexes
<1>2. s \in Seq(U)
    BY SeqMonotonic DEF Indexes
<1> QED BY <1>1, <1>2 DEF Indexes

\* Nothing is in a sequence that its elements are not.
LEMMA ElementsIn ==
  ASSUME NEW T, NEW s \in Seq(T)
  PROVE  ToSet(s) \subseteq T
BY DEF ToSet

\* What is typed of the old clauses is typed of the new.
LEMMA TypeGrows ==
  ASSUME ContainerInv, made \in Nat, made' \in 0 .. MaxClauses, Pointers \subseteq Pointers',
         pc' \in {"idle", "selected", "removing", "walking"}, mode' = mode, selector' \in Selectors,
         Indexes(Pointers, index, arrived)',
         activeTrie' \subseteq Pointers', passive' \subseteq Pointers', passiveTrie' \subseteq Pointers',
         current' \subseteq Pointers', Cardinality(current') <= 1, doomed' \subseteq Pointers',
         visited' \in Seq(Pointers')
  PROVE  ContainerTypeOK'
<1>1. mode' \in Modes
    BY DEF ContainerInv, ContainerTypeOK
<1> QED BY <1>1 DEF ContainerTypeOK, Indexes

\* No clause, or one, is selected.
LEMMA OneSelected == Cardinality({}) <= 1 /\ \A p : Cardinality({p}) <= 1
BY FS_EmptySet, FS_Singleton

\* A clause comes into Passive.
LEMMA PushBackPreserves ==
  ASSUME ContainerInv, NEW lits \in Inputs, PushBack(lits)
  PROVE  ContainerInv'
<1> DEFINE new == Clause(lits)
<1>1. /\ pc' = pc /\ pc = "idle" /\ made' = made + 1 /\ made < MaxClauses
      /\ UNCHANGED <<mode, index, activeTrie, arrived, current, doomed, selector, visited>>
      /\ \/ passive' = passive /\ passiveTrie' = passiveTrie
         \/ passive' = insertSet(new) /\ passiveTrie' = passiveTrie \cup {new}
    BY Zenon DEF PushBack, activeVars, passiveVars, walkVars
<1>2. made \in Nat /\ MaxClauses \in Nat
    BY ContainerAssumption DEF ContainerAssumption, ContainerInv, KInv
<1>3. Pointers \subseteq Pointers' /\ new \in Pointers' /\ new \notin Pointers
    BY <1>1, <1>2, NewPointer
<1> HIDE DEF new
<1>4. insertSet(new) \in {passive, passive \cup {new}}
    BY Zenon DEF insertSet
<1>5. KInv'
    BY PushBackKeeps DEF ContainerInv
<1>6. /\ ToSet(arrived) \subseteq Pointers /\ current \subseteq Pointers
      /\ passive \subseteq Pointers /\ passiveTrie \subseteq Pointers
    BY ElementsIn DEF ContainerInv, ContainerTypeOK, Indexes
<1>7. Indexes(Pointers, index, arrived)'
    <2>1. Indexes(Pointers', index, arrived)
        BY <1>3, IndexesGrow DEF ContainerInv
    <2> QED BY <1>1, <2>1 DEF Indexes, Vector
<1>8. ContainerTypeOK'
    <2>1. made' \in 0 .. MaxClauses
        BY <1>1, <1>2
    <2>2. visited' \in Seq(Pointers')
        BY <1>1, <1>3, SeqMonotonic DEF ContainerInv, ContainerTypeOK
    <2>3. passive' \subseteq Pointers' /\ passiveTrie' \subseteq Pointers'
        BY <1>1, <1>3, <1>4, <1>6
    <2>4. /\ activeTrie' \subseteq Pointers' /\ current' \subseteq Pointers' /\ doomed' \subseteq Pointers'
          /\ Cardinality(current') <= 1 /\ selector' \in Selectors
        BY <1>1, <1>3 DEF ContainerInv, ContainerTypeOK
    <2> QED BY <1>1, <1>2, <1>3, <1>7, <2>1, <2>2, <2>3, <2>4, TypeGrows
<1>9. IsFiniteSet(passive')
    BY <1>1, <1>4, FS_AddElement DEF ContainerInv
<1>10. InOrder'
    <2>1. CASE passive' = passive
        BY <2>1 DEF InOrder, ContainerInv, passiveLess, leading
    <2>2. CASE passive' # passive
        <3>1. \A q \in passive : passiveLess(new, q) \/ passiveLess(q, new)
            BY <1>1, <2>2 DEF insertSet
        <3>2. passive' = passive \cup {new}
            BY <1>1, <1>4, <2>2
        <3> QED BY <3>1, <3>2 DEF InOrder, ContainerInv, passiveLess, leading
    <2> QED BY <2>1, <2>2
<1>11. Apart'
    BY <1>1, <1>3, <1>6 DEF Apart, ContainerInv
<1>12. (/\ activeTrie \cup doomed = ToSet(arrived) /\ activeTrie \cap doomed = {}
        /\ pc # "removing" => doomed = {})'
    BY <1>1 DEF ContainerInv
<1>13. WalkInv'
    BY <1>1 DEF WalkInv
<1> QED BY <1>5, <1>7, <1>8, <1>9, <1>10, <1>11, <1>12, <1>13 DEF ContainerInv

\* A clause goes straight into Active.
LEMMA ToFirstPreserves ==
  ASSUME ContainerInv, NEW lits \in Inputs, ToFirst(lits)
  PROVE  ContainerInv'
<1> DEFINE new == Clause(lits)
<1>1. /\ pc' = pc /\ pc = "idle" /\ made' = made + 1 /\ made < MaxClauses
      /\ UNCHANGED <<mode, passive, passiveTrie, current, doomed, selector, visited>>
      /\ index' = insertIndex(new) /\ activeTrie' = activeTrie \cup {new}
      /\ arrived' = Append(arrived, new)
    BY Zenon DEF ToFirst, activate, passiveVars, walkVars
<1>2. made \in Nat /\ MaxClauses \in Nat
    BY ContainerAssumption DEF ContainerAssumption, ContainerInv, KInv
<1>3. /\ Pointers \subseteq Pointers' /\ new \in Pointers' /\ new \notin Pointers
      /\ leading(new) \in AllKeys
    BY <1>1, <1>2, NewPointer
<1> HIDE DEF new
<1>4. KInv'
    BY ToFirstKeeps DEF ContainerInv
<1>5. /\ ToSet(arrived) \subseteq Pointers /\ current \subseteq Pointers /\ doomed \subseteq Pointers
      /\ passive \subseteq Pointers /\ passiveTrie \subseteq Pointers /\ activeTrie \subseteq Pointers
    BY ElementsIn DEF ContainerInv, ContainerTypeOK, Indexes
<1>6. Indexes(Pointers, index, arrived)'
    <2>1. Indexes(Pointers', index, arrived)
        BY <1>3, IndexesGrow DEF ContainerInv
    <2>2. Indexes(Pointers', insertIndex(new), Append(arrived, new))
        BY <1>3, <1>5, <2>1, InsertIndexes
    <2> QED BY <1>1, <2>2 DEF Indexes, Vector
<1>7. ContainerTypeOK'
    <2>1. made' \in 0 .. MaxClauses
        BY <1>1, <1>2
    <2>2. visited' \in Seq(Pointers')
        BY <1>1, <1>3, SeqMonotonic DEF ContainerInv, ContainerTypeOK
    <2>3. /\ activeTrie' \subseteq Pointers' /\ current' \subseteq Pointers' /\ doomed' \subseteq Pointers'
          /\ passive' \subseteq Pointers' /\ passiveTrie' \subseteq Pointers'
        BY <1>1, <1>3, <1>5
    <2>4. Cardinality(current') <= 1 /\ selector' \in Selectors
        BY <1>1 DEF ContainerInv, ContainerTypeOK
    <2> QED BY <1>1, <1>2, <1>3, <1>6, <2>1, <2>2, <2>3, <2>4, TypeGrows
<1>8. ToSet(arrived') = ToSet(arrived) \cup {new}
    <2>1. arrived \in Seq(Pointers') /\ IsInjective(arrived)
        BY <1>3, IndexesGrow DEF ContainerInv, Indexes
    <2> QED BY <1>1, <1>3, <1>5, <2>1, AppendParts
<1>9. IsFiniteSet(passive') /\ InOrder'
    BY <1>1 DEF InOrder, ContainerInv, passiveLess, leading
<1>10. Apart'
    BY <1>1, <1>3, <1>5, <1>8 DEF Apart, ContainerInv
<1>11. (/\ activeTrie \cup doomed = ToSet(arrived) /\ activeTrie \cap doomed = {}
        /\ pc # "removing" => doomed = {})'
    BY <1>1, <1>3, <1>5, <1>8 DEF ContainerInv
<1>12. WalkInv'
    BY <1>1 DEF WalkInv
<1> QED BY <1>4, <1>6, <1>7, <1>9, <1>10, <1>11, <1>12 DEF ContainerInv

\* As long as no clause is constructed the pointers are the same.
LEMMA SamePointers == made' = made => Pointers' = Pointers
BY DEF Pointers

\* An index that nobody touches stays one.
LEMMA IndexesStay ==
  ASSUME UNCHANGED <<made, index, arrived>>, Indexes(Pointers, index, arrived)
  PROVE  Indexes(Pointers, index, arrived)'
<1>1. Pointers' = Pointers
    BY SamePointers
<1> QED BY <1>1 DEF Indexes, Vector, Precedes

\* Steps that leave Active alone and are not of a walk.
LEMMA ActiveAlone ==
  ASSUME ContainerInv, KInv', UNCHANGED <<mode, made, index, activeTrie, arrived, selector, visited>>,
         pc' \in {"idle", "selected", "removing"}, doomed = {}, doomed' = {},
         passive' \subseteq passive, passiveTrie' \subseteq passiveTrie,
         current' \subseteq Pointers, Cardinality(current') <= 1,
         current' \cap (ToSet(arrived) \cup passiveTrie') = {}
  PROVE  ContainerInv'
<1>1. Pointers' = Pointers
    BY SamePointers
<1>2. made \in Nat /\ made' \in 0 .. MaxClauses
    BY DEF ContainerInv, KInv, ContainerTypeOK
<1>3. Indexes(Pointers, index, arrived)'
    BY IndexesStay DEF ContainerInv
<1>4. ContainerTypeOK'
    <2>1. /\ activeTrie' \subseteq Pointers' /\ passive' \subseteq Pointers' /\ passiveTrie' \subseteq Pointers'
          /\ doomed' \subseteq Pointers' /\ current' \subseteq Pointers'
          /\ visited' \in Seq(Pointers') /\ selector' \in Selectors
        BY <1>1 DEF ContainerInv, ContainerTypeOK
    <2> QED BY <1>1, <1>2, <1>3, <2>1, TypeGrows
<1>5. IsFiniteSet(passive')
    BY FS_Subset DEF ContainerInv
<1>6. InOrder'
    BY DEF InOrder, ContainerInv, passiveLess, leading
<1>7. Apart'
    BY DEF Apart, ContainerInv
<1>8. (/\ activeTrie \cup doomed = ToSet(arrived) /\ activeTrie \cap doomed = {}
       /\ pc # "removing" => doomed = {})'
    BY DEF ContainerInv
<1>9. WalkInv'
    BY DEF WalkInv
<1> QED BY <1>3, <1>4, <1>5, <1>6, <1>7, <1>8, <1>9 DEF ContainerInv

\* The first clause of Passive is selected.
LEMMA SelectPreserves == ContainerInv /\ Select => ContainerInv'
<1> SUFFICES ASSUME ContainerInv, Select PROVE ContainerInv'
    OBVIOUS
<1>1. /\ pc = "idle" /\ pc' = "selected"
      /\ UNCHANGED <<mode, made, index, activeTrie, arrived, doomed, selector, visited>>
      /\ current' = setBegin /\ passive' = passive \ setBegin /\ passiveTrie' = passiveTrie \ setBegin
      /\ passive # {}
    BY Zenon DEF Select, activeVars, walkVars
<1>2. KInv'
    BY SelectKeeps DEF ContainerInv
<1>3. Walkable /\ doomed = {}
    BY <1>1, ContainerWalkable DEF ContainerInv
<1>4. PICK p \in passive : setBegin = {p}
    BY <1>1, <1>3, FirstClause DEF Walkable, InOrder, setBegin
<1>5. Cardinality(current') <= 1 /\ current' \subseteq Pointers
    BY <1>1, <1>3, <1>4, OneSelected DEF Walkable
<1>6. current' \cap (ToSet(arrived) \cup passiveTrie') = {}
    BY <1>1, <1>4 DEF ContainerInv, Apart, KInv, PassiveKeeps
<1> QED BY <1>1, <1>2, <1>3, <1>5, <1>6, ActiveAlone

\* A subsumed clause goes.
LEMMA DiscardPreserves ==
  ASSUME ContainerInv, NEW p \in current, Discard(p)
  PROVE  ContainerInv'
<1>1. /\ pc = "selected" /\ pc' = "idle" /\ current' = {}
      /\ UNCHANGED <<mode, made, index, activeTrie, arrived, doomed, passive, passiveTrie, selector, visited>>
    BY Zenon DEF Discard, activeVars, passiveVars, walkVars
<1>2. KInv'
    BY <1>1 DEF ContainerInv, KInv, IdsGiven, PassiveKeeps
<1>3. doomed = {}
    BY <1>1 DEF ContainerInv
<1> QED BY <1>1, <1>2, <1>3, OneSelected, ActiveAlone

\* Subsumed clauses leave the subsumption index and wait to leave the other.
LEMMA BackwardSubsumptionPreserves ==
  ASSUME ContainerInv, NEW p \in current, BackwardSubsumption(p)
  PROVE  ContainerInv'
<1>1. /\ pc = "selected" /\ pc' = "removing"
      /\ UNCHANGED <<mode, made, index, arrived, passive, passiveTrie, current, selector, visited>>
      /\ activeTrie' = activeTrie \ doomed' /\ doomed' \subseteq activeTrie
    BY DEF BackwardSubsumption, passiveVars, walkVars
<1>2. KInv'
    BY <1>1 DEF ContainerInv, KInv, IdsGiven, PassiveKeeps
<1>3. doomed = {} /\ activeTrie = ToSet(arrived)
    BY <1>1 DEF ContainerInv
<1>4. Pointers' = Pointers
    BY <1>1, SamePointers
<1>5. made \in Nat /\ made' \in 0 .. MaxClauses
    BY <1>1 DEF ContainerInv, KInv, ContainerTypeOK
<1>6. Indexes(Pointers, index, arrived)'
    BY <1>1, IndexesStay DEF ContainerInv
<1>7. ContainerTypeOK'
    <2>1. /\ activeTrie' \subseteq Pointers' /\ passive' \subseteq Pointers' /\ passiveTrie' \subseteq Pointers'
          /\ doomed' \subseteq Pointers' /\ current' \subseteq Pointers' /\ Cardinality(current') <= 1
          /\ visited' \in Seq(Pointers') /\ selector' \in Selectors
        BY <1>1, <1>4 DEF ContainerInv, ContainerTypeOK
    <2> QED BY <1>1, <1>4, <1>5, <1>6, <2>1, TypeGrows
<1>8. IsFiniteSet(passive') /\ InOrder'
    BY <1>1 DEF InOrder, ContainerInv, passiveLess, leading
<1>9. Apart'
    BY <1>1 DEF Apart, ContainerInv
<1>10. (/\ activeTrie \cup doomed = ToSet(arrived) /\ activeTrie \cap doomed = {}
        /\ pc # "removing" => doomed = {})'
    BY <1>1, <1>3
<1>11. WalkInv'
    BY <1>1 DEF WalkInv
<1> QED BY <1>2, <1>6, <1>7, <1>8, <1>9, <1>10, <1>11 DEF ContainerInv

\* One of them leaves the resolution index.
LEMMA RemoveDoomedPreserves ==
  ASSUME ContainerInv, NEW d \in doomed, RemoveDoomed(d)
  PROVE  ContainerInv'
<1>1. /\ pc = "removing" /\ pc' = pc
      /\ UNCHANGED <<mode, made, activeTrie, passive, passiveTrie, current, selector, visited>>
      /\ index' = removeIndex(d) /\ doomed' = doomed \ {d} /\ arrived' = RemoveFirst(arrived, d)
    BY Zenon DEF RemoveDoomed, passiveVars, walkVars
<1>2. KInv'
    BY <1>1 DEF ContainerInv, KInv, IdsGiven, PassiveKeeps
<1>3. Pointers' = Pointers
    BY <1>1, SamePointers
<1>4. made \in Nat /\ made' \in 0 .. MaxClauses
    BY <1>1 DEF ContainerInv, KInv, ContainerTypeOK
<1>5. d \in ToSet(arrived) /\ d \in Pointers
    BY DEF ContainerInv, ContainerTypeOK
<1>6. leading(d) \in AllKeys
    BY <1>4, <1>5, PointerParts
<1>7. Indexes(Pointers, index, arrived)'
    <2>1. Indexes(Pointers, removeIndex(d), RemoveFirst(arrived, d))
        BY <1>5, <1>6, RemoveIndexes DEF ContainerInv
    <2> QED BY <1>1, <1>3, <2>1 DEF Indexes, Vector
<1>8. ContainerTypeOK'
    <2>1. /\ activeTrie' \subseteq Pointers' /\ passive' \subseteq Pointers' /\ passiveTrie' \subseteq Pointers'
          /\ doomed' \subseteq Pointers' /\ current' \subseteq Pointers' /\ Cardinality(current') <= 1
          /\ visited' \in Seq(Pointers') /\ selector' \in Selectors
        BY <1>1, <1>3 DEF ContainerInv, ContainerTypeOK
    <2> QED BY <1>1, <1>3, <1>4, <1>7, <2>1, TypeGrows DEF ContainerInv, ContainerTypeOK
<1>9. ToSet(arrived') = ToSet(arrived) \ {d}
    BY <1>1, <1>5, RemoveFirstParts DEF ContainerInv, Indexes
<1>10. IsFiniteSet(passive') /\ InOrder'
    BY <1>1 DEF InOrder, ContainerInv, passiveLess, leading
<1>11. Apart'
    BY <1>1, <1>9 DEF Apart, ContainerInv
<1>12. (/\ activeTrie \cup doomed = ToSet(arrived) /\ activeTrie \cap doomed = {}
        /\ pc # "removing" => doomed = {})'
    <2>1. d \notin activeTrie
        BY DEF ContainerInv
    <2> QED BY <1>1, <1>9, <2>1 DEF ContainerInv
<1>13. WalkInv'
    BY <1>1 DEF WalkInv
<1> QED BY <1>2, <1>7, <1>8, <1>10, <1>11, <1>12, <1>13 DEF ContainerInv

\* The selected clause comes into Active.
LEMMA ActivatePreserves ==
  ASSUME ContainerInv, NEW p \in current, Activate(p)
  PROVE  ContainerInv'
<1>1. /\ pc = "removing" /\ pc' = "idle" /\ doomed = {} /\ current = {p} /\ current' = {}
      /\ UNCHANGED <<mode, made, passive, passiveTrie, doomed, selector, visited>>
      /\ index' = insertIndex(p) /\ activeTrie' = activeTrie \cup {p}
      /\ arrived' = Append(arrived, p)
    BY Zenon DEF Activate, activate, passiveVars, walkVars
<1>2. KInv'
    BY <1>1 DEF ContainerInv, KInv, IdsGiven, PassiveKeeps
<1>3. Pointers' = Pointers
    BY <1>1, SamePointers
<1>4. made \in Nat /\ made' \in 0 .. MaxClauses
    BY <1>1 DEF ContainerInv, KInv, ContainerTypeOK
<1>5. p \in Pointers /\ p \notin ToSet(arrived) /\ p \notin passiveTrie
    BY DEF ContainerInv, ContainerTypeOK, Apart
<1>6. leading(p) \in AllKeys
    BY <1>4, <1>5, PointerParts
<1>7. Indexes(Pointers, index, arrived)'
    <2>1. Indexes(Pointers, insertIndex(p), Append(arrived, p))
        BY <1>5, <1>6, InsertIndexes DEF ContainerInv
    <2> QED BY <1>1, <1>3, <2>1 DEF Indexes, Vector
<1>8. ContainerTypeOK'
    <2>1. /\ activeTrie' \subseteq Pointers' /\ passive' \subseteq Pointers' /\ passiveTrie' \subseteq Pointers'
          /\ doomed' \subseteq Pointers' /\ current' \subseteq Pointers' /\ Cardinality(current') <= 1
          /\ visited' \in Seq(Pointers') /\ selector' \in Selectors
        BY <1>1, <1>3, <1>5, OneSelected DEF ContainerInv, ContainerTypeOK
    <2> QED BY <1>1, <1>3, <1>4, <1>7, <2>1, TypeGrows
<1>9. ToSet(arrived') = ToSet(arrived) \cup {p}
    BY <1>1, <1>5, AppendParts DEF ContainerInv, Indexes
<1>10. IsFiniteSet(passive') /\ InOrder'
    BY <1>1 DEF InOrder, ContainerInv, passiveLess, leading
<1>11. Apart'
    BY <1>1, <1>5, <1>9 DEF Apart, ContainerInv
<1>12. (/\ activeTrie \cup doomed = ToSet(arrived) /\ activeTrie \cap doomed = {}
        /\ pc # "removing" => doomed = {})'
    BY <1>1, <1>9 DEF ContainerInv
<1>13. WalkInv'
    BY <1>1 DEF WalkInv
<1> QED BY <1>2, <1>7, <1>8, <1>10, <1>11, <1>12, <1>13 DEF ContainerInv

\* Walks change nothing of what positions are in.
LEMMA Steady ==
  ASSUME UNCHANGED <<made, index, activeTrie, arrived, passive>>
  PROVE  /\ Position(at)' <=> Position(at')
         /\ Passed(at)' = Passed(at')
         /\ \A p, q : earlier(p, q)' <=> earlier(p, q)
<1>1. \A p, q : earlier(p, q)' <=> earlier(p, q)
    BY DEF earlier, passiveLess, leading, Precedes
<1>2. Position(at)' <=> Position(at')
    BY DEF Position, Iterators, Pointers
<1>3. Passed(at)' = Passed(at')
    <2>1. deref(at)' = deref(at') /\ (Ended(at)' <=> Ended(at')) /\ Holding' = Holding
        BY DEF deref, Ended, Holding
    <2> QED BY <1>1, <2>1 DEF Passed
<1> QED BY <1>1, <1>2, <1>3

\* Steps of a walk, and its two ends.
LEMMA SetAlone ==
  ASSUME ContainerInv, WalkInv',
         UNCHANGED <<mode, made, index, activeTrie, arrived, passive, passiveTrie, current, doomed>>,
         pc' = pc \/ (pc \in {"idle", "walking"} /\ pc' \in {"idle", "walking"}), selector' \in Selectors,
         visited' \in Seq(Pointers)
  PROVE  ContainerInv'
<1>1. Pointers' = Pointers
    BY SamePointers
<1>2. KInv'
    BY DEF ContainerInv, KInv, IdsGiven, PassiveKeeps
<1>3. made \in Nat /\ made' \in 0 .. MaxClauses
    BY DEF ContainerInv, KInv, ContainerTypeOK
<1>4. Indexes(Pointers, index, arrived)'
    BY IndexesStay DEF ContainerInv
<1>5. ContainerTypeOK'
    <2>1. /\ activeTrie' \subseteq Pointers' /\ passive' \subseteq Pointers' /\ passiveTrie' \subseteq Pointers'
          /\ doomed' \subseteq Pointers' /\ current' \subseteq Pointers' /\ Cardinality(current') <= 1
        BY <1>1 DEF ContainerInv, ContainerTypeOK
    <2>2. pc' \in {"idle", "selected", "removing", "walking"}
        BY DEF ContainerInv, ContainerTypeOK
    <2> QED BY <1>1, <1>3, <1>4, <2>1, <2>2, TypeGrows
<1>6. IsFiniteSet(passive') /\ InOrder'
    BY DEF InOrder, ContainerInv, passiveLess, leading
<1>7. Apart'
    BY DEF Apart, ContainerInv
<1>8. (/\ activeTrie \cup doomed = ToSet(arrived) /\ activeTrie \cap doomed = {}
       /\ pc # "removing" => doomed = {})'
    BY DEF ContainerInv
<1> QED BY <1>2, <1>4, <1>5, <1>6, <1>7, <1>8 DEF ContainerInv

\* A walk sets out.
LEMMA WalkPreserves ==
  ASSUME ContainerInv, NEW s \in Selectors, Walk(s)
  PROVE  ContainerInv'
<1>1. /\ pc = "idle" /\ pc' = "walking" /\ selector' = s /\ visited' = <<>>
      /\ UNCHANGED <<mode, made, index, activeTrie, arrived, passive, passiveTrie, current, doomed>>
    BY Zenon DEF Walk, activeVars, passiveVars
<1>2. PICK i \in beginnings : at' = started(i) /\ last' = endOf(i)
    BY Zenon DEF Walk
<1>3. Walkable
    BY <1>1, ContainerWalkable
<1>4. Position(at') /\ Passed(at') = {} /\ last'.second = {}
    BY Zenon, <1>2, <1>3, WalkBegins
<1>5. (ToSet(visited) = {p \in Passed(at) : selects(p)})'
    BY <1>1, <1>4, Steady DEF ToSet
<1>6. WalkInv'
    BY <1>1, <1>4, <1>5, Steady DEF WalkInv
<1> QED BY <1>1, <1>6, SetAlone, EmptySeq

\* What holds of a position in the middle of a walk.
LEMMA MiddleOfWalk ==
  ASSUME ContainerInv, pc = "walking"
  PROVE  /\ Walkable /\ Position(at) /\ (atEnd <=> Ended(at))
         /\ ToSet(visited) = {p \in Passed(at) : selects(p)}
         /\ \A i, j \in DOMAIN visited : i < j => earlier(visited[i], visited[j])
         /\ ~ atEnd => /\ deref(at) \in Holding \ Passed(at) /\ deref(at) \in Pointers
                       /\ Position(advanced(at)) /\ Passed(advanced(at)) = Passed(at) \cup {deref(at)}
<1>1. Walkable
    BY ContainerWalkable
<1>2. /\ Position(at) /\ last.second = {}
      /\ ToSet(visited) = {p \in Passed(at) : selects(p)}
      /\ \A i, j \in DOMAIN visited : i < j => earlier(visited[i], visited[j])
    BY DEF ContainerInv, WalkInv
<1>3. atEnd <=> Ended(at)
    BY <1>2 DEF atEnd, Ended
<1>4. Holding \subseteq Pointers
    BY DEF Holding, ContainerInv, ContainerTypeOK
<1>5. ASSUME ~ Ended(at)
      PROVE  /\ deref(at) \in Holding \ Passed(at)
             /\ Position(advanced(at)) /\ Passed(advanced(at)) = Passed(at) \cup {deref(at)}
    <2>1. CASE at.first
        BY <1>1, <1>2, <2>1, WalkAdvancesFirst
    <2>2. CASE ~ at.first
        BY <1>1, <1>2, <1>5, <2>2, WalkAdvancesSecond
    <2> QED BY <2>1, <2>2
<1> QED BY <1>1, <1>2, <1>3, <1>4, <1>5

\* The filter passes over a clause.
LEMMA SatisfyPreserves == ContainerInv /\ Satisfy => ContainerInv'
<1> SUFFICES ASSUME ContainerInv, Satisfy PROVE ContainerInv'
    OBVIOUS
<1>1. /\ pc = "walking" /\ pc' = pc /\ ~ atEnd /\ ~ selects(deref(at)) /\ at' = advanced(at)
      /\ UNCHANGED <<mode, made, index, activeTrie, arrived, passive, passiveTrie, current, doomed,
                     last, selector, visited>>
    BY Zenon DEF Satisfy, activeVars, passiveVars
<1>2. /\ Position(at') /\ Passed(at') = Passed(at) \cup {deref(at)}
      /\ ToSet(visited) = {p \in Passed(at) : selects(p)}
      /\ \A i, j \in DOMAIN visited : i < j => earlier(visited[i], visited[j])
      /\ last.second = {}
    BY <1>1, MiddleOfWalk DEF ContainerInv, WalkInv
<1>3. (ToSet(visited) = {p \in Passed(at) : selects(p)})'
    <2>1. ToSet(visited) = {p \in Passed(at') : selects(p)}
        BY <1>1, <1>2
    <2>2. \A p : selects(p)' <=> selects(p)
        BY <1>1 DEF selects
    <2>3. ToSet(visited)' = ToSet(visited)
        BY <1>1
    <2> QED BY <1>1, <2>1, <2>2, <2>3, Steady
<1>4. WalkInv'
    BY <1>1, <1>2, <1>3, Steady DEF WalkInv
<1>5. visited' \in Seq(Pointers) /\ selector' \in Selectors
    BY <1>1 DEF ContainerInv, ContainerTypeOK
<1> QED BY <1>1, <1>4, <1>5, SetAlone

\* The user comes to a clause.
LEMMA VisitPreserves == ContainerInv /\ Visit => ContainerInv'
<1> SUFFICES ASSUME ContainerInv, Visit PROVE ContainerInv'
    OBVIOUS
<1> DEFINE p == deref(at)
<1>1. /\ pc = "walking" /\ pc' = pc /\ ~ atEnd /\ selects(p) /\ at' = advanced(at)
      /\ visited' = Append(visited, p)
      /\ UNCHANGED <<mode, made, index, activeTrie, arrived, passive, passiveTrie, current, doomed,
                     last, selector>>
    BY Zenon DEF Visit, activeVars, passiveVars
<1>2. /\ Position(at') /\ Passed(at') = Passed(at) \cup {p} /\ ~ Ended(at)
      /\ ToSet(visited) = {r \in Passed(at) : selects(r)}
      /\ \A i, j \in DOMAIN visited : i < j => earlier(visited[i], visited[j])
      /\ last.second = {} /\ p \in Pointers
    BY <1>1, MiddleOfWalk DEF ContainerInv, WalkInv
<1>3. /\ visited \in Seq(Pointers) /\ selector \in Selectors
      /\ visited' \in Seq(Pointers) /\ selector' \in Selectors
    BY <1>1, <1>2 DEF ContainerInv, ContainerTypeOK
<1>4. \A r \in ToSet(visited) : earlier(r, p)
    BY <1>2 DEF Passed
<1> HIDE DEF p
<1> DEFINE n == Len(visited)
           v == visited'
<1>5. /\ n \in Nat /\ DOMAIN visited = 1 .. n /\ DOMAIN v = 1 .. (n + 1)
      /\ \A i \in 1 .. n : v[i] = visited[i] /\ visited[i] \in ToSet(visited)
      /\ v[n + 1] = p
    BY <1>1, <1>3 DEF ToSet
<1> HIDE DEF n, v
<1>6. \A i \in 1 .. (n + 1) : i \in 1 .. n \/ i = n + 1
    BY <1>5
<1>7. ToSet(v) = ToSet(visited) \cup {p}
    BY <1>5, <1>6 DEF ToSet
<1>8. ASSUME NEW i \in DOMAIN v, NEW j \in DOMAIN v, i < j
      PROVE  earlier(v[i], v[j])
    <2>1. i \in 1 .. n
        BY <1>5, <1>8
    <2>2. CASE j \in 1 .. n
        BY <1>2, <1>5, <1>8, <2>1, <2>2
    <2>3. CASE j = n + 1
        BY <1>4, <1>5, <2>1, <2>3
    <2> QED BY <1>5, <1>6, <2>2, <2>3
<1>9. (ToSet(visited) = {r \in Passed(at) : selects(r)})'
    <2>1. ToSet(v) = {r \in Passed(at') : selects(r)}
        BY <1>1, <1>2, <1>7
    <2>2. \A r : selects(r)' <=> selects(r)
        BY <1>1 DEF selects
    <2> QED BY <1>1, <2>1, <2>2, Steady DEF v, ToSet
<1>10. WalkInv'
    BY <1>1, <1>2, <1>8, <1>9, Steady DEF WalkInv, v
<1> QED BY <1>1, <1>3, <1>10, SetAlone

\* A walk is over.
LEMMA EndWalkPreserves == ContainerInv /\ EndWalk => ContainerInv'
<1> SUFFICES ASSUME ContainerInv, EndWalk PROVE ContainerInv'
    OBVIOUS
<1>1. /\ pc = "walking" /\ pc' = "idle" /\ visited' = <<>>
      /\ UNCHANGED <<mode, made, index, activeTrie, arrived, passive, passiveTrie, current, doomed,
                     selector>>
    BY Zenon DEF EndWalk, activeVars, passiveVars
<1>2. WalkInv' /\ selector' \in Selectors
    BY <1>1 DEF WalkInv, ContainerInv, ContainerTypeOK
<1> QED BY <1>1, <1>2, SetAlone, EmptySeq

\* Every step preserves the invariant of the clause set.
LEMMA NextPreserves == ContainerInv /\ [Next]_vars => ContainerInv'
<1> SUFFICES ASSUME ContainerInv, [Next]_vars PROVE ContainerInv'
    OBVIOUS
<1>1. ASSUME NEW lits \in Inputs, PushBack(lits) \/ ToFirst(lits) PROVE ContainerInv'
    BY <1>1, PushBackPreserves, ToFirstPreserves
<1>2. CASE Select
    BY <1>2, SelectPreserves
<1>3. ASSUME NEW p \in current, Discard(p) \/ BackwardSubsumption(p) \/ Activate(p) PROVE ContainerInv'
    BY <1>3, DiscardPreserves, BackwardSubsumptionPreserves, ActivatePreserves
<1>4. ASSUME NEW d \in doomed, RemoveDoomed(d) PROVE ContainerInv'
    BY <1>4, RemoveDoomedPreserves
<1>5. ASSUME NEW s \in Selectors, Walk(s) PROVE ContainerInv'
    BY <1>5, WalkPreserves
<1>6. CASE Satisfy \/ Visit \/ EndWalk
    BY <1>6, SatisfyPreserves, VisitPreserves, EndWalkPreserves
<1>7. CASE UNCHANGED vars
    <2>1. /\ UNCHANGED <<mode, made, index, activeTrie, arrived, passive, passiveTrie, current, doomed>>
          /\ UNCHANGED <<pc, at, last, selector, visited>>
        BY Zenon, <1>7 DEF vars, activeVars, passiveVars, walkVars
    <2>2. WalkInv'
        BY <2>1, Steady DEF ContainerInv, WalkInv, selects
    <2>3. visited' \in Seq(Pointers) /\ selector' \in Selectors
        BY <2>1 DEF ContainerInv, ContainerTypeOK
    <2> QED BY <2>1, <2>2, <2>3, SetAlone
<1> QED BY <1>1, <1>2, <1>3, <1>4, <1>5, <1>6, <1>7 DEF Next

-----------------------------------------------------------------------------
(***************************************************************************)
(* The theorems.                                                           *)
(***************************************************************************)
\* However many clauses come and go, and also after the ids have wrapped, the
\* two indexes of Active agree, and no vector of the resolution index is
\* empty, out of order or holds a clause twice.
THEOREM ActiveStaysConsistent == Spec => []ActiveConsistent
<1> QED BY InitContainer, NextPreserves, ContainerConsistent, PTL DEF Spec

\* Every walk with the nested iterators comes to each clause of the set that
\* its filter lets through once, in their order, and dereferences no end,
\* whatever the ends of an empty map are read from.
THEOREM WalksExactly == Spec => []WalkExact
<1>1. ContainerInv => WalkExact
    <2> SUFFICES ASSUME ContainerInv, pc = "walking" PROVE WalkExact
        BY DEF WalkExact
    <2>1. /\ Walkable /\ Position(at) /\ (atEnd <=> Ended(at))
          /\ ToSet(visited) = {p \in Passed(at) : selects(p)}
          /\ \A i, j \in DOMAIN visited : i < j => earlier(visited[i], visited[j])
        BY MiddleOfWalk
    <2>2. ASSUME ~ atEnd PROVE dereferenceable(at)
        <3>1. CASE at.first
            BY <2>1, <3>1 DEF Position, dereferenceable
        <3>2. CASE ~ at.first
            BY <2>1, <2>2, <3>2 DEF Position, dereferenceable, Ended
        <3> QED BY <3>1, <3>2
    <2>3. ToSet(visited) = {p \in activeTrie \cup passive : selects(p) /\ (atEnd \/ earlier(p, deref(at)))}
        BY <2>1 DEF Passed, Holding
    <2> QED BY <2>1, <2>2, <2>3 DEF WalkExact
<1> QED BY <1>1, InitContainer, NextPreserves, PTL DEF Spec
=============================================================================
