-------------------------- MODULE SortedClausesProofs --------------------------
(***************************************************************************)
(* For every set of propositions, every list and all clauses held: the     *)
(* algorithms on sorted vectors compute what TemporalClauses says of sets  *)
(* of literals, and what they put together is in order.                    *)
(***************************************************************************)
EXTENDS SortedClauses, OrderLemmas, SequenceTheorems

-----------------------------------------------------------------------------
(***************************************************************************)
(* Order.                                                                  *)
(***************************************************************************)
\* Literals among which the order of the code is one: step_next literals
\* are compared with step literals only.
Comparable(S) ==
  /\ S \subseteq Literals
  /\ \/ \A l \in S : l.attr # "step_next"
     \/ \A l \in S : l.attr \in {"step_now", "step_next"}

\* What the order leaves open.
SamePlace(k, l) == k.prop = l.prop /\ (k.attr = "step_next" <=> l.attr = "step_next")

\* It is a strict weak order.
LEMMA WeakOrder ==
  ASSUME NEW S, Comparable(S), NEW k \in S, NEW l \in S, NEW m \in S
  PROVE  /\ ~ LiteralLess(k, k)
         /\ LiteralLess(k, l) => ~ LiteralLess(l, k)
         /\ LiteralLess(k, l) /\ LiteralLess(l, m) => LiteralLess(k, m)
         /\ ~ LiteralLess(k, l) /\ ~ LiteralLess(l, m) => ~ LiteralLess(k, m)
         /\ ~ LiteralLess(k, l) /\ ~ LiteralLess(l, k) <=> SamePlace(k, l)
<1>1. k.prop \in Nat /\ l.prop \in Nat /\ m.prop \in Nat
    BY PropAssumption DEF Comparable, Literals
<1>2. \/ k.attr # "step_next" /\ l.attr # "step_next" /\ m.attr # "step_next"
      \/ {k.attr, l.attr, m.attr} \subseteq {"step_now", "step_next"}
    BY DEF Comparable
<1> QED BY <1>1, <1>2 DEF LiteralLess, SamePlace

\* The literals of a clause can be compared.
LEMMA OneKindComparable ==
  ASSUME NEW lits \in Clauses, OneKind(lits)
  PROVE  /\ Comparable(lits)
         /\ \A k, l \in lits : (k.attr = "step_next" <=> l.attr = "step_next") => k.attr = l.attr
<1>1. \/ \A l \in lits : l.attr = "initial"
      \/ \A l \in lits : l.attr = "universal"
      \/ \A l \in lits : l.attr \in {"step_now", "step_next"}
    BY DEF OneKind, AttributesOf
<1> QED BY <1>1 DEF Comparable, Clauses

\* In order from the greatest down, perhaps with neighbours in one place.
Sorted(s) == \A i, j \in 1 .. Len(s) : i < j => ~ LiteralLess(s[i], s[j])
Strict(s) == \A i, j \in 1 .. Len(s) : i < j => LiteralLess(s[j], s[i])

-----------------------------------------------------------------------------
(***************************************************************************)
(* The vector of a list.                                                   *)
(***************************************************************************)
\* s is what is kept of the first n literals of t.
KeptOf(s, t, n) ==
  /\ s \in Seq(Literals) /\ Sorted(s)
  /\ ToSet(s) = {t[j] : j \in 1 .. n}
  /\ s # <<>> => n > 0 /\ s[Len(s)] = t[n]
  /\ \A i \in 1 .. Len(s) - 1 : s[i] # s[i + 1]

Building ==
  task = "build" =>
    /\ mode \in Modes /\ list \in Lists /\ merged = <<>> /\ p \in Nat \ {0}
    /\ pc \in {"sort", "unique", "neighbours", "returned"}
    /\ pc = "sort" => c = <<>> /\ q = 1
    /\ pc # "sort" => d \in Seq(Literals) /\ ToSet(d) = ToSet(list) /\ Sorted(d)
    /\ pc \in {"sort", "unique"} => p = 1
    /\ pc # "returned" => result = FALSE
    /\ pc = "unique" => q \in 1 .. Len(d) + 1 /\ KeptOf(c, d, q - 1)
    /\ pc \in {"neighbours", "returned"} => KeptOf(c, d, Len(d))
    /\ pc = "neighbours" => \A i \in 1 .. Len(c) - 1 : i < p => ~ contrary(c[i], c[i + 1])
    /\ pc = "returned" =>
         (result <=> \A i \in 1 .. Len(c) - 1 : ~ contrary(c[i], c[i + 1])) /\ result \in BOOLEAN

\* A sorted list has the same literals, in order.
LEMMA SortsList ==
  ASSUME NEW s \in Seq(Literals), NEW t \in sortings(s)
  PROVE  t \in Seq(Literals) /\ ToSet(t) = ToSet(s) /\ Sorted(t)
<1> DEFINE n == Len(s)
<1>1. PICK f \in Bijection(1 .. n, 1 .. n) : t = [i \in 1 .. n |-> s[f[i]]]
    BY DEF sortings
<1>2. f \in [1 .. n -> 1 .. n] /\ \A j \in 1 .. n : \E i \in 1 .. n : f[i] = j
    BY <1>1 DEF Bijection, Injection, Surjection
<1>3. n \in Nat /\ \A i \in 1 .. n : s[i] \in Literals
    BY LenProperties, ElementOfSeq
<1>4. t \in [1 .. n -> Literals]
    BY <1>1, <1>2, <1>3
<1>5. t \in Seq(Literals) /\ Len(t) = n /\ DOMAIN t = 1 .. n /\ DOMAIN s = 1 .. n
    BY <1>3, <1>4, LenProperties
<1>6. \A i, j \in 1 .. n : i < j => ~ LiteralLess(t[i], t[j])
    BY DEF sortings
<1>7. ToSet(t) = ToSet(s)
    BY <1>1, <1>2, <1>5 DEF ToSet
<1> QED BY <1>5, <1>6, <1>7 DEF Sorted

\* Of the literals of one kind, those in one place are the same or contrary.
LEMMA KindPlaces ==
  ASSUME NEW S \in Clauses, OneKind(S), NEW m \in Modes
  PROVE  \A k, l \in S :
           /\ Key(k) = Key(l) /\ areEqual(m, k.attr, l.attr) <=> k = l
           /\ k.prop = l.prop /\ k.neg # l.neg /\ areEqual(m, k.attr, l.attr)
                <=> SamePlace(k, l) /\ k # l
<1>1. \/ \A l \in S : l.attr = "initial"
      \/ \A l \in S : l.attr = "universal"
      \/ \A l \in S : l.attr \in {"step_now", "step_next"}
    BY DEF OneKind, AttributesOf
<1>2. \A k, l \in S : areEqual(m, k.attr, l.attr) <=> k.attr = l.attr
    BY <1>1 DEF areEqual
<1>3. \A k, l \in S : (k.attr = "step_next" <=> l.attr = "step_next") <=> k.attr = l.attr
    BY <1>1
<1>4. \A k, l \in S : k = l <=> k.prop = l.prop /\ k.neg = l.neg /\ k.attr = l.attr
    BY DEF Clauses, Literals
<1>5. \A k, l \in S : Key(k) = Key(l) /\ areEqual(m, k.attr, l.attr) <=> k = l
    BY <1>2, <1>4 DEF Key
<1>6. \A k, l \in S : k.prop = l.prop /\ k.neg # l.neg /\ areEqual(m, k.attr, l.attr)
                        <=> SamePlace(k, l) /\ k # l
    BY <1>2, <1>3, <1>4 DEF SamePlace
<1> QED BY <1>5, <1>6

\* The literals of a list are of one kind.
LEMMA ListLiterals ==
  ASSUME NEW s \in Lists, NEW m \in Modes
  PROVE  /\ s \in Seq(Literals) /\ Comparable(ToSet(s))
         /\ \A k, l \in ToSet(s) :
              /\ Key(k) = Key(l) /\ areEqual(m, k.attr, l.attr) <=> k = l
              /\ k.prop = l.prop /\ k.neg # l.neg /\ areEqual(m, k.attr, l.attr)
                   <=> SamePlace(k, l) /\ k # l
<1>1. s \in Seq(Literals) /\ OneKind(ToSet(s))
    BY SortedAssumption DEF SortedAssumption
<1>2. ToSet(s) \in Clauses
    BY <1>1, ElementOfSeq, LenProperties DEF ToSet, Clauses
<1> QED BY <1>1, <1>2, OneKindComparable, KindPlaces

\* std::unique keeps one of each run of equal literals.
LEMMA DropKeeps ==
  ASSUME Building, task = "build", DropEqual
  PROVE  Building'
<1>1. /\ mode \in Modes /\ list \in Lists /\ merged = <<>> /\ pc = "unique" /\ p = 1 /\ result = FALSE
      /\ d \in Seq(Literals) /\ ToSet(d) = ToSet(list) /\ Sorted(d)
      /\ q \in 1 .. Len(d) + 1 /\ KeptOf(c, d, q - 1)
    BY DEF Building, DropEqual
<1>2. UNCHANGED <<mode, task, list, d, p, merged, result>>
    BY DEF DropEqual
<1>3. Len(d) \in Nat /\ DOMAIN d = 1 .. Len(d) /\ Len(c) \in Nat /\ DOMAIN c = 1 .. Len(c)
    BY <1>1 DEF KeptOf
<1>4. CASE q > Len(d)
    <2>1. c' = c /\ q' = q /\ pc' = "neighbours"
        BY <1>4 DEF DropEqual
    <2>2. q - 1 = Len(d)
        BY <1>1, <1>3, <1>4
    <2>3. KeptOf(c', d', Len(d'))
        BY <1>1, <1>2, <2>1, <2>2 DEF KeptOf
    <2>4. \A i \in 1 .. Len(c) - 1 : ~ i < 1
        BY <1>3
    <2>5. p' \in Nat \ {0}
        BY <1>1, <1>2
    <2> QED BY <1>1, <1>2, <2>1, <2>3, <2>4, <2>5 DEF Building
<1>5. CASE q <= Len(d)
    <2> DEFINE l == d[q]
               L == ToSet(list)
    <2>1. q' = q + 1 /\ pc' = "unique" /\ c' = (IF c # <<>> /\ sameLiteral(Last(c), l) THEN c ELSE Append(c, l))
        BY <1>1, <1>5 DEF DropEqual
    <2>2. \A j \in 1 .. Len(d) : d[j] \in L
        BY <1>1, <1>3 DEF ToSet
    <2>3. l \in L /\ l \in Literals /\ q \in 1 .. Len(d)
        BY <1>1, <1>3, <1>5, <2>2
    <2>4. q' \in 1 .. Len(d) + 1 /\ q' - 1 = q /\ 1 .. q = 1 .. (q - 1) \cup {q} /\ q > 0
        BY <1>1, <1>3, <1>5, <2>1
    <2>5. /\ c \in Seq(Literals) /\ Sorted(c) /\ ToSet(c) = {d[j] : j \in 1 .. q - 1}
          /\ c # <<>> => q - 1 > 0 /\ c[Len(c)] = d[q - 1]
          /\ \A i \in 1 .. Len(c) - 1 : c[i] # c[i + 1]
        BY <1>1 DEF KeptOf
    <2>6. \A j \in 1 .. q - 1 : j \in 1 .. Len(d) /\ j < q
        BY <1>1, <1>3, <1>5
    <2>7. \A i \in 1 .. Len(c) : c[i] \in L /\ ~ LiteralLess(c[i], l)
        <3> SUFFICES ASSUME NEW i \in 1 .. Len(c) PROVE c[i] \in L /\ ~ LiteralLess(c[i], l)
            OBVIOUS
        <3>1. c[i] \in ToSet(c)
            BY <1>3 DEF ToSet
        <3>2. PICK j \in 1 .. q - 1 : c[i] = d[j]
            BY <2>5, <3>1
        <3>3. ~ LiteralLess(d[j], d[q])
            BY <1>1, <2>3, <2>6 DEF Sorted
        <3> QED BY <2>2, <2>6, <3>2, <3>3
    <2>8. c # <<>> => Len(c) \in 1 .. Len(c) /\ Last(c) = c[Len(c)] /\ (sameLiteral(Last(c), l) <=> c[Len(c)] = l)
        <3> SUFFICES ASSUME c # <<>>
                     PROVE  Len(c) \in 1 .. Len(c) /\ Last(c) = c[Len(c)] /\ (sameLiteral(Last(c), l) <=> c[Len(c)] = l)
            OBVIOUS
        <3>1. Len(c) \in 1 .. Len(c)
            BY <2>5, EmptySeq
        <3>2. c[Len(c)] \in L
            BY <2>7, <3>1
        <3>3. Last(c) = c[Len(c)]
            BY DEF Last
        <3> HIDE DEF l, L
        <3>4. sameLiteral(c[Len(c)], l) <=> c[Len(c)] = l
            BY <1>1, <2>3, <3>2, ListLiterals DEF L, sameLiteral
        <3> QED BY <3>1, <3>3, <3>4
    <2>9. {d[j] : j \in 1 .. q} = ToSet(c) \cup {l}
        BY <2>4, <2>5
    <2>10. CASE c # <<>> /\ sameLiteral(Last(c), l)
        <3>1. c' = c /\ c[Len(c)] = l
            BY <2>1, <2>8, <2>10
        <3>2. ToSet(c) = {d[j] : j \in 1 .. q}
            <4>1. l \in ToSet(c)
                BY <1>3, <2>8, <2>10, <3>1 DEF ToSet
            <4> QED BY <2>9, <4>1
        <3>3. KeptOf(c', d', q' - 1)
            <4>1. KeptOf(c, d, q)
                BY <2>4, <2>5, <3>1, <3>2 DEF KeptOf
            <4> QED BY <1>2, <2>4, <3>1, <4>1 DEF KeptOf
        <3> QED BY <1>1, <1>2, <2>1, <2>4, <3>3 DEF Building
    <2>11. CASE ~ (c # <<>> /\ sameLiteral(Last(c), l))
        <3> DEFINE e == Append(c, l)
                   n == Len(c)
        <3>1. c' = e
            BY <2>1, <2>11
        <3>2. /\ e \in Seq(Literals) /\ Len(e) = n + 1 /\ e[n + 1] = l
              /\ \A i \in 1 .. n : e[i] = c[i]
            BY <2>3, <2>5, AppendProperties
        <3>3. n \in Nat /\ 1 .. n + 1 = 1 .. n \cup {n + 1} /\ DOMAIN c = 1 .. n /\ DOMAIN e = 1 .. n + 1
            BY <1>3, <3>2
        <3> HIDE DEF e, n
        <3>4. ToSet(e) = ToSet(c) \cup {l}
            BY <3>2, <3>3 DEF ToSet
        <3>5. Sorted(e)
            <4> SUFFICES ASSUME NEW i \in 1 .. n + 1, NEW j \in 1 .. n + 1, i < j
                         PROVE  ~ LiteralLess(e[i], e[j])
                BY <3>2 DEF Sorted
            <4>1. i \in 1 .. n
                BY <3>3
            <4>2. CASE j \in 1 .. n
                BY <2>5, <3>2, <4>1, <4>2 DEF Sorted, n
            <4>3. CASE j = n + 1
                BY <2>7, <3>2, <4>1, <4>3 DEF n
            <4> QED BY <3>3, <4>2, <4>3
        <3>6. \A i \in 1 .. (n + 1) - 1 : e[i] # e[i + 1]
            <4> SUFFICES ASSUME NEW i \in 1 .. n PROVE e[i] # e[i + 1]
                BY <3>3
            <4>1. CASE i = n
                <5>1. c # <<>>
                    BY <2>5, <3>3, <4>1 DEF n
                <5> QED BY <2>8, <2>11, <3>2, <4>1, <5>1 DEF n
            <4>2. CASE i # n
                <5>1. i \in 1 .. n - 1 /\ i + 1 \in 1 .. n
                    BY <3>3, <4>2
                <5> QED BY <2>5, <3>2, <5>1 DEF n
            <4> QED BY <4>1, <4>2
        <3>7. KeptOf(c', d', q' - 1)
            BY <1>2, <2>4, <2>9, <3>1, <3>2, <3>4, <3>5, <3>6 DEF KeptOf
        <3> QED BY <1>1, <1>2, <2>1, <2>4, <3>7 DEF Building
    <2> QED BY <2>10, <2>11
<1> QED BY <1>1, <1>3, <1>4, <1>5

\* isCorrect looks at one pair of neighbours after the other.
LEMMA NeighboursKeeps ==
  ASSUME Building, task = "build", CheckNeighbours
  PROVE  Building'
<1>1. /\ mode \in Modes /\ list \in Lists /\ merged = <<>> /\ pc = "neighbours" /\ p \in Nat \ {0}
      /\ d \in Seq(Literals) /\ ToSet(d) = ToSet(list) /\ Sorted(d)
      /\ KeptOf(c, d, Len(d)) /\ result = FALSE
      /\ \A i \in 1 .. Len(c) - 1 : i < p => ~ contrary(c[i], c[i + 1])
    BY DEF Building, CheckNeighbours
<1>2. UNCHANGED <<mode, task, list, c, d, q, merged>>
    BY DEF CheckNeighbours
<1>3. Len(c) \in Nat
    BY <1>1 DEF KeptOf
<1>4. KeptOf(c', d', Len(d'))
    BY <1>1, <1>2 DEF KeptOf
<1>5. \A i : contrary(c[i], c[i + 1])' <=> contrary(c[i], c[i + 1])
    BY <1>2 DEF contrary
<1>6. CASE p >= Len(c)
    <2>1. pc' = "returned" /\ result' = TRUE /\ p' = p
        BY <1>6 DEF CheckNeighbours, return
    <2>2. \A i \in 1 .. Len(c) - 1 : i < p
        BY <1>1, <1>3, <1>6
    <2> QED BY <1>1, <1>2, <1>4, <1>5, <2>1, <2>2 DEF Building
<1>7. CASE ~ p >= Len(c) /\ contrary(c[p], c[p + 1])
    <2>1. pc' = "returned" /\ result' = FALSE /\ p' = p
        BY <1>7 DEF CheckNeighbours, return
    <2>2. p \in 1 .. Len(c) - 1
        BY <1>1, <1>3, <1>7
    <2> QED BY <1>1, <1>2, <1>4, <1>5, <1>7, <2>1, <2>2 DEF Building
<1>8. CASE ~ p >= Len(c) /\ ~ contrary(c[p], c[p + 1])
    <2>1. pc' = pc /\ result' = result /\ p' = p + 1
        BY <1>8 DEF CheckNeighbours
    <2>2. p' \in Nat \ {0} /\ \A i \in 1 .. Len(c) - 1 : i < p' => i < p \/ i = p
        BY <1>1, <1>3, <2>1
    <2> QED BY <1>1, <1>2, <1>4, <1>5, <1>8, <2>1, <2>2 DEF Building
<1> QED BY <1>6, <1>7, <1>8

\* Every step of a call keeps the vector as it is to be built.
LEMMA BuildingKeeps ==
  ASSUME Building, [Next]_vars
  PROVE  Building'
<1>1. UNCHANGED <<mode, task, list>>
    BY DEF Next, Step, Done, vars, MaintainStructure, DropEqual, CheckNeighbours, CompareSizes, WalkAsIs,
           WalkAsNext, SkipNext, WalkAsNow, CheckConditions, Merge, TakeRest
<1>2. CASE task # "build"
    BY <1>1, <1>2 DEF Building
<1>3. CASE task = "build" /\ DropEqual
    BY <1>3, DropKeeps
<1>4. CASE task = "build" /\ CheckNeighbours
    BY <1>4, NeighboursKeeps
<1>5. CASE task = "build" /\ MaintainStructure
    <2>1. /\ mode \in Modes /\ list \in Lists /\ merged = <<>> /\ p = 1 /\ c = <<>> /\ q = 1
          /\ pc = "sort" /\ result = FALSE /\ pc' = "unique" /\ d' \in sortings(list)
          /\ UNCHANGED <<mode, task, list, c, p, q, merged, result>>
        BY <1>5 DEF Building, MaintainStructure
    <2>2. list \in Seq(Literals)
        BY <2>1, SortedAssumption DEF SortedAssumption
    <2>3. d' \in Seq(Literals) /\ ToSet(d') = ToSet(list) /\ Sorted(d')
        BY <2>1, <2>2, SortsList
    <2>4. KeptOf(<<>>, d', 0)
        <3>1. Len(<<>>) = 0 /\ DOMAIN <<>> = {} /\ <<>> \in Seq(Literals) /\ 1 .. 0 = {} /\ 1 .. -1 = {}
            OBVIOUS
        <3>2. ToSet(<<>>) = {}
            BY <3>1 DEF ToSet
        <3>3. 1 .. 0 - 1 = {}
            OBVIOUS
        <3> QED BY <3>1, <3>2, <3>3 DEF KeptOf, Sorted
    <2>5. q' \in 1 .. Len(d') + 1 /\ q' - 1 = 0 /\ c' = <<>> /\ p' \in Nat \ {0}
        BY <2>1, <2>3, LenProperties
    <2> QED BY <1>1, <2>1, <2>3, <2>4, <2>5 DEF Building
<1>6. CASE task = "build" /\ (Done \/ UNCHANGED vars)
    <2>1. UNCHANGED <<mode, task, pc, list, c, d, p, q, merged, result>>
        BY <1>6 DEF Done, vars
    <2>2. \A i : contrary(c[i], c[i + 1])' <=> contrary(c[i], c[i + 1])
        BY <2>1 DEF contrary
    <2> QED BY <2>1, <2>2 DEF Building
<1>7. task = "build" => pc \in {"sort", "unique", "neighbours", "returned"}
    BY DEF Building
<1>8. CASE task = "build" /\ ~ (MaintainStructure \/ DropEqual \/ CheckNeighbours \/ Done \/ UNCHANGED vars)
    BY <1>7, <1>8 DEF Next, Step, CompareSizes, WalkAsIs, WalkAsNext, SkipNext, WalkAsNow, CheckConditions, Merge,
                      TakeRest
<1> QED BY <1>2, <1>3, <1>4, <1>5, <1>6, <1>8

\* A vector in order in which no neighbours are contrary has no contrary
\* literals at all, and is in strict order.
LEMMA NeighboursDecide ==
  ASSUME NEW s \in Lists, NEW t \in Seq(Literals), ToSet(t) = ToSet(s), Sorted(t),
         \A i \in 1 .. Len(t) - 1 : t[i] # t[i + 1],
         \A i \in 1 .. Len(t) - 1 : ~ SamePlace(t[i], t[i + 1])
  PROVE  /\ Descending(t)
         /\ \A k, l \in ToSet(s) : SamePlace(k, l) => k = l
<1> DEFINE n == Len(t)
           L == ToSet(s)
<1>1. n \in Nat /\ DOMAIN t = 1 .. n
    BY LenProperties
<1>2. Comparable(L) /\ \A i \in 1 .. n : t[i] \in L
    BY <1>1, ListLiterals DEF ToSet, Modes
<1> HIDE DEF n, L
<1>3. \A i \in 1 .. n - 1 : i \in 1 .. n /\ i + 1 \in 1 .. n /\ i < i + 1
    BY <1>1
<1>4. \A i \in 1 .. n - 1 : ~ LiteralLess(t[i], t[i + 1])
    BY <1>3 DEF Sorted, n
<1>5. \A i \in 1 .. n - 1 : LiteralLess(t[i + 1], t[i])
    <2> SUFFICES ASSUME NEW i \in 1 .. n - 1 PROVE LiteralLess(t[i + 1], t[i])
        OBVIOUS
    <2>1. t[i] \in L /\ t[i + 1] \in L /\ ~ SamePlace(t[i], t[i + 1])
        BY <1>2, <1>3 DEF n
    <2> QED BY <1>2, <1>4, <2>1, WeakOrder
<1>6. ASSUME NEW i \in 1 .. n, NEW j \in 1 .. n, i < j
      PROVE  ~ SamePlace(t[i], t[j])
    <2>1. i \in 1 .. n - 1 /\ (i + 1 = j \/ i + 1 < j) /\ i + 1 \in 1 .. n
        BY <1>1, <1>6
    <2>2. t[i] \in L /\ t[j] \in L /\ t[i + 1] \in L
        BY <1>2, <2>1
    <2>3. LiteralLess(t[i + 1], t[i])
        BY <1>5, <2>1
    <2>4. ~ LiteralLess(t[i + 1], t[j])
        <3>1. CASE i + 1 = j
            BY <1>2, <2>2, <3>1, WeakOrder
        <3>2. CASE i + 1 < j
            BY <2>1, <3>2 DEF Sorted, n
        <3> QED BY <2>1, <3>1, <3>2
    <2> QED BY <1>2, <2>2, <2>3, <2>4, WeakOrder
<1>7. \A k \in L : \E i \in 1 .. n : k = t[i]
    BY <1>1 DEF L, ToSet
<1>8. ASSUME NEW k \in L, NEW l \in L, SamePlace(k, l)
      PROVE  k = l
    <2>1. PICK i \in 1 .. n : k = t[i]
        BY <1>7
    <2>2. PICK j \in 1 .. n : l = t[j]
        BY <1>7
    <2>3. SamePlace(l, k)
        BY <1>8 DEF SamePlace
    <2>4. ~ i < j /\ ~ j < i
        BY <1>6, <1>8, <2>1, <2>2, <2>3
    <2>5. i = j
        BY <1>1, <2>4
    <2> QED BY <2>1, <2>2, <2>5
<1> QED BY <1>5, <1>8 DEF Descending, n, L

\* So the vector and the test are right.
LEMMA BuildingRight ==
  ASSUME Building, task = "build", pc = "returned"
  PROVE  /\ result = isCorrect(mode, ToSet(list)) /\ ToSet(c) = ToSet(list)
         /\ result => Descending(c)
<1> DEFINE L == ToSet(list)
<1>1. /\ mode \in Modes /\ list \in Lists /\ result \in BOOLEAN
      /\ d \in Seq(Literals) /\ ToSet(d) = L
      /\ KeptOf(c, d, Len(d))
      /\ result <=> \A i \in 1 .. Len(c) - 1 : ~ contrary(c[i], c[i + 1])
    BY DEF Building
<1>2. ToSet(c) = L
    BY <1>1, LenProperties DEF KeptOf, ToSet
<1>3. c \in Seq(Literals) /\ Sorted(c) /\ \A i \in 1 .. Len(c) - 1 : c[i] # c[i + 1]
    BY <1>1 DEF KeptOf
<1>4. \A i \in 1 .. Len(c) - 1 : c[i] \in L /\ c[i + 1] \in L
    <2>1. Len(c) \in Nat /\ DOMAIN c = 1 .. Len(c)
        BY <1>3, LenProperties
    <2>2. \A i \in 1 .. Len(c) : c[i] \in L
        BY <1>2, <2>1 DEF ToSet
    <2>3. \A i \in 1 .. Len(c) - 1 : i \in 1 .. Len(c) /\ i + 1 \in 1 .. Len(c)
        BY <2>1
    <2> QED BY <2>2, <2>3
<1>5. \A k, l \in L : contrary(k, l) <=> SamePlace(k, l) /\ k # l
    BY <1>1, ListLiterals DEF contrary
<1>6. result <=> \A i \in 1 .. Len(c) - 1 : ~ SamePlace(c[i], c[i + 1])
    BY <1>1, <1>3, <1>4, <1>5
<1>7. isCorrect(mode, L) <=> ~ \E k, l \in L : contrary(k, l)
    BY DEF isCorrect, contrary
<1> HIDE DEF L
<1>8. result => Descending(c) /\ \A k, l \in L : SamePlace(k, l) => k = l
    <2> SUFFICES ASSUME \A i \in 1 .. Len(c) - 1 : ~ SamePlace(c[i], c[i + 1])
                 PROVE  Descending(c) /\ \A k, l \in L : SamePlace(k, l) => k = l
        BY <1>6
    <2> QED BY <1>1, <1>2, <1>3, NeighboursDecide DEF L
<1>9. ~ result => \E k, l \in L : contrary(k, l)
    BY <1>1, <1>4
<1>10. result <=> isCorrect(mode, L)
    BY <1>5, <1>7, <1>8, <1>9
<1>11. isCorrect(mode, L) \in BOOLEAN
    BY DEF isCorrect
<1>12. result = isCorrect(mode, L)
    BY Zenon, <1>1, <1>10, <1>11
<1> QED BY <1>2, <1>8, <1>12 DEF L

-----------------------------------------------------------------------------
(***************************************************************************)
(* The vectors of clauses.                                                 *)
(***************************************************************************)
\* What a vector of a clause is.
LEMMA VectorFacts ==
  ASSUME NEW m \in Modes, NEW s \in HeldIn(m)
  PROVE  /\ s \in Seq(Literals) /\ Len(s) \in Nat /\ DOMAIN s = 1 .. Len(s) /\ Strict(s)
         /\ ToSet(s) \in Clauses /\ IsFiniteSet(ToSet(s)) /\ OneKind(ToSet(s))
         /\ Comparable(ToSet(s)) /\ Cardinality(ToSet(s)) = Len(s)
         /\ \A i \in 1 .. Len(s) : s[i] \in ToSet(s)
         /\ \A l \in ToSet(s) : \E i \in 1 .. Len(s) : l = s[i]
<1>1. PICK lits \in Held : /\ s \in [1 .. Cardinality(lits) -> lits] /\ ToSet(s) = lits
                           /\ \A i, j \in 1 .. Len(s) : i < j => LiteralLess(s[j], s[i])
    BY DEF HeldIn, vectors
<1>2. lits \in Clauses /\ IsFiniteSet(lits) /\ OneKind(lits)
    BY SortedAssumption DEF SortedAssumption
<1>3. Cardinality(lits) \in Nat
    BY <1>2, FS_CardinalityType
<1>4. lits \subseteq Literals
    BY <1>2 DEF Clauses
<1>5. s \in Seq(Literals) /\ Len(s) = Cardinality(lits) /\ DOMAIN s = 1 .. Len(s)
    BY <1>1, <1>3, <1>4
<1>6. /\ \A i \in 1 .. Len(s) : s[i] \in ToSet(s)
      /\ \A l \in ToSet(s) : \E i \in 1 .. Len(s) : l = s[i]
    BY <1>5 DEF ToSet
<1> QED BY <1>1, <1>2, <1>3, <1>5, <1>6, OneKindComparable DEF Strict

\* Its first literal is the leading one.
LEMMA FirstLeads ==
  ASSUME NEW m \in Modes, NEW s \in HeldIn(m), s # <<>>
  PROVE  /\ 1 \in 1 .. Len(s) /\ s[1] \in ToSet(s)
         /\ leadingAttribute(ToSet(s)) = s[1].attr
         /\ getLeadingLiteral(ToSet(s)) = s[1]
         /\ s[1].attr = "step_next" => \A l \in ToSet(s) : l.attr \in {"step_now", "step_next"}
         /\ s[1].attr # "step_next" => \A l \in ToSet(s) : l.attr = s[1].attr
<1> DEFINE S == ToSet(s)
           n == Len(s)
<1>1. /\ s \in Seq(Literals) /\ n \in Nat /\ Strict(s) /\ OneKind(S) /\ Comparable(S)
      /\ \A i \in 1 .. n : s[i] \in S
      /\ \A l \in S : \E i \in 1 .. n : l = s[i]
    BY VectorFacts
<1>2. 1 \in 1 .. n
    BY <1>1, EmptySeq
<1> HIDE DEF S, n
<1>3. s[1] \in S
    BY <1>1, <1>2
<1>4. \A l \in S : l = s[1] \/ LiteralLess(l, s[1])
    <2> SUFFICES ASSUME NEW i \in 1 .. n PROVE s[i] = s[1] \/ LiteralLess(s[i], s[1])
        BY <1>1
    <2>1. i = 1 \/ 1 < i
        BY <1>1
    <2> QED BY <1>1, <1>2, <2>1 DEF Strict, n
<1>5. \/ \A l \in S : l.attr = "initial"
      \/ \A l \in S : l.attr = "universal"
      \/ \A l \in S : l.attr \in {"step_now", "step_next"}
    BY <1>1 DEF OneKind, AttributesOf
<1>6. s[1].attr = "step_next" => \A l \in S : l.attr \in {"step_now", "step_next"}
    BY <1>3, <1>5
<1>7. s[1].attr # "step_next" => \A l \in S : l.attr = s[1].attr
    <2> SUFFICES ASSUME s[1].attr # "step_next", NEW l \in S PROVE l.attr = s[1].attr
        OBVIOUS
    <2>1. l = s[1] \/ LiteralLess(l, s[1])
        BY <1>4
    <2> QED BY <1>3, <1>5, <2>1 DEF LiteralLess
<1>8. leadingAttribute(S) = s[1].attr
    <2>1. CASE s[1].attr = "step_next"
        BY <1>3, <2>1 DEF leadingAttribute, NextPart
    <2>2. CASE s[1].attr # "step_next"
        <3>1. NextPart(S) = {}
            BY <1>7, <2>2 DEF NextPart
        <3>2. (CHOOSE l \in S : TRUE) \in S
            BY <1>3
        <3> QED BY <1>7, <2>2, <3>1, <3>2 DEF leadingAttribute
    <2> QED BY <2>1, <2>2
<1>9. getLeadingLiteral(S) = s[1]
    <2>1. \A k \in S : ~ LiteralLess(s[1], k)
        BY <1>1, <1>3, <1>4, WeakOrder
    <2>2. /\ getLeadingLiteral(S) \in S
          /\ \A k \in S : ~ LiteralLess(getLeadingLiteral(S), k)
        BY <1>3, <2>1 DEF getLeadingLiteral
    <2> QED BY <1>3, <1>4, <2>2
<1> QED BY <1>2, <1>3, <1>6, <1>7, <1>8, <1>9 DEF S, n

-----------------------------------------------------------------------------
(***************************************************************************)
(* Walks of two iterators.                                                 *)
(***************************************************************************)
AllMatched(s, t, R) == \A k \in ToSet(s) : \E l \in ToSet(t) : <<k, l>> \in R

\* The literals of s before i are matched in t, the others not before j.
Walked(s, t, R, i, j) ==
  /\ i \in 1 .. Len(s) + 1 /\ j \in 1 .. Len(t) + 1
  /\ \A a \in 1 .. Len(s) : a < i => \E b \in 1 .. Len(t) : <<s[a], t[b]>> \in R
  /\ \A a \in 1 .. Len(s) : i <= a => \A b \in 1 .. Len(t) : b < j => <<s[a], t[b]>> \notin R

\* A literal of t that matches nothing that is left is passed over.
LEMMA WalkSkips ==
  ASSUME NEW s, NEW t, NEW R, NEW i, NEW j, Len(s) \in Nat, Len(t) \in Nat,
         Walked(s, t, R, i, j), j <= Len(t),
         \A a \in 1 .. Len(s) : i <= a => <<s[a], t[j]>> \notin R
  PROVE  Walked(s, t, R, i, j + 1)
<1>1. j + 1 \in 1 .. Len(t) + 1 /\ \A b \in 1 .. Len(t) : b < j + 1 => b < j \/ b = j
    BY DEF Walked
<1> QED BY <1>1 DEF Walked

\* A literal of t that matches the next one of s.
LEMMA WalkMatches ==
  ASSUME NEW s, NEW t, NEW R, NEW i, NEW j, Len(s) \in Nat, Len(t) \in Nat,
         Walked(s, t, R, i, j), i <= Len(s), j <= Len(t), <<s[i], t[j]>> \in R,
         \A a \in 1 .. Len(s) : i < a => <<s[a], t[j]>> \notin R
  PROVE  Walked(s, t, R, i + 1, j + 1)
<1>1. /\ i + 1 \in 1 .. Len(s) + 1 /\ j + 1 \in 1 .. Len(t) + 1 /\ j \in 1 .. Len(t)
      /\ \A b \in 1 .. Len(t) : b < j + 1 => b < j \/ b = j
      /\ \A a \in 1 .. Len(s) : a < i + 1 => a < i \/ a = i
      /\ \A a \in 1 .. Len(s) : i + 1 <= a => i < a /\ i <= a
    BY DEF Walked
<1> QED BY <1>1 DEF Walked

\* At the end of s all is matched.
LEMMA WalkEnds ==
  ASSUME NEW m \in Modes, NEW s \in HeldIn(m), NEW t \in HeldIn(m), NEW R, NEW i, NEW j,
         Walked(s, t, R, i, j), i > Len(s)
  PROVE  AllMatched(s, t, R)
<1>1. /\ \A l \in ToSet(s) : \E a \in 1 .. Len(s) : l = s[a]
      /\ \A b \in 1 .. Len(t) : t[b] \in ToSet(t)
      /\ Len(s) \in Nat
    BY VectorFacts
<1>2. \A a \in 1 .. Len(s) : a < i
    BY <1>1 DEF Walked
<1> QED BY <1>1, <1>2 DEF Walked, AllMatched

\* A literal of s that nothing left matches is not matched.
LEMMA WalkFails ==
  ASSUME NEW m \in Modes, NEW s \in HeldIn(m), NEW t \in HeldIn(m), NEW R, NEW i, NEW j,
         Walked(s, t, R, i, j), i <= Len(s),
         \A b \in 1 .. Len(t) : j <= b => <<s[i], t[b]>> \notin R
  PROVE  ~ AllMatched(s, t, R)
<1>1. /\ \A l \in ToSet(t) : \E b \in 1 .. Len(t) : l = t[b]
      /\ \A a \in 1 .. Len(s) : s[a] \in ToSet(s)
      /\ Len(s) \in Nat /\ Len(t) \in Nat
    BY VectorFacts
<1>2. i \in 1 .. Len(s) /\ i <= i /\ \A b \in 1 .. Len(t) : b < j \/ j <= b
    BY <1>1 DEF Walked
<1>3. \A b \in 1 .. Len(t) : <<s[i], t[b]>> \notin R
    BY <1>2 DEF Walked
<1> QED BY <1>1, <1>2, <1>3 DEF AllMatched

\* The same literal in the mode m, and a literal moved to attribute a.
SameIn(m) == {e \in Literals \X Literals : Key(e[1]) = Key(e[2]) /\ areEqual(m, e[1].attr, e[2].attr)}
MovedTo(a) == {e \in Literals \X Literals : Key(e[1]) = Key(e[2]) /\ e[2].attr = a}

\* What the walks are to decide.
LEMMA HelperIs ==
  ASSUME NEW m \in Modes, NEW s \in HeldIn(m), NEW t \in HeldIn(m), s # <<>>, Len(s) <= Len(t)
  PROVE  /\ t # <<>>
         /\ clauseSubsumesHelper(m, ToSet(s), ToSet(t)) <=>
              IF areEqual(m, s[1].attr, "universal")
              THEN IF t[1].attr = "step_next"
                   THEN AllMatched(s, t, MovedTo("step_next")) \/ AllMatched(s, t, MovedTo("step_now"))
                   ELSE AllMatched(s, t, SameIn(m))
              ELSE s[1].attr = t[1].attr /\ AllMatched(s, t, SameIn(m))
<1> DEFINE S == ToSet(s)
           T == ToSet(t)
<1>1. /\ S \subseteq Literals /\ T \subseteq Literals
      /\ Cardinality(S) = Len(s) /\ Cardinality(T) = Len(t)
      /\ Len(s) \in Nat /\ Len(t) \in Nat /\ s \in Seq(Literals) /\ t \in Seq(Literals)
    BY VectorFacts DEF Comparable
<1>2. t # <<>>
    BY <1>1, EmptySeq
<1>3. S # {} /\ T # {} /\ leadingAttribute(S) = s[1].attr /\ leadingAttribute(T) = t[1].attr
    BY <1>2, FirstLeads
<1> HIDE DEF S, T
<1>4. \A a \in Attributes : Retag(S, a) \subseteq T <=> \A k \in S : \E l \in T : <<k, l>> \in MovedTo(a)
    <2> SUFFICES ASSUME NEW a \in Attributes
                 PROVE  Retag(S, a) \subseteq T <=> \A k \in S : \E l \in T : <<k, l>> \in MovedTo(a)
        OBVIOUS
    <2>1. \A k \in S, l \in T : <<k, l>> \in MovedTo(a) <=> l = setAttribute(k, a)
        <3> SUFFICES ASSUME NEW k \in S, NEW l \in T
                     PROVE  <<k, l>> \in MovedTo(a) <=> l = setAttribute(k, a)
            OBVIOUS
        <3>1. k \in Literals /\ l \in Literals
            BY <1>1
        <3>2. <<k, l>> \in MovedTo(a) <=> k.prop = l.prop /\ k.neg = l.neg /\ l.attr = a
            BY <3>1 DEF MovedTo, Key
        <3>3. l = setAttribute(k, a) <=> k.prop = l.prop /\ k.neg = l.neg /\ l.attr = a
            BY <3>1 DEF setAttribute, Literals
        <3> QED BY <3>2, <3>3
    <2> QED BY <2>1 DEF Retag
<1>5. SubsumesHelper(m, S, T) <=> \A k \in S : \E l \in T : <<k, l>> \in SameIn(m)
    BY <1>1 DEF SubsumesHelper, SameIn
<1>6. "step_next" \in Attributes /\ "step_now" \in Attributes
    BY DEF Attributes
<1>7. Cardinality(S) <= Cardinality(T)
    BY <1>1
<1>8. clauseSubsumesHelper(m, S, T) <=>
              IF areEqual(m, s[1].attr, "universal")
              THEN IF t[1].attr = "step_next"
                   THEN Retag(S, "step_next") \subseteq T \/ Retag(S, "step_now") \subseteq T
                   ELSE SubsumesHelper(m, S, T)
              ELSE s[1].attr = t[1].attr /\ SubsumesHelper(m, S, T)
    BY <1>3, <1>7 DEF clauseSubsumesHelper
<1> QED BY <1>2, <1>4, <1>5, <1>6, <1>8 DEF AllMatched, S, T

-----------------------------------------------------------------------------
(***************************************************************************)
(* The walks that decide subsumption.                                      *)
(***************************************************************************)
\* c holds at every moment, so it may be moved.
Movable == areEqual(mode, c[1].attr, "universal")

Subsuming ==
  task = "subsumes" =>
    /\ mode \in Modes /\ c \in HeldIn(mode) /\ d \in HeldIn(mode) /\ merged = <<>>
    /\ pc \in {"sizes", "as is", "as next", "skip next", "as now", "returned"}
    /\ pc \in {"sizes", "skip next"} => p = 1
    /\ pc = "sizes" => q = 1
    /\ pc \notin {"sizes", "returned"} => c # <<>> /\ Len(c) <= Len(d)
    /\ pc = "as is" =>
         /\ IF Movable THEN d[1].attr # "step_next" ELSE c[1].attr = d[1].attr
         /\ Walked(c, d, SameIn(mode), p, q)
    /\ pc \in {"as next", "skip next", "as now"} => Movable /\ d[1].attr = "step_next"
    /\ pc = "as next" => Walked(c, d, MovedTo("step_next"), p, q)
    /\ pc = "skip next" => q \in 1 .. Len(d) + 1
    /\ pc \in {"as next", "skip next"} => \A j \in 1 .. Len(d) : j < q => d[j].attr = "step_next"
    /\ pc \in {"skip next", "as now"} => ~ AllMatched(c, d, MovedTo("step_next"))
    /\ pc = "as now" =>
         /\ Walked(c, d, MovedTo("step_now"), p, q)
         /\ \A j \in 1 .. Len(d) : q <= j => d[j].attr = "step_now"
    /\ pc = "returned" =>
         /\ result \in BOOLEAN
         /\ result <=> clauseSubsumesHelper(mode, ToSet(c), ToSet(d))

\* In a vector the propositions go down, first of the step_next literals.
LEMMA PropositionsDescend ==
  ASSUME NEW m \in Modes, NEW s \in HeldIn(m), NEW i \in 1 .. Len(s), NEW j \in 1 .. Len(s), i < j
  PROVE  /\ s[i].prop \in Nat /\ s[j].prop \in Nat
         /\ (s[i].attr = "step_next" <=> s[j].attr = "step_next") => s[j].prop < s[i].prop
         /\ s[i].attr # "step_next" => s[j].attr # "step_next"
<1>1. s[i] \in ToSet(s) /\ s[j] \in ToSet(s) /\ Comparable(ToSet(s)) /\ LiteralLess(s[j], s[i])
    BY VectorFacts DEF Strict
<1>2. s[i].prop \in Nat /\ s[j].prop \in Nat
    BY <1>1, PropAssumption DEF Comparable, Literals
<1>3. \/ s[i].attr # "step_next" /\ s[j].attr # "step_next"
      \/ s[i].attr \in {"step_now", "step_next"} /\ s[j].attr \in {"step_now", "step_next"}
    BY <1>1 DEF Comparable
<1> QED BY <1>1, <1>2, <1>3 DEF LiteralLess

\* The literals of two clauses compared as they are can be compared.
LEMMA BothComparable ==
  ASSUME NEW m \in Modes, NEW s \in HeldIn(m), NEW t \in HeldIn(m), s # <<>>, t # <<>>,
         IF areEqual(m, s[1].attr, "universal") THEN t[1].attr # "step_next"
                                                ELSE s[1].attr = t[1].attr
  PROVE  /\ Comparable(ToSet(s) \cup ToSet(t))
         /\ \A i \in 1 .. Len(s) : s[i] \in ToSet(s) \cup ToSet(t)
         /\ \A i \in 1 .. Len(t) : t[i] \in ToSet(s) \cup ToSet(t)
<1>1. /\ s[1].attr = "step_next" => \A l \in ToSet(s) : l.attr \in {"step_now", "step_next"}
      /\ s[1].attr # "step_next" => \A l \in ToSet(s) : l.attr = s[1].attr
      /\ t[1].attr = "step_next" => \A l \in ToSet(t) : l.attr \in {"step_now", "step_next"}
      /\ t[1].attr # "step_next" => \A l \in ToSet(t) : l.attr = t[1].attr
    BY FirstLeads
<1>2. ToSet(s) \subseteq Literals /\ ToSet(t) \subseteq Literals
    BY VectorFacts DEF Clauses
<1>3. \/ s[1].attr # "step_next" /\ t[1].attr # "step_next"
      \/ s[1].attr = "step_next" /\ t[1].attr = "step_next"
    BY DEF areEqual
<1>4. Comparable(ToSet(s) \cup ToSet(t))
    BY <1>1, <1>2, <1>3 DEF Comparable
<1> QED BY <1>4, VectorFacts

\* Literals the mode takes for the same are in one place.
LEMMA SameInPlace ==
  ASSUME NEW m \in Modes, NEW k \in Literals, NEW l \in Literals
  PROVE  /\ <<k, l>> \in SameIn(m) <=> Key(k) = Key(l) /\ areEqual(m, k.attr, l.attr)
         /\ <<k, l>> \in SameIn(m) => SamePlace(k, l)
<1>1. <<k, l>> \in SameIn(m) <=> Key(k) = Key(l) /\ areEqual(m, k.attr, l.attr)
    BY DEF SameIn
<1>2. Key(k) = Key(l) => k.prop = l.prop
    BY DEF Key
<1>3. areEqual(m, k.attr, l.attr) => (k.attr = "step_next" <=> l.attr = "step_next")
    BY DEF areEqual
<1> QED BY <1>1, <1>2, <1>3 DEF SamePlace

\* What the order tells of the literals left when both stand at i and j.
LEMMA AsIsTurn ==
  ASSUME NEW m \in Modes, NEW s \in HeldIn(m), NEW t \in HeldIn(m),
         NEW i \in 1 .. Len(s), NEW j \in 1 .. Len(t),
         IF areEqual(m, s[1].attr, "universal") THEN t[1].attr # "step_next"
                                                ELSE s[1].attr = t[1].attr
  PROVE  /\ LiteralLess(s[i], t[j]) => \A a \in 1 .. Len(s) : i <= a => <<s[a], t[j]>> \notin SameIn(m)
         /\ <<s[i], t[j]>> \in SameIn(m) => \A a \in 1 .. Len(s) : i < a => <<s[a], t[j]>> \notin SameIn(m)
         /\ ~ LiteralLess(s[i], t[j]) /\ <<s[i], t[j]>> \notin SameIn(m) =>
              \A b \in 1 .. Len(t) : j <= b => <<s[i], t[b]>> \notin SameIn(m)
<1> DEFINE B == ToSet(s) \cup ToSet(t)
<1>1. s # <<>> /\ t # <<>>
    OBVIOUS
<1>2. /\ Comparable(B)
      /\ \A a \in 1 .. Len(s) : s[a] \in B
      /\ \A b \in 1 .. Len(t) : t[b] \in B
    BY <1>1, BothComparable
<1>3. /\ Len(s) \in Nat /\ Len(t) \in Nat
      /\ \A a \in 1 .. Len(s) : i < a => LiteralLess(s[a], s[i])
      /\ \A b \in 1 .. Len(t) : j < b => LiteralLess(t[b], t[j])
    BY VectorFacts DEF Strict
<1> HIDE DEF B
<1>4. \A k, l \in B : <<k, l>> \in SameIn(m) => SamePlace(k, l)
    BY <1>2, SameInPlace DEF Comparable
<1>5. ASSUME LiteralLess(s[i], t[j]), NEW a \in 1 .. Len(s), i <= a
      PROVE  <<s[a], t[j]>> \notin SameIn(m)
    <2>1. i = a \/ i < a
        BY <1>3, <1>5
    <2>2. LiteralLess(s[a], t[j])
        BY <1>2, <1>3, <1>5, <2>1, WeakOrder
    <2> QED BY <1>2, <1>4, <2>2, WeakOrder
<1>6. ASSUME <<s[i], t[j]>> \in SameIn(m), NEW a \in 1 .. Len(s), i < a
      PROVE  <<s[a], t[j]>> \notin SameIn(m)
    <2>1. SamePlace(s[i], t[j]) /\ LiteralLess(s[a], s[i])
        BY <1>2, <1>3, <1>4, <1>6
    <2>2. ~ LiteralLess(s[i], t[j]) /\ ~ LiteralLess(t[j], s[i])
        BY <1>2, <2>1, WeakOrder
    <2>3. LiteralLess(s[a], t[j])
        BY <1>2, <2>1, <2>2, WeakOrder
    <2> QED BY <1>2, <1>4, <2>3, WeakOrder
<1>7. ASSUME ~ LiteralLess(s[i], t[j]), <<s[i], t[j]>> \notin SameIn(m), NEW b \in 1 .. Len(t), j <= b
      PROVE  <<s[i], t[b]>> \notin SameIn(m)
    <2>1. CASE b = j
        BY <1>7, <2>1
    <2>2. CASE j < b
        <3>1. LiteralLess(t[b], t[j])
            BY <1>3, <2>2
        <3>2. LiteralLess(t[b], s[i])
            BY <1>2, <1>7, <3>1, WeakOrder
        <3> QED BY <1>2, <1>4, <3>2, WeakOrder
    <2> QED BY <1>3, <1>7, <2>1, <2>2
<1> QED BY <1>5, <1>6, <1>7

\* The same of the two walks over the literals with attribute a.
LEMMA MovedTurn ==
  ASSUME NEW m \in Modes, NEW s \in HeldIn(m), NEW t \in HeldIn(m), NEW x,
         NEW i \in 1 .. Len(s), NEW j \in 1 .. Len(t), areEqual(m, s[1].attr, "universal"),
         x \in {"step_now", "step_next"}, t[j].attr = x
  PROVE  /\ s[i].prop < t[j].prop => \A a \in 1 .. Len(s) : i <= a => <<s[a], t[j]>> \notin MovedTo(x)
         /\ Key(s[i]) = Key(t[j]) =>
              /\ <<s[i], t[j]>> \in MovedTo(x)
              /\ \A a \in 1 .. Len(s) : i < a => <<s[a], t[j]>> \notin MovedTo(x)
         /\ ~ s[i].prop < t[j].prop /\ Key(s[i]) # Key(t[j]) =>
              \A b \in 1 .. Len(t) : j <= b => <<s[i], t[b]>> \notin MovedTo(x)
<1>1. /\ Len(s) \in Nat /\ Len(t) \in Nat /\ s[i] \in Literals /\ t[j] \in Literals
      /\ \A a \in 1 .. Len(s) : s[a] \in ToSet(s)
    BY VectorFacts DEF Comparable
<1>2. s[i].prop \in Nat /\ t[j].prop \in Nat
    BY <1>1, PropAssumption DEF Literals
<1>3. s[1].attr # "step_next"
    BY DEF areEqual
<1>4. \A a \in 1 .. Len(s) : s[a].attr # "step_next"
    <2>1. s # <<>>
        OBVIOUS
    <2> QED BY <1>1, <1>3, <2>1, FirstLeads
<1>5. \A a \in 1 .. Len(s) : i < a => s[a].prop \in Nat /\ s[a].prop < s[i].prop
    BY <1>4, PropositionsDescend
<1>6. \A b \in 1 .. Len(t) : j < b /\ t[b].attr = x => t[b].prop \in Nat /\ t[b].prop < t[j].prop
    BY PropositionsDescend
<1>7. \A k, l : <<k, l>> \in MovedTo(x) => k.prop = l.prop /\ l.attr = x /\ Key(k) = Key(l)
    BY DEF MovedTo, Key
<1>8. \A a \in 1 .. Len(s) : i <= a => a = i \/ i < a
    BY <1>1
<1>9. \A b \in 1 .. Len(t) : j <= b => b = j \/ j < b
    BY <1>1
<1>10. s[i].prop < t[j].prop => \A a \in 1 .. Len(s) : i <= a => <<s[a], t[j]>> \notin MovedTo(x)
    BY <1>2, <1>5, <1>7, <1>8
<1>11. Key(s[i]) = Key(t[j]) => s[i].prop = t[j].prop
    BY DEF Key
<1>12. Key(s[i]) = Key(t[j]) => \A a \in 1 .. Len(s) : i < a => <<s[a], t[j]>> \notin MovedTo(x)
    BY <1>2, <1>5, <1>7, <1>11
<1>13. Key(s[i]) = Key(t[j]) => <<s[i], t[j]>> \in MovedTo(x)
    BY <1>1 DEF MovedTo
<1>14. ~ s[i].prop < t[j].prop /\ Key(s[i]) # Key(t[j]) =>
              \A b \in 1 .. Len(t) : j <= b => <<s[i], t[b]>> \notin MovedTo(x)
    BY <1>2, <1>6, <1>7, <1>9
<1> QED BY <1>10, <1>12, <1>13, <1>14

\* The choice of the walk.
LEMMA SizesKeeps ==
  ASSUME Subsuming, task = "subsumes", CompareSizes
  PROVE  Subsuming'
<1>1. /\ mode \in Modes /\ c \in HeldIn(mode) /\ d \in HeldIn(mode) /\ merged = <<>>
      /\ pc = "sizes" /\ p = 1 /\ q = 1
    BY DEF Subsuming, CompareSizes
<1>2. UNCHANGED <<mode, task, list, c, d, p, q, merged>>
    BY DEF CompareSizes
<1>3. /\ c \in Seq(Literals) /\ d \in Seq(Literals) /\ Len(c) \in Nat /\ Len(d) \in Nat
      /\ DOMAIN c = 1 .. Len(c)
    BY <1>1, VectorFacts
<1> DEFINE helper == clauseSubsumesHelper(mode, ToSet(c), ToSet(d))
<1>4. CASE c = <<>>
    <2>1. pc' = "returned" /\ result' = TRUE
        BY <1>1, <1>4 DEF CompareSizes, return
    <2>2. ToSet(c) = {}
        BY <1>3, <1>4 DEF ToSet
    <2>3. helper
        BY <2>2 DEF clauseSubsumesHelper
    <2> QED BY <1>1, <1>2, <2>1, <2>3 DEF Subsuming
<1>5. CASE c # <<>> /\ Len(c) > Len(d)
    <2>1. pc' = "returned" /\ result' = FALSE
        BY <1>1, <1>5 DEF CompareSizes, return
    <2>2. ToSet(c) # {}
        BY <1>1, <1>5, FirstLeads
    <2>3. ~ Cardinality(ToSet(c)) <= Cardinality(ToSet(d))
        BY <1>1, <1>3, <1>5, VectorFacts
    <2>4. ~ helper
        BY <2>2, <2>3 DEF clauseSubsumesHelper
    <2> QED BY <1>1, <1>2, <2>1, <2>4 DEF Subsuming
<1>6. CASE c # <<>> /\ ~ Len(c) > Len(d)
    <2>1. Len(c) <= Len(d)
        BY <1>3, <1>6
    <2>2. CASE ~ (Movable \/ c[1].attr = d[1].attr)
        <3>1. pc' = "returned" /\ result' = FALSE
            BY <1>1, <1>6, <2>2 DEF CompareSizes, return, Movable
        <3>2. ~ helper
            BY <1>1, <1>6, <2>1, <2>2, HelperIs DEF Movable
        <3> QED BY <1>1, <1>2, <3>1, <3>2 DEF Subsuming
    <2>3. CASE Movable \/ c[1].attr = d[1].attr
        <3>1. /\ pc' = IF Movable /\ d[1].attr = "step_next" THEN "as next" ELSE "as is"
              /\ result' = result
            BY <1>1, <1>6, <2>3 DEF CompareSizes, Movable
        <3>2. \A R : Walked(c, d, R, 1, 1)
            BY <1>3 DEF Walked
        <3>3. \A j \in 1 .. Len(d) : ~ j < 1
            BY <1>3
        <3>4. Movable' <=> Movable
            BY <1>2 DEF Movable
        <3>5. CASE Movable /\ d[1].attr = "step_next"
            <4>1. pc' = "as next"
                BY <3>1, <3>5
            <4> QED BY <1>1, <1>2, <1>6, <2>1, <3>2, <3>3, <3>4, <3>5, <4>1 DEF Subsuming
        <3>6. CASE ~ (Movable /\ d[1].attr = "step_next")
            <4>1. pc' = "as is"
                BY <3>1, <3>6
            <4>2. IF Movable THEN d[1].attr # "step_next" ELSE c[1].attr = d[1].attr
                BY <2>3, <3>6
            <4> QED BY <1>1, <1>2, <1>6, <2>1, <3>2, <3>4, <4>1, <4>2 DEF Subsuming
        <3> QED BY <3>5, <3>6
    <2> QED BY <2>2, <2>3
<1> QED BY <1>4, <1>5, <1>6

\* The walk over clauses compared as they are.
LEMMA AsIsKeeps ==
  ASSUME Subsuming, task = "subsumes", WalkAsIs
  PROVE  Subsuming'
<1> DEFINE R == SameIn(mode)
<1>1. /\ mode \in Modes /\ c \in HeldIn(mode) /\ d \in HeldIn(mode) /\ merged = <<>>
      /\ pc = "as is" /\ c # <<>> /\ Len(c) <= Len(d) /\ Walked(c, d, R, p, q)
      /\ IF Movable THEN d[1].attr # "step_next" ELSE c[1].attr = d[1].attr
    BY DEF Subsuming, WalkAsIs
<1>2. UNCHANGED <<mode, task, list, c, d, merged>>
    BY DEF WalkAsIs
<1>3. /\ Len(c) \in Nat /\ Len(d) \in Nat
      /\ p \in 1 .. Len(c) + 1 /\ q \in 1 .. Len(d) + 1
    BY <1>1, VectorFacts DEF Walked
<1>4. clauseSubsumesHelper(mode, ToSet(c), ToSet(d)) <=> AllMatched(c, d, R)
    BY <1>1, HelperIs DEF Movable
<1>5. Movable' <=> Movable
    BY <1>2 DEF Movable
<1> HIDE DEF R
<1>6. CASE p > Len(c)
    <2>1. pc' = "returned" /\ result' = TRUE
        BY <1>1, <1>6, Zenon DEF WalkAsIs, return
    <2>2. AllMatched(c, d, R)
        BY <1>1, <1>6, WalkEnds
    <2> QED BY <1>1, <1>2, <1>4, <2>1, <2>2 DEF Subsuming
<1>7. CASE p <= Len(c) /\ q > Len(d)
    <2>1. (p > Len(c)) = FALSE
        BY <1>3, <1>7
    <2>2. pc' = "returned" /\ result' = (p > Len(c))
        BY <1>1, <1>7, Zenon DEF WalkAsIs, return
    <2>3. \A b \in 1 .. Len(d) : ~ q <= b
        BY <1>3, <1>7
    <2>4. ~ AllMatched(c, d, R)
        BY <1>1, <1>7, <2>3, WalkFails
    <2> QED BY <1>1, <1>2, <1>4, <2>1, <2>2, <2>4 DEF Subsuming
<1>8. CASE p <= Len(c) /\ q <= Len(d)
    <2>1. p \in 1 .. Len(c) /\ q \in 1 .. Len(d) /\ ~ p > Len(c) /\ ~ q > Len(d)
        BY <1>3, <1>8
    <2>2. c[p] \in Literals /\ d[q] \in Literals
        BY <1>1, <2>1, VectorFacts DEF Comparable
    <2>3. sameLiteral(c[p], d[q]) <=> <<c[p], d[q]>> \in R
        BY <1>1, <2>2, SameInPlace DEF R, sameLiteral
    <2>4. /\ LiteralLess(c[p], d[q]) => \A a \in 1 .. Len(c) : p <= a => <<c[a], d[q]>> \notin R
          /\ <<c[p], d[q]>> \in R => \A a \in 1 .. Len(c) : p < a => <<c[a], d[q]>> \notin R
          /\ ~ LiteralLess(c[p], d[q]) /\ <<c[p], d[q]>> \notin R =>
               \A b \in 1 .. Len(d) : q <= b => <<c[p], d[b]>> \notin R
        BY <1>1, <2>1, AsIsTurn DEF R, Movable
    <2>5. CASE LiteralLess(c[p], d[q])
        <3>1. q' = q + 1 /\ p' = p /\ pc' = pc
            BY <2>1, <2>5 DEF WalkAsIs
        <3>2. Walked(c, d, R, p, q + 1)
            BY <1>1, <1>3, <1>8, <2>4, <2>5, WalkSkips
        <3> QED BY <1>1, <1>2, <1>5, <3>1, <3>2 DEF Subsuming, R
    <2>6. CASE ~ LiteralLess(c[p], d[q]) /\ sameLiteral(c[p], d[q])
        <3>1. p' = p + 1 /\ q' = q + 1 /\ pc' = pc
            BY <2>1, <2>6 DEF WalkAsIs
        <3>2. Walked(c, d, R, p + 1, q + 1)
            BY <1>1, <1>3, <1>8, <2>3, <2>4, <2>6, WalkMatches
        <3> QED BY <1>1, <1>2, <1>5, <3>1, <3>2 DEF Subsuming, R
    <2>7. CASE ~ LiteralLess(c[p], d[q]) /\ ~ sameLiteral(c[p], d[q])
        <3>1. pc' = "returned" /\ result' = FALSE
            BY <2>1, <2>7 DEF WalkAsIs, return
        <3>2. ~ AllMatched(c, d, R)
            BY <1>1, <1>8, <2>3, <2>4, <2>7, WalkFails
        <3> QED BY <1>1, <1>2, <1>4, <3>1, <3>2 DEF Subsuming
    <2> QED BY <2>5, <2>6, <2>7
<1> QED BY <1>3, <1>6, <1>7, <1>8

\* The walk over the step_next literals of d.
LEMMA AsNextKeeps ==
  ASSUME Subsuming, task = "subsumes", WalkAsNext
  PROVE  Subsuming'
<1> DEFINE R == MovedTo("step_next")
<1>1. /\ mode \in Modes /\ c \in HeldIn(mode) /\ d \in HeldIn(mode) /\ merged = <<>>
      /\ pc = "as next" /\ c # <<>> /\ Len(c) <= Len(d) /\ Walked(c, d, R, p, q)
      /\ Movable /\ d[1].attr = "step_next"
      /\ \A j \in 1 .. Len(d) : j < q => d[j].attr = "step_next"
    BY DEF Subsuming, WalkAsNext
<1>2. UNCHANGED <<mode, task, list, c, d, merged>>
    BY DEF WalkAsNext
<1>3. /\ Len(c) \in Nat /\ Len(d) \in Nat
      /\ p \in 1 .. Len(c) + 1 /\ q \in 1 .. Len(d) + 1
    BY <1>1, VectorFacts DEF Walked
<1>4. clauseSubsumesHelper(mode, ToSet(c), ToSet(d)) <=>
        AllMatched(c, d, R) \/ AllMatched(c, d, MovedTo("step_now"))
    BY <1>1, HelperIs DEF Movable
<1>5. Movable' <=> Movable
    BY <1>2 DEF Movable
<1>6. atNext => q \in 1 .. Len(d) /\ d[q].attr = "step_next"
    BY <1>3 DEF atNext
<1>7. p <= Len(c) => p \in 1 .. Len(c)
    BY <1>3
<1>8. p <= Len(c) /\ atNext =>
        /\ c[p].prop < d[q].prop => \A a \in 1 .. Len(c) : p <= a => <<c[a], d[q]>> \notin R
        /\ Key(c[p]) = Key(d[q]) =>
             /\ <<c[p], d[q]>> \in R
             /\ \A a \in 1 .. Len(c) : p < a => <<c[a], d[q]>> \notin R
        /\ ~ c[p].prop < d[q].prop /\ Key(c[p]) # Key(d[q]) =>
             \A b \in 1 .. Len(d) : q <= b => <<c[p], d[b]>> \notin R
    BY <1>1, <1>6, <1>7, MovedTurn DEF Movable
<1> HIDE DEF R
<1>9. atNext => \A j \in 1 .. Len(d) : j < q + 1 => d[j].attr = "step_next"
    <2>1. \A j \in 1 .. Len(d) : j < q + 1 => j < q \/ j = q
        BY <1>3
    <2> QED BY <1>1, <1>6, <2>1
<1>10. CASE p <= Len(c) /\ atNext /\ c[p].prop < d[q].prop
    <2>1. q' = q + 1 /\ p' = p /\ pc' = pc
        BY <1>10, Zenon DEF WalkAsNext
    <2>2. Walked(c, d, R, p, q + 1)
        <3>1. q <= Len(d) /\ \A a \in 1 .. Len(c) : p <= a => <<c[a], d[q]>> \notin R
            BY <1>8, <1>10 DEF atNext
        <3>2. Walked(c, d, R, p, q)
            BY <1>1
        <3> QED BY <1>3, <3>1, <3>2, WalkSkips
    <2> QED BY <1>1, <1>2, <1>5, <1>9, <1>10, <2>1, <2>2 DEF Subsuming, R
<1>11. CASE p <= Len(c) /\ atNext /\ ~ c[p].prop < d[q].prop /\ Key(c[p]) = Key(d[q])
    <2>1. p' = p + 1 /\ q' = q + 1 /\ pc' = pc
        BY <1>11, Zenon DEF WalkAsNext
    <2>2. Walked(c, d, R, p + 1, q + 1)
        <3>1. /\ q <= Len(d) /\ <<c[p], d[q]>> \in R
              /\ \A a \in 1 .. Len(c) : p < a => <<c[a], d[q]>> \notin R
            BY <1>8, <1>11 DEF atNext
        <3>2. Walked(c, d, R, p, q)
            BY <1>1
        <3> QED BY <1>3, <1>11, <3>1, <3>2, WalkMatches
    <2> QED BY <1>1, <1>2, <1>5, <1>9, <1>11, <2>1, <2>2 DEF Subsuming, R
<1>12. CASE p > Len(c)
    <2>1. ~ p <= Len(c)
        BY <1>3, <1>12
    <2>2. pc' = "returned" /\ result' = TRUE
        BY <1>12, <2>1, Zenon DEF WalkAsNext, return
    <2>3. AllMatched(c, d, R)
        BY <1>1, <1>12, WalkEnds
    <2> QED BY <1>1, <1>2, <1>4, <2>2, <2>3 DEF Subsuming
<1>13. CASE p <= Len(c) /\ ~ (atNext /\ (c[p].prop < d[q].prop \/ Key(c[p]) = Key(d[q])))
    <2>1. ~ p > Len(c)
        BY <1>3, <1>13
    <2>2. pc' = "skip next" /\ p' = 1 /\ q' = q
        BY <1>13, <2>1, Zenon DEF WalkAsNext
    <2>3. \A b \in 1 .. Len(d) : q <= b => <<c[p], d[b]>> \notin R
        <3>1. CASE atNext
            BY <1>8, <1>13, <3>1
        <3>2. CASE ~ atNext
            <4> SUFFICES ASSUME NEW b \in 1 .. Len(d), q <= b PROVE d[b].attr # "step_next"
                BY DEF R, MovedTo
            <4>1. q \in 1 .. Len(d) /\ (b = q \/ q < b)
                BY <1>3
            <4>2. d[q].attr # "step_next"
                BY <3>2, <4>1 DEF atNext
            <4> QED BY <1>1, <4>1, <4>2, PropositionsDescend
        <3> QED BY <3>1, <3>2
    <2>4. ~ AllMatched(c, d, R)
        BY <1>1, <1>13, <2>3, WalkFails
    <2> QED BY <1>1, <1>2, <1>3, <1>5, <2>2, <2>4 DEF Subsuming, R
<1> QED BY <1>3, <1>10, <1>11, <1>12, <1>13

\* The rest of the step_next literals is passed over.
LEMMA SkipNextKeeps ==
  ASSUME Subsuming, task = "subsumes", SkipNext
  PROVE  Subsuming'
<1>1. /\ mode \in Modes /\ c \in HeldIn(mode) /\ d \in HeldIn(mode) /\ merged = <<>>
      /\ pc = "skip next" /\ c # <<>> /\ Len(c) <= Len(d) /\ p = 1 /\ q \in 1 .. Len(d) + 1
      /\ Movable /\ d[1].attr = "step_next" /\ ~ AllMatched(c, d, MovedTo("step_next"))
      /\ \A j \in 1 .. Len(d) : j < q => d[j].attr = "step_next"
    BY DEF Subsuming, SkipNext
<1>2. UNCHANGED <<mode, task, list, c, d, p, merged, result>>
    BY DEF SkipNext
<1>3. Len(c) \in Nat /\ Len(d) \in Nat /\ q \in 1 .. Len(d) + 1
    BY <1>1, VectorFacts
<1>4. Movable' <=> Movable
    BY <1>2 DEF Movable
<1>5. CASE atNext
    <2>1. q' = q + 1 /\ pc' = pc
        BY <1>5 DEF SkipNext
    <2>2. q \in 1 .. Len(d) /\ d[q].attr = "step_next"
        BY <1>3, <1>5 DEF atNext
    <2>3. q + 1 \in 1 .. Len(d) + 1 /\ \A j \in 1 .. Len(d) : j < q + 1 => j < q \/ j = q
        BY <1>3, <2>2
    <2>4. \A j \in 1 .. Len(d) : j < q + 1 => d[j].attr = "step_next"
        BY <1>1, <2>2, <2>3
    <2> QED BY <1>1, <1>2, <1>4, <2>1, <2>3, <2>4 DEF Subsuming
<1>6. CASE ~ atNext
    <2>1. q' = q /\ pc' = "as now"
        BY <1>6 DEF SkipNext
    <2>2. ASSUME NEW j \in 1 .. Len(d), q <= j
          PROVE  d[j].attr = "step_now"
        <3>1. q \in 1 .. Len(d) /\ (j = q \/ q < j)
            BY <1>3, <2>2
        <3>2. d[q].attr # "step_next"
            BY <1>6, <3>1 DEF atNext
        <3>3. d[j].attr # "step_next"
            BY <1>1, <3>1, <3>2, PropositionsDescend
        <3>4. d # <<>>
            BY <3>1
        <3>5. d[j] \in ToSet(d)
            BY <1>1, VectorFacts
        <3> QED BY <1>1, <3>3, <3>4, <3>5, FirstLeads
    <2>3. \A b \in 1 .. Len(d) : b < q => \A a : <<c[a], d[b]>> \notin MovedTo("step_now")
        BY <1>1 DEF MovedTo
    <2>4. Walked(c, d, MovedTo("step_now"), p, q)
        <3>1. p = 1
            BY <1>1
        <3> QED BY <1>3, <2>3, <3>1 DEF Walked
    <2> QED BY <1>1, <1>2, <1>4, <2>1, <2>2, <2>4 DEF Subsuming
<1> QED BY <1>5, <1>6

\* The walk over the step_now literals of d.
LEMMA AsNowKeeps ==
  ASSUME Subsuming, task = "subsumes", WalkAsNow
  PROVE  Subsuming'
<1> DEFINE R == MovedTo("step_now")
<1>1. /\ mode \in Modes /\ c \in HeldIn(mode) /\ d \in HeldIn(mode) /\ merged = <<>>
      /\ pc = "as now" /\ c # <<>> /\ Len(c) <= Len(d) /\ Walked(c, d, R, p, q)
      /\ Movable /\ d[1].attr = "step_next" /\ ~ AllMatched(c, d, MovedTo("step_next"))
      /\ \A j \in 1 .. Len(d) : q <= j => d[j].attr = "step_now"
    BY DEF Subsuming, WalkAsNow
<1>2. UNCHANGED <<mode, task, list, c, d, merged>>
    BY DEF WalkAsNow
<1>3. /\ Len(c) \in Nat /\ Len(d) \in Nat
      /\ p \in 1 .. Len(c) + 1 /\ q \in 1 .. Len(d) + 1
    BY <1>1, VectorFacts DEF Walked
<1>4. clauseSubsumesHelper(mode, ToSet(c), ToSet(d)) <=> AllMatched(c, d, R)
    BY <1>1, HelperIs DEF Movable
<1>5. Movable' <=> Movable
    BY <1>2 DEF Movable
<1> HIDE DEF R
<1>6. CASE p > Len(c)
    <2>1. pc' = "returned" /\ result' = TRUE
        BY <1>1, <1>6, Zenon DEF WalkAsNow, return
    <2>2. AllMatched(c, d, R)
        BY <1>1, <1>6, WalkEnds
    <2> QED BY <1>1, <1>2, <1>4, <2>1, <2>2 DEF Subsuming
<1>7. CASE p <= Len(c) /\ q > Len(d)
    <2>1. (p > Len(c)) = FALSE
        BY <1>3, <1>7
    <2>2. pc' = "returned" /\ result' = (p > Len(c))
        BY <1>1, <1>7, Zenon DEF WalkAsNow, return
    <2>3. \A b \in 1 .. Len(d) : ~ q <= b
        BY <1>3, <1>7
    <2>4. ~ AllMatched(c, d, R)
        BY <1>1, <1>7, <2>3, WalkFails
    <2> QED BY <1>1, <1>2, <1>4, <2>1, <2>2, <2>4 DEF Subsuming
<1>8. CASE p <= Len(c) /\ q <= Len(d)
    <2>1. p \in 1 .. Len(c) /\ q \in 1 .. Len(d) /\ ~ p > Len(c) /\ ~ q > Len(d) /\ q <= q
        BY <1>3, <1>8
    <2>2. d[q].attr = "step_now"
        BY <1>1, <2>1
    <2>3. /\ c[p].prop < d[q].prop => \A a \in 1 .. Len(c) : p <= a => <<c[a], d[q]>> \notin R
          /\ Key(c[p]) = Key(d[q]) =>
               /\ <<c[p], d[q]>> \in R
               /\ \A a \in 1 .. Len(c) : p < a => <<c[a], d[q]>> \notin R
          /\ ~ c[p].prop < d[q].prop /\ Key(c[p]) # Key(d[q]) =>
               \A b \in 1 .. Len(d) : q <= b => <<c[p], d[b]>> \notin R
        BY <1>1, <2>1, <2>2, MovedTurn DEF Movable, R
    <2>4. \A j \in 1 .. Len(d) : q + 1 <= j => d[j].attr = "step_now"
        <3>1. \A j \in 1 .. Len(d) : q + 1 <= j => q <= j
            BY <1>3
        <3> QED BY <1>1, <3>1
    <2>5. CASE c[p].prop < d[q].prop
        <3>1. q' = q + 1 /\ p' = p /\ pc' = pc
            BY <2>1, <2>5 DEF WalkAsNow
        <3>2. Walked(c, d, R, p, q + 1)
            BY <1>1, <1>3, <1>8, <2>3, <2>5, WalkSkips
        <3> QED BY <1>1, <1>2, <1>5, <2>4, <3>1, <3>2 DEF Subsuming, R
    <2>6. CASE ~ c[p].prop < d[q].prop /\ Key(c[p]) = Key(d[q])
        <3>1. p' = p + 1 /\ q' = q + 1 /\ pc' = pc
            BY <2>1, <2>6 DEF WalkAsNow
        <3>2. Walked(c, d, R, p + 1, q + 1)
            BY <1>1, <1>3, <1>8, <2>3, <2>6, WalkMatches
        <3> QED BY <1>1, <1>2, <1>5, <2>4, <3>1, <3>2 DEF Subsuming, R
    <2>7. CASE ~ c[p].prop < d[q].prop /\ Key(c[p]) # Key(d[q])
        <3>1. pc' = "returned" /\ result' = FALSE
            BY <2>1, <2>7 DEF WalkAsNow, return
        <3>2. ~ AllMatched(c, d, R)
            BY <1>1, <1>8, <2>3, <2>7, WalkFails
        <3> QED BY <1>1, <1>2, <1>4, <3>1, <3>2 DEF Subsuming
    <2> QED BY <2>5, <2>6, <2>7
<1> QED BY <1>3, <1>6, <1>7, <1>8

\* Every step of a call keeps the walks to what they are to decide.
LEMMA SubsumingKeeps ==
  ASSUME Subsuming, [Next]_vars
  PROVE  Subsuming'
<1>1. UNCHANGED <<mode, task, list>>
    BY DEF Next, Step, Done, vars, MaintainStructure, DropEqual, CheckNeighbours, CompareSizes, WalkAsIs,
           WalkAsNext, SkipNext, WalkAsNow, CheckConditions, Merge, TakeRest
<1>2. CASE task # "subsumes"
    BY <1>1, <1>2 DEF Subsuming
<1>3. CASE task = "subsumes" /\ CompareSizes
    BY <1>3, SizesKeeps
<1>4. CASE task = "subsumes" /\ WalkAsIs
    BY <1>4, AsIsKeeps
<1>5. CASE task = "subsumes" /\ WalkAsNext
    BY <1>5, AsNextKeeps
<1>6. CASE task = "subsumes" /\ SkipNext
    BY <1>6, SkipNextKeeps
<1>7. CASE task = "subsumes" /\ WalkAsNow
    BY <1>7, AsNowKeeps
<1>8. CASE task = "subsumes" /\ (Done \/ UNCHANGED vars)
    <2>1. UNCHANGED <<mode, task, pc, list, c, d, p, q, merged, result>>
        BY <1>8 DEF Done, vars
    <2>2. Movable' <=> Movable
        BY <2>1 DEF Movable
    <2> QED BY <2>1, <2>2 DEF Subsuming
<1>9. task = "subsumes" => pc \in {"sizes", "as is", "as next", "skip next", "as now", "returned"}
    BY DEF Subsuming
<1>10. CASE /\ task = "subsumes"
            /\ ~ (CompareSizes \/ WalkAsIs \/ WalkAsNext \/ SkipNext \/ WalkAsNow \/ Done \/ UNCHANGED vars)
    BY <1>9, <1>10 DEF Next, Step, MaintainStructure, DropEqual, CheckNeighbours, CheckConditions, Merge, TakeRest
<1> QED BY <1>2, <1>3, <1>4, <1>5, <1>6, <1>7, <1>8, <1>10

-----------------------------------------------------------------------------
(***************************************************************************)
(* The merge of two vectors.                                               *)
(***************************************************************************)
\* The literal of s at i in the resolvent with t.
Moved(s, t, i) == setAttribute(s[i], transform(s[1].attr, t[1].attr, s[i].attr))

\* In r are the literals of s before i and those of t before j, above all
\* that are left.
MergedSoFar(s, t, i, j, r) ==
  /\ i \in 2 .. Len(s) + 1 /\ j \in 2 .. Len(t) + 1
  /\ r \in Seq(Literals) /\ Strict(r)
  /\ ToSet(r) = {Moved(s, t, a) : a \in 2 .. i - 1} \cup {Moved(t, s, b) : b \in 2 .. j - 1}
  /\ \A x \in 1 .. Len(r) :
       /\ \A a \in 2 .. Len(s) : i <= a => LiteralLess(Moved(s, t, a), r[x])
       /\ \A b \in 2 .. Len(t) : j <= b => LiteralLess(Moved(t, s, b), r[x])

Resolving ==
  task = "resolve" =>
    /\ mode \in Modes /\ c \in HeldIn(mode) \ {<<>>} /\ d \in HeldIn(mode) \ {<<>>}
    /\ pc \in {"conditions", "merge", "returned"}
    /\ pc = "conditions" => merged = <<>>
    /\ pc = "merge" => areCompatible(mode, c[1].attr, d[1].attr) /\ MergedSoFar(c, d, p, q, merged)
    /\ pc = "returned" =>
         /\ merged \in Seq(Literals) /\ Strict(merged)
         /\ result \in BOOLEAN
         /\ resolveMaximals(mode, ToSet(c), ToSet(d)) = IF result THEN {ToSet(merged)} ELSE {}

\* Initial clauses are not resolved with step clauses in any mode.
LEMMA NotCompatible ==
  ASSUME NEW m \in Modes, NEW x, NEW y, areCompatible(m, x, y)
  PROVE  {x, y} # {"initial", "step_next"}
<1>1. CASE m = "normal"
    BY <1>1 DEF areCompatible
<1>2. CASE m # "normal"
    <2>1. "initial" \notin {x, y}
        BY <1>2 DEF areCompatible
    <2> QED BY <2>1
<1> QED BY <1>1, <1>2

\* One of two compatible clauses, its attributes transformed, stays in order.
LEMMA MovedInOrder ==
  ASSUME NEW m \in Modes, NEW s \in HeldIn(m), NEW t \in HeldIn(m), s # <<>>, t # <<>>,
         areCompatible(m, s[1].attr, t[1].attr)
  PROVE  \A i, j \in 1 .. Len(s) : i < j => LiteralLess(Moved(s, t, j), Moved(s, t, i))
<1> DEFINE a == s[1].attr
           b == t[1].attr
<1>1. /\ \A i \in 1 .. Len(s) : s[i] \in ToSet(s)
      /\ Comparable(ToSet(s)) /\ Comparable(ToSet(t))
      /\ \A i, j \in 1 .. Len(s) : i < j => LiteralLess(s[j], s[i])
    BY VectorFacts DEF Strict
<1>2. a \in Attributes /\ b \in Attributes
    BY <1>1, FirstLeads DEF Comparable, Literals
<1>3. {a, b} # {"initial", "step_next"}
    BY NotCompatible
<1>4. /\ a = "step_next" => \A i \in 1 .. Len(s) : s[i].attr \in {"step_now", "step_next"}
      /\ a # "step_next" => \A i \in 1 .. Len(s) : s[i].attr = a
    BY <1>1, FirstLeads
<1>5. \A i \in 1 .. Len(s) : Moved(s, t, i) = setAttribute(s[i], transform(a, b, s[i].attr))
    BY DEF Moved
<1>6. \A i \in 1 .. Len(s) : s[i] \in Literals
    BY <1>1 DEF Comparable
<1> HIDE DEF a, b
<1>7. CASE a = "step_next"
    <2> SUFFICES ASSUME NEW i \in 1 .. Len(s) PROVE Moved(s, t, i) = s[i]
        BY <1>1
    <2>1. s[i].attr \in {"step_now", "step_next"}
        BY <1>4, <1>7
    <2>2. "initial" \notin {a, b}
        BY <1>3, <1>7
    <2>3. transform(a, b, s[i].attr) = s[i].attr
        BY <1>7, <2>1, <2>2 DEF transform
    <2> QED BY <1>5, <1>6, <2>3 DEF setAttribute, Literals
<1>8. CASE a # "step_next"
    <2> SUFFICES ASSUME NEW i \in 1 .. Len(s), NEW j \in 1 .. Len(s), i < j
                 PROVE  LiteralLess(Moved(s, t, j), Moved(s, t, i))
        OBVIOUS
    <2> DEFINE e == transform(a, b, a)
    <2>1. s[i].attr = a /\ s[j].attr = a
        BY <1>4, <1>8
    <2>2. s[j].prop < s[i].prop
        BY <1>8, <2>1, PropositionsDescend
    <2>3. Moved(s, t, i) = setAttribute(s[i], e) /\ Moved(s, t, j) = setAttribute(s[j], e)
        BY <1>5, <2>1
    <2> HIDE DEF e
    <2> QED BY <2>2, <2>3 DEF setAttribute, LiteralLess
<1> QED BY <1>7, <1>8

\* What is put together is of one kind.
LEMMA MovedKind ==
  ASSUME NEW m \in Modes, NEW s \in HeldIn(m), NEW t \in HeldIn(m), s # <<>>, t # <<>>,
         areCompatible(m, s[1].attr, t[1].attr)
  PROVE  \E T \in {{"initial"}, {"universal"}, {"step_now", "step_next"}} :
           /\ \A i \in 1 .. Len(s) : Moved(s, t, i) \in Literals /\ Moved(s, t, i).attr \in T
           /\ \A i \in 1 .. Len(t) : Moved(t, s, i) \in Literals /\ Moved(t, s, i).attr \in T
<1> DEFINE a == s[1].attr
           b == t[1].attr
<1>1. /\ \A i \in 1 .. Len(s) : s[i] \in ToSet(s) /\ s[i] \in Literals
      /\ \A i \in 1 .. Len(t) : t[i] \in ToSet(t) /\ t[i] \in Literals
    BY VectorFacts DEF Comparable
<1>2. a \in Attributes /\ b \in Attributes
    BY <1>1, FirstLeads DEF Literals
<1>3. {a, b} # {"initial", "step_next"}
    BY NotCompatible
<1>4. /\ a = "step_next" => \A i \in 1 .. Len(s) : s[i].attr \in {"step_now", "step_next"}
      /\ a # "step_next" => \A i \in 1 .. Len(s) : s[i].attr = a
      /\ b = "step_next" => \A i \in 1 .. Len(t) : t[i].attr \in {"step_now", "step_next"}
      /\ b # "step_next" => \A i \in 1 .. Len(t) : t[i].attr = b
    BY <1>1, FirstLeads
<1>5. /\ \A i \in 1 .. Len(s) : Moved(s, t, i) = setAttribute(s[i], transform(a, b, s[i].attr))
      /\ \A i \in 1 .. Len(t) : Moved(t, s, i) = setAttribute(t[i], transform(b, a, t[i].attr))
    BY DEF Moved
<1> HIDE DEF a, b
<1>6. \A x, y, z : /\ "initial" \in {x, y} /\ {x, y} # {"initial", "step_next"} /\ {x, y} \subseteq Attributes
                     => transform(x, y, z) = "initial"
                   /\ {x, y} \subseteq {"universal", "step_now"} => transform(x, y, z) = "universal"
    BY DEF transform, Attributes
<1>7. ASSUME NEW x, NEW y, NEW z,
             {x, y} \subseteq {"universal", "step_now", "step_next"}, "step_next" \in {x, y},
             IF x = "step_next" THEN z \in {"step_now", "step_next"} ELSE z = x
      PROVE  transform(x, y, z) \in {"step_now", "step_next"}
    <2>1. "initial" \notin {x, y} /\ ~ {x, y} \subseteq {"universal", "step_now"}
        BY <1>7
    <2>2. CASE x = "step_next"
        <3>1. transform(x, y, z) = z
            BY <1>7, <2>1, <2>2 DEF transform
        <3> QED BY <1>7, <2>2, <3>1
    <2>3. CASE x = "step_now"
        <3>1. transform(x, y, z) = "step_next"
            BY <1>7, <2>1, <2>3 DEF transform
        <3> QED BY <3>1
    <2>4. CASE x = "universal"
        <3>1. y = "step_next" /\ z = "universal" /\ z \notin {"step_now", "step_next"}
            BY <1>7, <2>4
        <3>2. transform(x, y, z) = "step_next"
            BY <2>1, <2>4, <3>1 DEF transform
        <3> QED BY <3>2
    <2> QED BY <1>7, <2>2, <2>3, <2>4
<1>8. PICK T \in {{"initial"}, {"universal"}, {"step_now", "step_next"}} :
        /\ \A i \in 1 .. Len(s) : transform(a, b, s[i].attr) \in T
        /\ \A i \in 1 .. Len(t) : transform(b, a, t[i].attr) \in T
    <2>1. CASE "initial" \in {a, b}
        BY <1>2, <1>3, <1>6, <2>1
    <2>2. CASE {a, b} \subseteq {"universal", "step_now"}
        BY <1>6, <2>2
    <2>3. CASE {a, b} \subseteq {"universal", "step_now", "step_next"} /\ "step_next" \in {a, b}
        BY <1>4, <1>7, <2>3
    <2> QED BY <1>2, <2>1, <2>2, <2>3 DEF Attributes
<1>9. T \subseteq Attributes
    BY DEF Attributes
<1>10. \A l \in Literals, x \in T : setAttribute(l, x) \in Literals /\ setAttribute(l, x).attr \in T
    BY <1>9 DEF setAttribute, Literals
<1>11. /\ \A i \in 1 .. Len(s) : Moved(s, t, i) \in Literals /\ Moved(s, t, i).attr \in T
       /\ \A i \in 1 .. Len(t) : Moved(t, s, i) \in Literals /\ Moved(t, s, i).attr \in T
    <2>1. \A i \in 1 .. Len(s) : s[i] \in Literals /\ transform(a, b, s[i].attr) \in T
        BY <1>1, <1>8
    <2>2. \A i \in 1 .. Len(t) : t[i] \in Literals /\ transform(b, a, t[i].attr) \in T
        BY <1>1, <1>8
    <2> QED BY <1>5, <1>10, <2>1, <2>2
<1> QED BY <1>11

\* The resolvent as a set, whose literals in one place are the same or contrary.
LEMMA MergedIs ==
  ASSUME NEW m \in Modes, NEW s \in HeldIn(m), NEW t \in HeldIn(m), s # <<>>, t # <<>>,
         areCompatible(m, s[1].attr, t[1].attr)
  PROVE  LET U == {Moved(s, t, i) : i \in 2 .. Len(s)} \cup {Moved(t, s, i) : i \in 2 .. Len(t)}
         IN  /\ Merged(ToSet(s), ToSet(t)) = U
             /\ U \in Clauses /\ OneKind(U) /\ Comparable(U)
             /\ \A i \in 2 .. Len(s) : Moved(s, t, i) \in U
             /\ \A i \in 2 .. Len(t) : Moved(t, s, i) \in U
<1> DEFINE a == s[1].attr
           b == t[1].attr
           U == {Moved(s, t, i) : i \in 2 .. Len(s)} \cup {Moved(t, s, i) : i \in 2 .. Len(t)}
<1>1. \A n \in HeldIn(m) : n # <<>> =>
        /\ ToSet(n) \ {n[1]} = {n[i] : i \in 2 .. Len(n)}
        /\ \A i \in 2 .. Len(n) : i \in 1 .. Len(n)
    <2> SUFFICES ASSUME NEW n \in HeldIn(m), n # <<>>
                 PROVE  /\ ToSet(n) \ {n[1]} = {n[i] : i \in 2 .. Len(n)}
                        /\ \A i \in 2 .. Len(n) : i \in 1 .. Len(n)
        OBVIOUS
    <2>1. /\ Len(n) \in Nat /\ 1 \in 1 .. Len(n) /\ Comparable(ToSet(n))
          /\ \A i, j \in 1 .. Len(n) : i < j => LiteralLess(n[j], n[i])
          /\ \A i \in 1 .. Len(n) : n[i] \in ToSet(n)
          /\ \A l \in ToSet(n) : \E i \in 1 .. Len(n) : l = n[i]
        BY VectorFacts, FirstLeads DEF Strict
    <2>2. \A i \in 1 .. Len(n) : i = 1 \/ i \in 2 .. Len(n)
        BY <2>1
    <2>3. \A i \in 2 .. Len(n) : i \in 1 .. Len(n) /\ 1 < i
        BY <2>1
    <2>4. \A i \in 2 .. Len(n) : n[i] # n[1]
        BY <2>1, <2>3, WeakOrder
    <2> QED BY <2>1, <2>2, <2>3, <2>4
<1>2. /\ leadingAttribute(ToSet(s)) = a /\ getLeadingLiteral(ToSet(s)) = s[1]
      /\ leadingAttribute(ToSet(t)) = b /\ getLeadingLiteral(ToSet(t)) = t[1]
    BY FirstLeads
<1>3. /\ Transformed({s[i] : i \in 2 .. Len(s)}, a, b) = {Moved(s, t, i) : i \in 2 .. Len(s)}
      /\ Transformed({t[i] : i \in 2 .. Len(t)}, b, a) = {Moved(t, s, i) : i \in 2 .. Len(t)}
    BY DEF Transformed, Moved
<1>4. Merged(ToSet(s), ToSet(t)) = U
    BY <1>1, <1>2, <1>3 DEF Merged
<1>5. PICK T \in {{"initial"}, {"universal"}, {"step_now", "step_next"}} :
           /\ \A i \in 1 .. Len(s) : Moved(s, t, i) \in Literals /\ Moved(s, t, i).attr \in T
           /\ \A i \in 1 .. Len(t) : Moved(t, s, i) \in Literals /\ Moved(t, s, i).attr \in T
    BY MovedKind
<1>6. U \in Clauses /\ \A l \in U : l.attr \in T
    BY <1>1, <1>5 DEF Clauses
<1>7. OneKind(U)
    BY <1>6 DEF OneKind, AttributesOf
<1>8. Comparable(U)
    BY <1>6, <1>7, OneKindComparable
<1> QED BY <1>4, <1>6, <1>7, <1>8

\* A literal below all of a vector in strict order may be put at its end.
LEMMA AppendStrict ==
  ASSUME NEW r \in Seq(Literals), Strict(r), NEW l \in Literals,
         \A x \in 1 .. Len(r) : LiteralLess(l, r[x])
  PROVE  /\ Append(r, l) \in Seq(Literals) /\ Strict(Append(r, l))
         /\ ToSet(Append(r, l)) = ToSet(r) \cup {l}
         /\ \A x \in 1 .. Len(Append(r, l)) :
              Append(r, l)[x] = l \/ \E y \in 1 .. Len(r) : Append(r, l)[x] = r[y]
<1> DEFINE e == Append(r, l)
           n == Len(r)
<1>1. /\ e \in Seq(Literals) /\ Len(e) = n + 1 /\ e[n + 1] = l
      /\ \A i \in 1 .. n : e[i] = r[i]
    BY AppendProperties
<1>2. n \in Nat /\ DOMAIN r = 1 .. n /\ DOMAIN e = 1 .. n + 1
    BY <1>1, LenProperties
<1>3. 1 .. n + 1 = 1 .. n \cup {n + 1}
    BY <1>2
<1> HIDE DEF e, n
<1>4. ToSet(e) = ToSet(r) \cup {l}
    BY <1>1, <1>2, <1>3 DEF ToSet
<1>5. Strict(e)
    <2> SUFFICES ASSUME NEW i \in 1 .. n + 1, NEW j \in 1 .. n + 1, i < j
                 PROVE  LiteralLess(e[j], e[i])
        BY <1>1 DEF Strict
    <2>1. i \in 1 .. n
        BY <1>2
    <2>2. CASE j \in 1 .. n
        BY <1>1, <2>1, <2>2 DEF Strict, n
    <2>3. CASE j = n + 1
        BY <1>1, <2>1, <2>3 DEF n
    <2> QED BY <1>3, <2>2, <2>3
<1> QED BY <1>1, <1>3, <1>4, <1>5 DEF e, n

\* The two clauses may change places.
LEMMA MergedSwaps ==
  ASSUME NEW s, NEW t, NEW i, NEW j, NEW r, MergedSoFar(s, t, i, j, r)
  PROVE  MergedSoFar(t, s, j, i, r)
BY DEF MergedSoFar

\* The next literal of one clause is taken.
LEMMA TakesOne ==
  ASSUME NEW s, NEW t, NEW i, NEW j, NEW r, Len(s) \in Nat, Len(t) \in Nat,
         MergedSoFar(s, t, i, j, r), i <= Len(s), Moved(s, t, i) \in Literals,
         \A a \in 2 .. Len(s) : i < a => LiteralLess(Moved(s, t, a), Moved(s, t, i)),
         \A b \in 2 .. Len(t) : j <= b => LiteralLess(Moved(t, s, b), Moved(s, t, i))
  PROVE  MergedSoFar(s, t, i + 1, j, Append(r, Moved(s, t, i)))
<1> DEFINE l == Moved(s, t, i)
           e == Append(r, l)
           W(a) == Moved(s, t, a)
           V == {Moved(t, s, b) : b \in 2 .. j - 1}
<1>1. /\ i \in 2 .. Len(s) + 1 /\ j \in 2 .. Len(t) + 1
      /\ r \in Seq(Literals) /\ Strict(r)
      /\ ToSet(r) = {W(a) : a \in 2 .. i - 1} \cup V
    BY DEF MergedSoFar
<1>2. /\ \A x \in 1 .. Len(r) : \A a \in 2 .. Len(s) : i <= a => LiteralLess(W(a), r[x])
      /\ \A x \in 1 .. Len(r) : \A b \in 2 .. Len(t) : j <= b => LiteralLess(Moved(t, s, b), r[x])
    BY DEF MergedSoFar
<1>3. /\ i \in 2 .. Len(s) /\ i + 1 \in 2 .. Len(s) + 1 /\ i <= i
      /\ (i + 1) - 1 = i /\ 2 .. i = 2 .. i - 1 \cup {i}
      /\ \A a \in 2 .. Len(s) : i + 1 <= a => i < a /\ i <= a
    BY <1>1
<1>4. \A x \in 1 .. Len(r) : LiteralLess(l, r[x])
    BY <1>2, <1>3
<1> HIDE DEF l, W, V
<1>5. /\ e \in Seq(Literals) /\ Strict(e) /\ ToSet(e) = ToSet(r) \cup {l}
      /\ \A x \in 1 .. Len(e) : e[x] = l \/ \E y \in 1 .. Len(r) : e[x] = r[y]
    BY <1>1, <1>4, AppendStrict DEF l
<1> HIDE DEF e
<1>6. {W(a) : a \in 2 .. i} = {W(a) : a \in 2 .. i - 1} \cup {W(i)}
    BY <1>3
<1>7. l = W(i)
    BY DEF l, W
<1>8. ToSet(e) = {W(a) : a \in 2 .. (i + 1) - 1} \cup V
    BY <1>1, <1>3, <1>5, <1>6, <1>7
<1>9. \A a \in 2 .. Len(s) : i < a => LiteralLess(W(a), l)
    BY DEF l, W
<1>10. \A b \in 2 .. Len(t) : j <= b => LiteralLess(Moved(t, s, b), l)
    BY DEF l
<1>11. \A x \in 1 .. Len(e) : \A a \in 2 .. Len(s) : i + 1 <= a => LiteralLess(W(a), e[x])
    BY <1>2, <1>3, <1>5, <1>9
<1>12. \A x \in 1 .. Len(e) : \A b \in 2 .. Len(t) : j <= b => LiteralLess(Moved(t, s, b), e[x])
    BY <1>2, <1>5, <1>10
<1>13. MergedSoFar(s, t, i + 1, j, e)
    BY <1>1, <1>3, <1>5, <1>8, <1>11, <1>12 DEF MergedSoFar, W, V
<1> QED BY <1>13 DEF e, l

\* The same literal is next in both and taken once.
LEMMA TakesBoth ==
  ASSUME NEW s, NEW t, NEW i, NEW j, NEW r, Len(s) \in Nat, Len(t) \in Nat,
         MergedSoFar(s, t, i, j, r), i <= Len(s), j <= Len(t), Moved(s, t, i) \in Literals,
         Moved(s, t, i) = Moved(t, s, j),
         \A a \in 2 .. Len(s) : i < a => LiteralLess(Moved(s, t, a), Moved(s, t, i)),
         \A b \in 2 .. Len(t) : j < b => LiteralLess(Moved(t, s, b), Moved(s, t, i))
  PROVE  MergedSoFar(s, t, i + 1, j + 1, Append(r, Moved(s, t, i)))
<1> DEFINE l == Moved(s, t, i)
           e == Append(r, l)
           W(a) == Moved(s, t, a)
           V(b) == Moved(t, s, b)
<1>1. /\ i \in 2 .. Len(s) + 1 /\ j \in 2 .. Len(t) + 1
      /\ r \in Seq(Literals) /\ Strict(r)
      /\ ToSet(r) = {W(a) : a \in 2 .. i - 1} \cup {V(b) : b \in 2 .. j - 1}
    BY DEF MergedSoFar
<1>2. /\ \A x \in 1 .. Len(r) : \A a \in 2 .. Len(s) : i <= a => LiteralLess(W(a), r[x])
      /\ \A x \in 1 .. Len(r) : \A b \in 2 .. Len(t) : j <= b => LiteralLess(V(b), r[x])
    BY DEF MergedSoFar
<1>3. /\ i \in 2 .. Len(s) /\ i + 1 \in 2 .. Len(s) + 1 /\ i <= i
      /\ (i + 1) - 1 = i /\ 2 .. i = 2 .. i - 1 \cup {i}
      /\ \A a \in 2 .. Len(s) : i + 1 <= a => i < a /\ i <= a
    BY <1>1
<1>4. /\ j + 1 \in 2 .. Len(t) + 1
      /\ (j + 1) - 1 = j /\ 2 .. j = 2 .. j - 1 \cup {j}
      /\ \A b \in 2 .. Len(t) : j + 1 <= b => j < b /\ j <= b
    BY <1>1
<1>5. \A x \in 1 .. Len(r) : LiteralLess(l, r[x])
    BY <1>2, <1>3
<1> HIDE DEF l, W, V
<1>6. /\ e \in Seq(Literals) /\ Strict(e) /\ ToSet(e) = ToSet(r) \cup {l}
      /\ \A x \in 1 .. Len(e) : e[x] = l \/ \E y \in 1 .. Len(r) : e[x] = r[y]
    BY <1>1, <1>5, AppendStrict DEF l
<1> HIDE DEF e
<1>7. {W(a) : a \in 2 .. i} = {W(a) : a \in 2 .. i - 1} \cup {W(i)}
    BY <1>3
<1>8. {V(b) : b \in 2 .. j} = {V(b) : b \in 2 .. j - 1} \cup {V(j)}
    BY <1>4
<1>9. l = W(i) /\ l = V(j)
    BY DEF l, W, V
<1>10. ToSet(e) = {W(a) : a \in 2 .. (i + 1) - 1} \cup {V(b) : b \in 2 .. (j + 1) - 1}
    BY <1>1, <1>3, <1>4, <1>6, <1>7, <1>8, <1>9
<1>11. \A a \in 2 .. Len(s) : i < a => LiteralLess(W(a), l)
    BY DEF l, W
<1>12. \A b \in 2 .. Len(t) : j < b => LiteralLess(V(b), l)
    BY DEF l, V
<1>13. \A x \in 1 .. Len(e) : \A a \in 2 .. Len(s) : i + 1 <= a => LiteralLess(W(a), e[x])
    BY <1>2, <1>3, <1>6, <1>11
<1>14. \A x \in 1 .. Len(e) : \A b \in 2 .. Len(t) : j + 1 <= b => LiteralLess(V(b), e[x])
    BY <1>2, <1>4, <1>6, <1>12
<1>15. MergedSoFar(s, t, i + 1, j + 1, e)
    BY <1>1, <1>3, <1>4, <1>6, <1>10, <1>13, <1>14 DEF MergedSoFar, W, V
<1> QED BY <1>15 DEF e, l

\* The facts about the literals left that a turn of the merge rests on.
LEMMA MergeFacts ==
  ASSUME NEW m \in Modes, NEW s \in HeldIn(m) \ {<<>>}, NEW t \in HeldIn(m) \ {<<>>},
         areCompatible(m, s[1].attr, t[1].attr)
  PROVE  /\ areCompatible(m, t[1].attr, s[1].attr)
         /\ Len(s) \in Nat /\ Len(t) \in Nat
         /\ \A i \in 2 .. Len(s) : Moved(s, t, i) \in Literals
         /\ \A i, j \in 2 .. Len(s) : i < j => LiteralLess(Moved(s, t, j), Moved(s, t, i))
         /\ \A i \in 2 .. Len(t) : Moved(t, s, i) \in Literals
         /\ \A i, j \in 2 .. Len(t) : i < j => LiteralLess(Moved(t, s, j), Moved(t, s, i))
<1>1. areCompatible(m, t[1].attr, s[1].attr)
    <2>1. {s[1].attr, t[1].attr} = {t[1].attr, s[1].attr}
        OBVIOUS
    <2> QED BY <2>1 DEF areCompatible
<1>2. Len(s) \in Nat /\ Len(t) \in Nat
    BY VectorFacts
<1>3. (\A i \in 2 .. Len(s) : i \in 1 .. Len(s)) /\ \A i \in 2 .. Len(t) : i \in 1 .. Len(t)
    BY <1>2
<1>4. /\ \A i, j \in 1 .. Len(s) : i < j => LiteralLess(Moved(s, t, j), Moved(s, t, i))
      /\ \A i, j \in 1 .. Len(t) : i < j => LiteralLess(Moved(t, s, j), Moved(t, s, i))
    BY <1>1, MovedInOrder
<1>5. /\ \A i \in 1 .. Len(s) : Moved(s, t, i) \in Literals
      /\ \A i \in 1 .. Len(t) : Moved(t, s, i) \in Literals
    BY MovedKind
<1> QED BY <1>1, <1>2, <1>3, <1>4, <1>5

\* What resolveMaximals returns, said of the two vectors.
LEMMA ResolventIs ==
  ASSUME NEW m \in Modes, NEW s \in HeldIn(m) \ {<<>>}, NEW t \in HeldIn(m) \ {<<>>}
  PROVE  /\ ~ areCompatible(m, s[1].attr, t[1].attr) => resolveMaximals(m, ToSet(s), ToSet(t)) = {}
         /\ areCompatible(m, s[1].attr, t[1].attr) =>
              resolveMaximals(m, ToSet(s), ToSet(t)) =
                IF isCorrect(m, Merged(ToSet(s), ToSet(t))) THEN {Merged(ToSet(s), ToSet(t))} ELSE {}
<1>1. leadingAttribute(ToSet(s)) = s[1].attr /\ leadingAttribute(ToSet(t)) = t[1].attr
    BY FirstLeads
<1> QED BY <1>1 DEF resolveMaximals

\* The conditions on the attributes.
LEMMA ConditionsKeeps ==
  ASSUME Resolving, task = "resolve", CheckConditions
  PROVE  Resolving'
<1>1. /\ mode \in Modes /\ c \in HeldIn(mode) \ {<<>>} /\ d \in HeldIn(mode) \ {<<>>}
      /\ pc = "conditions" /\ merged = <<>>
    BY DEF Resolving, CheckConditions
<1>2. UNCHANGED <<mode, task, list, c, d, merged>>
    BY DEF CheckConditions
<1>3. Len(<<>>) = 0 /\ DOMAIN <<>> = {} /\ <<>> \in Seq(Literals) /\ 1 .. 0 = {}
    OBVIOUS
<1>4. Strict(<<>>) /\ ToSet(<<>>) = {}
    BY <1>3 DEF Strict, ToSet
<1>5. CASE areCompatible(mode, c[1].attr, d[1].attr)
    <2>1. pc' = "merge" /\ p' = 2 /\ q' = 2
        BY <1>5 DEF CheckConditions
    <2>2. 1 \in 1 .. Len(c) /\ 1 \in 1 .. Len(d) /\ Len(c) \in Nat /\ Len(d) \in Nat
        BY <1>1, FirstLeads, VectorFacts
    <2>3. 2 \in 2 .. Len(c) + 1 /\ 2 \in 2 .. Len(d) + 1 /\ 2 .. 2 - 1 = {}
        BY <2>2
    <2>4. {Moved(c, d, a) : a \in 2 .. 2 - 1} \cup {Moved(d, c, b) : b \in 2 .. 2 - 1} = {}
        BY <2>3
    <2>5. MergedSoFar(c, d, 2, 2, <<>>)
        BY <1>3, <1>4, <2>3, <2>4 DEF MergedSoFar
    <2> QED BY <1>1, <1>2, <1>5, <2>1, <2>5 DEF Resolving
<1>6. CASE ~ areCompatible(mode, c[1].attr, d[1].attr)
    <2>1. pc' = "returned" /\ result' = FALSE
        BY <1>6 DEF CheckConditions, return
    <2>2. resolveMaximals(mode, ToSet(c), ToSet(d)) = {}
        BY <1>1, <1>6, ResolventIs
    <2> QED BY <1>1, <1>2, <1>3, <1>4, <2>1, <2>2 DEF Resolving
<1> QED BY <1>5, <1>6

\* A turn of the merge while there are literals on both sides.
LEMMA MergeKeeps ==
  ASSUME Resolving, task = "resolve", Merge
  PROVE  Resolving'
<1> DEFINE k == Moved(c, d, p)
           l == Moved(d, c, q)
           U == {Moved(c, d, i) : i \in 2 .. Len(c)} \cup {Moved(d, c, i) : i \in 2 .. Len(d)}
<1>1. /\ mode \in Modes /\ c \in HeldIn(mode) \ {<<>>} /\ d \in HeldIn(mode) \ {<<>>}
      /\ pc = "merge" /\ areCompatible(mode, c[1].attr, d[1].attr) /\ MergedSoFar(c, d, p, q, merged)
    BY DEF Resolving, Merge
<1>2. UNCHANGED <<mode, task, list, c, d>> /\ p <= Len(c) /\ q <= Len(d)
    BY DEF Merge
<1>3. fromC = k /\ fromD = l
    BY DEF fromC, fromD, Moved
<1>4. Len(c) \in Nat /\ Len(d) \in Nat
    BY <1>1, MergeFacts
<1>5. /\ p \in 2 .. Len(c) + 1 /\ q \in 2 .. Len(d) + 1
      /\ merged \in Seq(Literals) /\ Strict(merged)
    BY <1>1 DEF MergedSoFar
<1>6. p \in 2 .. Len(c) /\ q \in 2 .. Len(d)
    BY <1>2, <1>4, <1>5
<1>7. /\ Merged(ToSet(c), ToSet(d)) = U
      /\ U \in Clauses /\ OneKind(U) /\ Comparable(U)
      /\ \A i \in 2 .. Len(c) : Moved(c, d, i) \in U
      /\ \A i \in 2 .. Len(d) : Moved(d, c, i) \in U
    BY <1>1, MergedIs
<1>8. k \in U /\ l \in U /\ k \in Literals /\ l \in Literals
    BY <1>6, <1>7 DEF Clauses
<1>9. /\ \A a \in 2 .. Len(c) : p < a => LiteralLess(Moved(c, d, a), k)
      /\ \A b \in 2 .. Len(d) : q < b => LiteralLess(Moved(d, c, b), l)
    BY <1>1, <1>6, MergeFacts
<1>10. /\ \A a \in 2 .. Len(c) : p <= a => p < a \/ a = p
       /\ \A b \in 2 .. Len(d) : q <= b => q < b \/ b = q
    BY <1>6
<1> HIDE DEF k, l, U
<1>11. /\ sameLiteral(k, l) <=> k = l
       /\ contrary(k, l) <=> SamePlace(k, l) /\ k # l
    BY <1>1, <1>7, <1>8, KindPlaces DEF sameLiteral, contrary
<1>12. CASE sameLiteral(k, l)
    <2>1. merged' = Append(merged, k) /\ p' = p + 1 /\ q' = q + 1 /\ pc' = pc
        BY <1>3, <1>12 DEF Merge
    <2>2. k = l
        BY <1>11, <1>12
    <2>3. MergedSoFar(c, d, p + 1, q + 1, Append(merged, k))
        BY <1>1, <1>2, <1>4, <1>8, <1>9, <2>2, TakesBoth DEF k, l
    <2> QED BY <1>1, <1>2, <2>1, <2>3 DEF Resolving
<1>13. CASE ~ sameLiteral(k, l) /\ contrary(k, l)
    <2>1. pc' = "returned" /\ result' = FALSE /\ merged' = merged
        BY <1>3, <1>13 DEF Merge, return
    <2>2. ~ isCorrect(mode, U)
        BY <1>8, <1>13 DEF isCorrect, contrary
    <2>3. resolveMaximals(mode, ToSet(c), ToSet(d)) = {}
        BY <1>1, <1>7, <2>2, ResolventIs
    <2> QED BY <1>1, <1>2, <1>5, <2>1, <2>3 DEF Resolving
<1>14. CASE ~ sameLiteral(k, l) /\ ~ contrary(k, l)
    <2>1. ~ SamePlace(k, l)
        BY <1>11, <1>14
    <2>2. CASE LiteralLess(k, l)
        <3>1. dGoesFirst
            BY <1>3, <2>2 DEF dGoesFirst
        <3>2. merged' = Append(merged, l) /\ q' = q + 1 /\ p' = p /\ pc' = pc
            BY <1>3, <1>14, <3>1 DEF Merge, takeD
        <3>3. \A a \in 2 .. Len(c) : p <= a => LiteralLess(Moved(c, d, a), l)
            <4> SUFFICES ASSUME NEW a \in 2 .. Len(c), p <= a PROVE LiteralLess(Moved(c, d, a), l)
                OBVIOUS
            <4>1. CASE a = p
                BY <2>2, <4>1 DEF k
            <4>2. CASE p < a
                BY <1>7, <1>8, <1>9, <2>2, <4>2, WeakOrder
            <4> QED BY <1>10, <4>1, <4>2
        <3>4. MergedSoFar(d, c, q, p, merged)
            BY <1>1, MergedSwaps
        <3>5. MergedSoFar(d, c, q + 1, p, Append(merged, l))
            BY <1>2, <1>4, <1>8, <1>9, <3>3, <3>4, TakesOne DEF l
        <3>6. MergedSoFar(c, d, p, q + 1, Append(merged, l))
            BY <3>5, MergedSwaps
        <3> QED BY <1>1, <1>2, <3>2, <3>6 DEF Resolving
    <2>3. CASE ~ LiteralLess(k, l)
        <3>1. ~ dGoesFirst
            BY <1>3, <2>3 DEF dGoesFirst
        <3>2. merged' = Append(merged, k) /\ p' = p + 1 /\ q' = q /\ pc' = pc
            BY <1>3, <1>14, <3>1 DEF Merge, takeC
        <3>3. LiteralLess(l, k)
            BY <1>7, <1>8, <2>1, <2>3, WeakOrder
        <3>4. \A b \in 2 .. Len(d) : q <= b => LiteralLess(Moved(d, c, b), k)
            <4> SUFFICES ASSUME NEW b \in 2 .. Len(d), q <= b PROVE LiteralLess(Moved(d, c, b), k)
                OBVIOUS
            <4>1. CASE b = q
                BY <3>3, <4>1 DEF l
            <4>2. CASE q < b
                BY <1>7, <1>8, <1>9, <3>3, <4>2, WeakOrder
            <4> QED BY <1>10, <4>1, <4>2
        <3>5. MergedSoFar(c, d, p + 1, q, Append(merged, k))
            BY <1>1, <1>2, <1>4, <1>8, <1>9, <3>4, TakesOne DEF k
        <3> QED BY <1>1, <1>2, <3>2, <3>5 DEF Resolving
    <2> QED BY <2>2, <2>3
<1> QED BY <1>12, <1>13, <1>14

\* The end of the merge.
LEMMA RestKeeps ==
  ASSUME Resolving, task = "resolve", TakeRest
  PROVE  Resolving'
<1> DEFINE k == Moved(c, d, p)
           l == Moved(d, c, q)
           U == {Moved(c, d, i) : i \in 2 .. Len(c)} \cup {Moved(d, c, i) : i \in 2 .. Len(d)}
<1>1. /\ mode \in Modes /\ c \in HeldIn(mode) \ {<<>>} /\ d \in HeldIn(mode) \ {<<>>}
      /\ pc = "merge" /\ areCompatible(mode, c[1].attr, d[1].attr) /\ MergedSoFar(c, d, p, q, merged)
    BY DEF Resolving, TakeRest
<1>2. UNCHANGED <<mode, task, list, c, d>> /\ (p > Len(c) \/ q > Len(d))
    BY DEF TakeRest
<1>3. fromC = k /\ fromD = l
    BY DEF fromC, fromD, Moved
<1>4. Len(c) \in Nat /\ Len(d) \in Nat
    BY <1>1, MergeFacts
<1>5. /\ p \in 2 .. Len(c) + 1 /\ q \in 2 .. Len(d) + 1
      /\ merged \in Seq(Literals) /\ Strict(merged)
      /\ ToSet(merged) = {Moved(c, d, a) : a \in 2 .. p - 1} \cup {Moved(d, c, b) : b \in 2 .. q - 1}
    BY <1>1 DEF MergedSoFar
<1>6. /\ Merged(ToSet(c), ToSet(d)) = U
      /\ U \in Clauses /\ OneKind(U) /\ Comparable(U)
    BY <1>1, MergedIs
<1> HIDE DEF k, l
<1>7. CASE p <= Len(c)
    <2>1. merged' = Append(merged, k) /\ p' = p + 1 /\ q' = q /\ pc' = pc
        BY <1>3, <1>7 DEF TakeRest, takeC
    <2>2. p \in 2 .. Len(c) /\ \A b \in 2 .. Len(d) : ~ q <= b
        BY <1>2, <1>4, <1>5, <1>7
    <2>3. /\ k \in Literals
          /\ \A a \in 2 .. Len(c) : p < a => LiteralLess(Moved(c, d, a), k)
        BY <1>1, <2>2, MergeFacts DEF k
    <2>4. MergedSoFar(c, d, p + 1, q, Append(merged, k))
        BY <1>1, <1>4, <1>7, <2>2, <2>3, TakesOne DEF k
    <2> QED BY <1>1, <1>2, <2>1, <2>4 DEF Resolving
<1>8. CASE p > Len(c) /\ q <= Len(d)
    <2>1. ~ p <= Len(c)
        BY <1>4, <1>5, <1>8
    <2>2. merged' = Append(merged, l) /\ q' = q + 1 /\ p' = p /\ pc' = pc
        BY <1>3, <1>8, <2>1 DEF TakeRest, takeD
    <2>3. q \in 2 .. Len(d) /\ \A a \in 2 .. Len(c) : ~ p <= a
        BY <1>4, <1>5, <1>8
    <2>4. /\ l \in Literals
          /\ \A b \in 2 .. Len(d) : q < b => LiteralLess(Moved(d, c, b), l)
        BY <1>1, <2>3, MergeFacts DEF l
    <2>5. MergedSoFar(d, c, q, p, merged)
        BY <1>1, MergedSwaps
    <2>6. MergedSoFar(d, c, q + 1, p, Append(merged, l))
        BY <1>4, <1>8, <2>3, <2>4, <2>5, TakesOne DEF l
    <2>7. MergedSoFar(c, d, p, q + 1, Append(merged, l))
        BY <2>6, MergedSwaps
    <2> QED BY <1>1, <1>2, <2>2, <2>7 DEF Resolving
<1>9. CASE p > Len(c) /\ q > Len(d)
    <2>1. ~ p <= Len(c) /\ ~ q <= Len(d) /\ p - 1 = Len(c) /\ q - 1 = Len(d)
        BY <1>4, <1>5, <1>9
    <2>2. pc' = "returned" /\ result' = TRUE /\ merged' = merged
        BY <2>1 DEF TakeRest, return
    <2>3. ToSet(merged) = U
        BY <1>5, <2>1
    <2> HIDE DEF U
    <2>4. \A x \in U : \E i \in 1 .. Len(merged) : x = merged[i]
        BY <1>5, <2>3 DEF ToSet
    <2>5. ASSUME NEW x \in U, NEW y \in U, contrary(x, y)
          PROVE  FALSE
        <3>1. PICK i \in 1 .. Len(merged) : x = merged[i]
            BY <2>4
        <3>2. PICK j \in 1 .. Len(merged) : y = merged[j]
            BY <2>4
        <3>3. SamePlace(x, y) /\ x # y
            BY <1>1, <1>6, <2>5, KindPlaces DEF contrary
        <3>4. ~ LiteralLess(x, y) /\ ~ LiteralLess(y, x)
            BY <1>6, <3>3, WeakOrder
        <3>5. i < j \/ j < i
            BY <3>1, <3>2, <3>3
        <3> QED BY <1>5, <3>1, <3>2, <3>4, <3>5 DEF Strict
    <2>6. isCorrect(mode, U)
        BY <2>5 DEF isCorrect, contrary
    <2>7. resolveMaximals(mode, ToSet(c), ToSet(d)) = {ToSet(merged)}
        BY <1>1, <1>6, <2>3, <2>6, ResolventIs
    <2> QED BY <1>1, <1>2, <1>5, <2>2, <2>7 DEF Resolving
<1> QED BY <1>4, <1>5, <1>7, <1>8, <1>9

\* Every step of a call keeps the merge to what it is to put together.
LEMMA ResolvingKeeps ==
  ASSUME Resolving, [Next]_vars
  PROVE  Resolving'
<1>1. UNCHANGED <<mode, task, list>>
    BY DEF Next, Step, Done, vars, MaintainStructure, DropEqual, CheckNeighbours, CompareSizes, WalkAsIs,
           WalkAsNext, SkipNext, WalkAsNow, CheckConditions, Merge, TakeRest
<1>2. CASE task # "resolve"
    BY <1>1, <1>2 DEF Resolving
<1>3. CASE task = "resolve" /\ CheckConditions
    BY <1>3, ConditionsKeeps
<1>4. CASE task = "resolve" /\ Merge
    BY <1>4, MergeKeeps
<1>5. CASE task = "resolve" /\ TakeRest
    BY <1>5, RestKeeps
<1>6. CASE task = "resolve" /\ (Done \/ UNCHANGED vars)
    <2>1. UNCHANGED <<mode, task, pc, list, c, d, p, q, merged, result>>
        BY <1>6 DEF Done, vars
    <2> QED BY <2>1 DEF Resolving
<1>7. task = "resolve" => pc \in {"conditions", "merge", "returned"}
    BY DEF Resolving
<1>8. CASE task = "resolve" /\ ~ (CheckConditions \/ Merge \/ TakeRest \/ Done \/ UNCHANGED vars)
    BY <1>7, <1>8 DEF Next, Step, MaintainStructure, DropEqual, CheckNeighbours, CompareSizes, WalkAsIs,
           WalkAsNext, SkipNext, WalkAsNow
<1> QED BY <1>2, <1>3, <1>4, <1>5, <1>6, <1>8

-----------------------------------------------------------------------------
(***************************************************************************)
(* The theorems.                                                           *)
(***************************************************************************)
Tasks == {"build", "subsumes", "resolve"}

IInv == task \in Tasks /\ Building /\ Subsuming /\ Resolving

\* The calls begin as the invariant says.
LEMMA InvariantInit ==
  ASSUME Init
  PROVE  IInv
<1>1. mode \in Modes /\ p = 1 /\ q = 1 /\ merged = <<>> /\ result = FALSE
    BY DEF Init
<1>2. CASE task = "build"
    <2>1. pc = "sort" /\ list \in Lists /\ c = <<>>
        BY <1>2 DEF Init
    <2> QED BY <1>1, <1>2, <2>1 DEF IInv, Tasks, Building, Subsuming, Resolving
<1>3. CASE task = "subsumes"
    <2>1. pc = "sizes" /\ c \in HeldIn(mode) /\ d \in HeldIn(mode)
        BY <1>3 DEF Init
    <2> QED BY <1>1, <1>3, <2>1 DEF IInv, Tasks, Building, Subsuming, Resolving
<1>4. CASE task = "resolve"
    <2>1. pc = "conditions" /\ c \in HeldIn(mode) \ {<<>>} /\ d \in HeldIn(mode) \ {<<>>}
        BY <1>4 DEF Init
    <2> QED BY <1>1, <1>4, <2>1 DEF IInv, Tasks, Building, Subsuming, Resolving
<1> QED BY <1>2, <1>3, <1>4 DEF Init

\* Every step keeps the invariant.
LEMMA InvariantKeeps ==
  ASSUME IInv, [Next]_vars
  PROVE  IInv'
<1>1. UNCHANGED task
    BY DEF Next, Step, Done, vars, MaintainStructure, DropEqual, CheckNeighbours, CompareSizes, WalkAsIs,
           WalkAsNext, SkipNext, WalkAsNow, CheckConditions, Merge, TakeRest
<1> QED BY <1>1, BuildingKeeps, SubsumingKeeps, ResolvingKeeps DEF IInv

\* In all calls, for all lists and vectors: what the walks return is what
\* TemporalClauses says of the sets of literals.
THEOREM WalksRight == Spec => []WalksDecide
<1>1. IInv => WalksDecide
    <2> SUFFICES ASSUME IInv, pc = "returned" PROVE WalksDecide
        BY DEF WalksDecide
    <2>1. CASE task = "build"
        <3>1. result = isCorrect(mode, ToSet(list)) /\ ToSet(c) = ToSet(list)
            BY <2>1, BuildingRight DEF IInv
        <3> QED BY <2>1, <3>1, Zenon DEF WalksDecide
    <2>2. CASE task = "subsumes"
        <3>1. /\ result \in BOOLEAN
              /\ result <=> clauseSubsumesHelper(mode, ToSet(c), ToSet(d))
            BY <2>2 DEF IInv, Subsuming
        <3>2. clauseSubsumesHelper(mode, ToSet(c), ToSet(d)) \in BOOLEAN
            BY DEF clauseSubsumesHelper, SubsumesHelper, Retag
        <3> DEFINE decided == clauseSubsumesHelper(mode, ToSet(c), ToSet(d))
        <3>3. result = decided
            <4> HIDE DEF decided
            <4> QED BY <3>1, <3>2 DEF decided
        <3> QED BY <2>2, <3>3, Zenon DEF WalksDecide
    <2>3. CASE task = "resolve"
        <3>1. resolveMaximals(mode, ToSet(c), ToSet(d)) = IF result THEN {ToSet(merged)} ELSE {}
            BY <2>3 DEF IInv, Resolving
        <3> QED BY <2>3, <3>1, Zenon DEF WalksDecide
    <2> QED BY <2>1, <2>2, <2>3 DEF IInv, Tasks
<1> QED BY <1>1, InvariantInit, InvariantKeeps, PTL DEF Spec

\* And what is kept of a list and put together in a merge is in order.
THEOREM VectorsInOrder == Spec => []InDescendingOrder
<1>1. IInv => InDescendingOrder
    <2> SUFFICES ASSUME IInv PROVE InDescendingOrder
        OBVIOUS
    <2>1. merged = <<>> \/ (merged \in Seq(Literals) /\ Strict(merged))
        BY DEF IInv, Tasks, Building, Subsuming, Resolving, MergedSoFar
    <2>2. ASSUME merged \in Seq(Literals), Strict(merged)
          PROVE  Descending(merged)
        <3>1. Len(merged) \in Nat
            BY <2>2, LenProperties
        <3>2. \A i \in 1 .. Len(merged) - 1 : i \in 1 .. Len(merged) /\ i + 1 \in 1 .. Len(merged) /\ i < i + 1
            BY <3>1
        <3> QED BY <2>2, <3>2 DEF Strict, Descending
    <2>3. Descending(<<>>)
        <3>1. 1 .. Len(<<>>) - 1 = {}
            OBVIOUS
        <3> QED BY <3>1 DEF Descending
    <2>4. ASSUME task = "build", result
          PROVE  Descending(c)
        <3>1. CASE pc = "returned"
            BY <2>4, <3>1, BuildingRight DEF IInv
        <3> QED BY <2>4, <3>1 DEF IInv, Building
    <2> QED BY <2>1, <2>2, <2>3, <2>4 DEF InDescendingOrder
<1> QED BY <1>1, InvariantInit, InvariantKeeps, PTL DEF Spec
=============================================================================
