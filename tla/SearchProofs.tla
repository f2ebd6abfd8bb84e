----------------------------- MODULE SearchProofs -----------------------------
(***************************************************************************)
(* The prover for every set of symbols and every pool of clauses and       *)
(* eventualities: it keeps its types, its loops are loops and leave        *)
(* nothing out, every clause it works with follows from the problem.  When *)
(* it answers Unsatisfiable the problem has no model, and when it answers  *)
(* Satisfiable without a temporal resolvent unreported it has one.         *)
(***************************************************************************)
EXTENDS LoopMeaning, SaturationProofs

-----------------------------------------------------------------------------
(***************************************************************************)
(* The data of a problem.                                                  *)
(***************************************************************************)
\* The clauses of a problem are sets of literals over finitely many symbols.
LEMMA LiteralsFinite ==
  /\ IsFiniteSet(Prop) /\ IsFiniteSet(Symbols)
  /\ IsFiniteSet(Literals)
  /\ \A c \in Clauses : IsFiniteSet(c)
<1>1. IsFiniteSet(Prop) /\ IsFiniteSet(Symbols)
    BY FS_Subset, SearchAssumption
<1>2. IsFiniteSet(BOOLEAN) /\ IsFiniteSet(Attributes)
    <2>1. BOOLEAN = ({} \cup {TRUE}) \cup {FALSE}
        OBVIOUS
    <2>2. IsFiniteSet(BOOLEAN)
        BY <2>1, FS_EmptySet, FS_AddElement
    <2>3. Attributes = ((({} \cup {"initial"}) \cup {"universal"}) \cup {"step_now"}) \cup {"step_next"}
        BY DEF Attributes
    <2>4. IsFiniteSet({} \cup {"initial"})
        BY FS_EmptySet, FS_AddElement
    <2>5. IsFiniteSet(({} \cup {"initial"}) \cup {"universal"})
        BY <2>4, FS_AddElement
    <2>6. IsFiniteSet((({} \cup {"initial"}) \cup {"universal"}) \cup {"step_now"})
        BY <2>5, FS_AddElement
    <2> QED BY <2>2, <2>3, <2>6, FS_AddElement
<1>3. IsFiniteSet(Literals)
    <2> DEFINE T == (Prop \X BOOLEAN) \X Attributes
               f == [t \in T |-> [prop |-> t[1][1], neg |-> t[1][2], attr |-> t[2]]]
    <2>1. IsFiniteSet(T)
        BY <1>1, <1>2, FS_Product
    <2>2. \A t \in T : f[t] \in Literals
        BY DEF Literals
    <2>3. ASSUME NEW l \in Literals
          PROVE  \E t \in T : f[t] = l
        <3>1. <<<<l.prop, l.neg>>, l.attr>> \in T
            BY DEF Literals
        <3>2. f[<<<<l.prop, l.neg>>, l.attr>>] = l
            BY <3>1 DEF Literals
        <3> QED BY <3>1, <3>2
    <2>4. f \in [T -> Literals]
        BY <2>2
    <2> HIDE DEF f, T
    <2>5. f \in Surjection(T, Literals)
        BY <2>3, <2>4 DEF Surjection
    <2> QED BY <2>1, <2>5, FS_Surjection
<1>4. \A c \in Clauses : IsFiniteSet(c)
    BY <1>3, FS_Subset DEF Clauses
<1> QED BY <1>1, <1>3, <1>4

\* What the adaptor builds: clauses of one kind.
LEMMA BuiltClauses ==
  ASSUME NEW now \in Clauses, NEW next \in Clauses
  PROVE  /\ make_uclause(now) \in Clauses /\ OneKind(make_uclause(now))
         /\ make_sclause(now, next) \in Clauses /\ OneKind(make_sclause(now, next))
         /\ now # {} => make_uclause(now) # {}
         /\ now \cup next # {} => make_sclause(now, next) # {}
         /\ \A l \in make_sclause(now, next) : l.attr \in {"step_now", "step_next"}
<1>1. /\ Retag(now, "universal") \in Clauses /\ Retag(now, "step_now") \in Clauses
      /\ Retag(next, "step_next") \in Clauses
    BY RetagType DEF Attributes
<1>2. OneKind(make_uclause(now))
    BY RetagOneKind DEF make_uclause, Attributes
<1>3. \A l \in make_sclause(now, next) : l.attr \in {"step_now", "step_next"}
    BY DEF make_sclause, Retag, setAttribute
<1>4. OneKind(make_sclause(now, next))
    BY <1>3 DEF OneKind, AttributesOf
<1>5. /\ now # {} => make_uclause(now) # {}
      /\ now \cup next # {} => make_sclause(now, next) # {}
    BY DEF make_uclause, make_sclause, Retag
<1> QED BY <1>1, <1>2, <1>3, <1>4, <1>5 DEF make_uclause, make_sclause, Clauses

\* An eventuality clause as the problem gives it.
LEMMA EventualityType ==
  ASSUME NEW e \in Eventualities
  PROVE  /\ e.present \in Clauses /\ e.eventuality \in Literals
         /\ \A l \in e.present \cup {e.eventuality} : l.prop \in Symbols /\ l.attr = "universal"
<1>1. e.present \subseteq Plain /\ e.eventuality \in Plain
    BY SearchAssumption
<1>2. \A l \in Plain : l \in Literals /\ l.prop \in Symbols /\ l.attr = "universal"
    BY SearchAssumption DEF Plain, Literals, Attributes
<1> QED BY <1>1, <1>2 DEF Clauses

-----------------------------------------------------------------------------
(***************************************************************************)
(* The two orders in which the code enumerates.                            *)
(***************************************************************************)
EventsOK == events \in Seq(Eventualities) /\ Len(events) <= MaxEventualities

\* Every eventuality literal has a first clause that names it.
LEMMA FirstClause ==
  ASSUME EventsOK, NEW l \in EventualityLiterals
  PROVE  FirstAt(l) \in DOMAIN events /\ FirstAt(l) \in Nat /\ events[FirstAt(l)].eventuality = l
<1> DEFINE T == {i \in DOMAIN events : events[i].eventuality = l}
<1>1. DOMAIN events = 1..Len(events) /\ Len(events) \in Nat
    BY DEF EventsOK
<1>2. T \in SUBSET Nat /\ T # {}
    BY <1>1 DEF EventualityLiterals
<1>3. PICK n \in T : \A m \in T : n <= m
    BY <1>2, NatMinimum
<1>4. \A j \in 1..(n - 1) : events[j].eventuality # l
    <2> SUFFICES ASSUME NEW j \in 1..(n - 1), events[j].eventuality = l PROVE FALSE
        OBVIOUS
    <2>1. n \in 1..Len(events) /\ n \in Nat
        BY <1>1, <1>3
    <2>2. j \in 1..Len(events) /\ ~ (n <= j)
        BY <1>1, <2>1
    <2> QED BY <1>1, <1>3, <2>2
<1>5. \E i \in DOMAIN events :
        events[i].eventuality = l /\ \A j \in 1..(i - 1) : events[j].eventuality # l
    BY <1>3, <1>4
<1>6. FirstAt(l) \in DOMAIN events /\ events[FirstAt(l)].eventuality = l
    BY <1>5 DEF FirstAt
<1> QED BY <1>1, <1>6

\* There are no more eventuality literals than eventuality clauses.
LEMMA FewEventualities ==
  ASSUME EventsOK
  PROVE  /\ IsFiniteSet(EventualityLiterals)
         /\ Cardinality(EventualityLiterals) \in Nat
         /\ Cardinality(EventualityLiterals) <= MaxEventualities
         /\ EventualityLiterals \subseteq Literals
<1> DEFINE f == [i \in 1..Len(events) |-> events[i].eventuality]
<1>1. /\ DOMAIN events = 1..Len(events) /\ Len(events) \in Nat /\ Len(events) <= MaxEventualities
      /\ \A i \in DOMAIN events : events[i] \in Eventualities
    BY DEF EventsOK
<1>2. f \in Surjection(1..Len(events), EventualityLiterals)
    BY <1>1 DEF Surjection, EventualityLiterals
<1> HIDE DEF f
<1>3. IsFiniteSet(1..Len(events)) /\ Cardinality(1..Len(events)) = Len(events)
    BY <1>1, FS_Interval
<1>4. IsFiniteSet(EventualityLiterals) /\ Cardinality(EventualityLiterals) <= Len(events)
    BY <1>2, <1>3, FS_Surjection
<1>5. Cardinality(EventualityLiterals) \in Nat
    BY <1>4, FS_CardinalityType
<1>6. EventualityLiterals \subseteq Literals
    BY <1>1, EventualityType DEF EventualityLiterals
<1>7. MaxEventualities \in Nat
    BY SearchAssumption
<1> QED BY <1>1, <1>4, <1>5, <1>6, <1>7

\* The eventuality literals are sorted: every literal has one place.
LEMMA SortedEventualities ==
  ASSUME EventsOK
  PROVE  /\ sortedEventualities \in Seq(EventualityLiterals)
         /\ Len(sortedEventualities) = Cardinality(EventualityLiterals)
         /\ \A l \in EventualityLiterals : \E i \in DOMAIN sortedEventualities : sortedEventualities[i] = l
<1> DEFINE K == EventualityLiterals
           n == Cardinality(K)
           below == [l \in K |-> {k \in K : SortedBefore(k, l)}]
<1>1. IsFiniteSet(K) /\ n \in Nat /\ K \subseteq Literals
    BY FewEventualities
<1>2. \A k \in K : k.prop \in Nat /\ FirstAt(k) \in Nat /\ events[FirstAt(k)].eventuality = k
    BY <1>1, FirstClause, PropAssumption DEF Literals
<1>3. \A i, j \in K : i \in below[j] <=> SortedBefore(i, j)
    OBVIOUS
<1>4. \A i \in K : ~ SortedBefore(i, i)
    BY <1>2 DEF SortedBefore
<1>5. \A i, j, k \in K : SortedBefore(i, j) /\ SortedBefore(j, k) => SortedBefore(i, k)
    BY <1>2 DEF SortedBefore
<1>6. \A i, j \in K : i # j => SortedBefore(i, j) \/ SortedBefore(j, i)
    BY <1>2 DEF SortedBefore
<1>7. \A l \in K : below[l] \subseteq K /\ below[l] = {k \in K : SortedBefore(k, l)}
    OBVIOUS
<1> HIDE DEF K, n, below
<1>9. /\ \A k \in K : Cardinality(below[k]) \in 0..(n - 1)
      /\ \A m \in 1..n : \E k \in K : Cardinality(below[k]) = m - 1
      /\ \A i, k \in K : Cardinality(below[i]) = Cardinality(below[k]) => i = k
    <2>1. \A k \in K : below[k] \subseteq K /\ k \notin below[k]
        BY <1>3, <1>4, <1>7
    <2>2. \A j, k \in K : j \in below[k] => below[j] \subseteq below[k]
        BY <1>3, <1>5, <1>7
    <2>3. \A j, k \in K : j # k => j \in below[k] \/ k \in below[j]
        BY <1>3, <1>6
    <2> QED BY <1>1, <2>1, <2>2, <2>3, Ranking DEF n
<1>10. sortedEventualities =
         [m \in 1..n |-> CHOOSE l \in K : Cardinality({k \in K : SortedBefore(k, l)}) = m - 1]
    BY DEF sortedEventualities, n, K
<1>11. \A m \in 1..n : sortedEventualities[m] \in K /\ Cardinality(below[sortedEventualities[m]]) = m - 1
    BY <1>7, <1>9, <1>10
<1>12. sortedEventualities \in [1..n -> K]
    BY <1>10, <1>11
<1>13. sortedEventualities \in Seq(K) /\ Len(sortedEventualities) = n
    BY <1>1, <1>12
<1>14. ASSUME NEW l \in K
       PROVE  \E i \in 1..n : sortedEventualities[i] = l
    <2> DEFINE c == Cardinality(below[l])
    <2>1. c \in 0..(n - 1)
        BY <1>9
    <2> HIDE DEF c
    <2>2. c + 1 \in 1..n /\ (c + 1) - 1 = c
        BY <1>1, <2>1
    <2>3. sortedEventualities[c + 1] = l
        BY <1>9, <1>11, <2>2 DEF c
    <2> QED BY <2>2, <2>3
<1> QED BY <1>10, <1>13, <1>14 DEF K, n

\* A set of entries that can be Active: what Shape says of active, and no
\* two activated at once.
Activated(S) ==
  /\ S \subseteq Entries /\ IsFiniteSet(S)
  /\ \A e \in S : OneKind(e.lits) /\ e.lits # {} /\ e.at < clock
  /\ \A e, f \in S : e.at = f.at => e = f

\* The order of Active, by leading key and age, is strict and total.
LEMMA LoopOrder ==
  ASSUME NEW S, Activated(S)
  PROVE  /\ \A e \in S : ~ LoopBefore(e, e)
         /\ \A e, f, g \in S : LoopBefore(e, f) /\ LoopBefore(f, g) => LoopBefore(e, g)
         /\ \A e, f \in S : e # f => LoopBefore(e, f) \/ LoopBefore(f, e)
<1> DEFINE leads(e) == getLeadingLiteral(e.lits)
<1>1. \A e \in S : leads(e) \in Literals /\ e.at \in Nat
    <2> SUFFICES ASSUME NEW e \in S PROVE leads(e) \in Literals /\ e.at \in Nat
        OBVIOUS
    <2>1. e.lits \in Clauses /\ e.at \in Nat /\ OneKind(e.lits) /\ e.lits # {}
        BY DEF Activated, Entries
    <2>2. leads(e) \in e.lits
        BY <2>1, LiteralsFinite, LeadingLiteral
    <2> QED BY <2>1, <2>2 DEF Clauses
<1>2. \A e \in S : leads(e).prop \in Nat /\ leads(e).neg \in BOOLEAN
    BY <1>1, PropAssumption DEF Literals
<1>3. \A e, f \in S : LoopBefore(e, f) <=>
        \/ KeyLess(leads(e), leads(f))
        \/ leads(e).prop = leads(f).prop /\ leads(e).neg = leads(f).neg /\ e.at < f.at
    BY DEF LoopBefore, Key
<1> HIDE DEF leads
<1>4. \A e \in S : ~ LoopBefore(e, e)
    BY <1>1, <1>2, <1>3 DEF KeyLess
<1>5. \A e, f, g \in S : LoopBefore(e, f) /\ LoopBefore(f, g) => LoopBefore(e, g)
    BY <1>1, <1>2, <1>3 DEF KeyLess
<1>6. \A e, f \in S : e # f => LoopBefore(e, f) \/ LoopBefore(f, e)
    <2> SUFFICES ASSUME NEW e \in S, NEW f \in S, e # f
                 PROVE  LoopBefore(e, f) \/ LoopBefore(f, e)
        OBVIOUS
    <2>1. e.at # f.at
        BY DEF Activated
    <2> QED BY <1>1, <1>2, <1>3, <2>1 DEF KeyLess
<1> QED BY <1>4, <1>5, <1>6

\* Listing entries in that order leaves none out and adds none.
LEMMA Listed ==
  ASSUME NEW S, Activated(S)
  PROVE  /\ inLoopOrder(S) \in [1..Cardinality(S) -> S] /\ Cardinality(S) \in Nat
         /\ \A e \in S : \E i \in 1..Cardinality(S) : inLoopOrder(S)[i] = e
<1> DEFINE n == Cardinality(S)
           below == [e \in S |-> {f \in S : LoopBefore(f, e)}]
<1>1. IsFiniteSet(S) /\ n \in Nat
    BY FS_CardinalityType DEF Activated
<1>2. \A e \in S : below[e] \subseteq S /\ below[e] = {f \in S : LoopBefore(f, e)}
    OBVIOUS
<1>3. \A e, f \in S : f \in below[e] <=> LoopBefore(f, e)
    OBVIOUS
<1> HIDE DEF n, below
<1>4. /\ \A e \in S : Cardinality(below[e]) \in 0..(n - 1)
      /\ \A m \in 1..n : \E e \in S : Cardinality(below[e]) = m - 1
      /\ \A e, f \in S : Cardinality(below[e]) = Cardinality(below[f]) => e = f
    <2>1. \A e \in S : below[e] \subseteq S /\ e \notin below[e]
        BY <1>2, <1>3, LoopOrder
    <2>2. \A j, k \in S : j \in below[k] => below[j] \subseteq below[k]
        BY <1>2, <1>3, LoopOrder
    <2>3. \A j, k \in S : j # k => j \in below[k] \/ k \in below[j]
        BY <1>3, LoopOrder
    <2> QED BY <1>1, <2>1, <2>2, <2>3, Ranking DEF n
<1>5. inLoopOrder(S) = [m \in 1..n |-> CHOOSE e \in S : Cardinality({f \in S : LoopBefore(f, e)}) = m - 1]
    BY DEF inLoopOrder, n
<1>6. ASSUME NEW m \in 1..n
      PROVE  inLoopOrder(S)[m] \in S /\ Cardinality(below[inLoopOrder(S)[m]]) = m - 1
    <2> DEFINE e == CHOOSE e \in S : Cardinality({f \in S : LoopBefore(f, e)}) = m - 1
    <2>1. \E k \in S : Cardinality({f \in S : LoopBefore(f, k)}) = m - 1
        BY <1>2, <1>4
    <2>2. e \in S /\ Cardinality({f \in S : LoopBefore(f, e)}) = m - 1
        BY <2>1
    <2>3. inLoopOrder(S)[m] = e
        BY <1>5
    <2> HIDE DEF e
    <2> QED BY <1>2, <2>2, <2>3
<1>7. ASSUME NEW e \in S
      PROVE  \E i \in 1..n : inLoopOrder(S)[i] = e
    <2> DEFINE c == Cardinality(below[e])
    <2>1. c \in 0..(n - 1)
        BY <1>4
    <2> HIDE DEF c
    <2>2. c + 1 \in 1..n /\ (c + 1) - 1 = c
        BY <1>1, <2>1
    <2>3. inLoopOrder(S)[c + 1] = e
        BY <1>4, <1>6, <2>2 DEF c
    <2> QED BY <2>2, <2>3
<1> QED BY <1>1, <1>5, <1>6, <1>7 DEF n

-----------------------------------------------------------------------------
(***************************************************************************)
(* The symbols of augmentation.                                            *)
(***************************************************************************)
Fresh == Prop \ Symbols

\* The place of an eventuality literal among the sorted ones.
placeOf(l) == CHOOSE i \in DOMAIN sortedEventualities : sortedEventualities[i] = l

\* There is a symbol for every place.
LEMMA EnoughSymbols ==
  ASSUME NEW p \in 1..MaxEventualities
  PROVE  \E n \in Fresh : Cardinality({m \in Fresh : m <= n}) = p
<1> DEFINE below == [n \in Fresh |-> {m \in Fresh : m < n}]
<1>1. /\ IsFiniteSet(Fresh) /\ \A m \in Fresh : m \in Nat
      /\ Cardinality(Fresh) \in Nat
    <2>1. Fresh \subseteq Prop /\ IsFiniteSet(Fresh)
        BY FS_Subset, SearchAssumption DEF Fresh
    <2> QED BY <2>1, FS_CardinalityType, PropAssumption
<1>2. \A n \in Fresh : below[n] \subseteq Fresh /\ below[n] = {m \in Fresh : m < n}
    OBVIOUS
<1>3. \A m, n \in Fresh : m \in below[n] <=> m < n
    OBVIOUS
<1> HIDE DEF below
<1>4. \A q \in 1..Cardinality(Fresh) : \E n \in Fresh : Cardinality(below[n]) = q - 1
    <2>1. \A n \in Fresh : below[n] \subseteq Fresh /\ n \notin below[n]
        BY <1>1, <1>2, <1>3
    <2>2. ASSUME NEW j \in Fresh, NEW k \in Fresh, j \in below[k], NEW i \in below[j]
          PROVE  i \in below[k]
        <3>1. i \in Fresh /\ i < j /\ j < k
            BY <1>2, <1>3, <2>2
        <3>2. i < k
            BY <1>1, <3>1
        <3> QED BY <1>3, <3>1, <3>2
    <2>3. \A j, k \in Fresh : j # k => j \in below[k] \/ k \in below[j]
        BY <1>1, <1>3
    <2>4. \A j, k \in Fresh : j \in below[k] => below[j] \subseteq below[k]
        BY <2>2
    <2>5. IsFiniteSet(Fresh)
        BY <1>1
    <2> HIDE DEF Fresh
    <2>6. \A q \in 1..Cardinality(Fresh) : \E n \in Fresh : Cardinality(below[n]) = q - 1
        BY <2>1, <2>3, <2>4, <2>5, Ranking
    <2> QED BY <2>6
<1>5. p \in 1..Cardinality(Fresh) /\ p \in Nat
    BY <1>1, SearchAssumption DEF Fresh
<1>6. PICK n \in Fresh : Cardinality(below[n]) = p - 1
    BY <1>4, <1>5
<1>7. {m \in Fresh : m <= n} = below[n] \cup {n} /\ n \notin below[n]
    <2>1. \A m \in Fresh : m <= n <=> (m < n \/ m = n)
        BY <1>1, <1>6
    <2>2. ~ (n < n)
        BY <1>1, <1>6
    <2> QED BY <1>2, <1>6, <2>1, <2>2, Zenon
<1>8. IsFiniteSet(below[n])
    BY <1>1, <1>2, FS_Subset
<1>9. Cardinality(below[n] \cup {n}) = Cardinality(below[n]) + 1
    BY <1>7, <1>8, FS_AddElement
<1>10. Cardinality(below[n] \cup {n}) = p
    BY <1>5, <1>6, <1>9
<1> QED BY <1>7, <1>10

\* Every eventuality literal has a symbol of its own, which the problem does
\* not use.
LEMMA NewSymbols ==
  ASSUME EventsOK
  PROVE  /\ \A l \in EventualityLiterals :
              /\ makeLiteral(l) \in Literals /\ makeLiteral(l).attr = "universal"
              /\ makeLiteral(l).prop \in Prop \ Symbols /\ ~ makeLiteral(l).neg
         /\ \A k, l \in EventualityLiterals :
              makeLiteral(k).prop = makeLiteral(l).prop => k = l
<1> DEFINE upto(n) == Cardinality({m \in Fresh : m <= n})
<1>1. ASSUME NEW l \in EventualityLiterals
      PROVE  /\ makeLiteral(l).prop \in Fresh /\ upto(makeLiteral(l).prop) = placeOf(l)
             /\ placeOf(l) \in DOMAIN sortedEventualities /\ sortedEventualities[placeOf(l)] = l
             /\ makeLiteral(l) = [prop |-> makeLiteral(l).prop, neg |-> FALSE, attr |-> "universal"]
    <2>1. placeOf(l) \in DOMAIN sortedEventualities /\ sortedEventualities[placeOf(l)] = l
        BY SortedEventualities DEF placeOf
    <2>2. placeOf(l) \in 1..Len(sortedEventualities)
        BY <2>1, SortedEventualities
    <2>3. /\ Len(sortedEventualities) = Cardinality(EventualityLiterals)
          /\ Cardinality(EventualityLiterals) \in Nat
          /\ Cardinality(EventualityLiterals) <= MaxEventualities
          /\ MaxEventualities \in Nat
        BY SortedEventualities, FewEventualities, SearchAssumption
    <2>4. placeOf(l) \in 1..MaxEventualities /\ placeOf(l) \in Nat \ {0}
        BY <2>2, <2>3
    <2>5. \E n \in Prop : upto(n) = placeOf(l)
        BY <2>4, EnoughSymbols DEF Fresh
    <2> DEFINE w == CHOOSE n \in Prop : upto(n) = placeOf(l)
    <2>6. w \in Prop /\ upto(w) = placeOf(l)
        BY <2>5
    <2>7. w \notin Symbols
        <3> SUFFICES ASSUME w \in Symbols PROVE FALSE
            OBVIOUS
        <3> HIDE DEF w
        <3>1. \A m \in Fresh : ~ (m <= w)
            <4> SUFFICES ASSUME NEW m \in Fresh, m <= w PROVE FALSE
                OBVIOUS
            <4>1. w < m
                BY SearchAssumption DEF Fresh
            <4>2. m \in Nat /\ w \in Nat
                BY <2>6, PropAssumption DEF Fresh
            <4> QED BY <4>1, <4>2
        <3>2. {m \in Fresh : m <= w} = {}
            BY <3>1
        <3>3. upto(w) = 0
            BY <3>2, FS_EmptySet
        <3> QED BY <2>4, <2>6, <3>3
    <2>8. makeLiteral(l) = [prop |-> w, neg |-> FALSE, attr |-> "universal"]
        BY DEF makeLiteral, placeOf, Fresh
    <2> HIDE DEF w
    <2>9. makeLiteral(l).prop = w
        BY <2>8
    <2> QED BY <2>1, <2>6, <2>7, <2>8, <2>9 DEF Fresh
<1>2. ASSUME NEW k \in EventualityLiterals, NEW l \in EventualityLiterals,
             makeLiteral(k).prop = makeLiteral(l).prop
      PROVE  k = l
    <2> HIDE DEF upto
    <2>1. placeOf(k) = placeOf(l)
        BY <1>1, <1>2
    <2> QED BY <1>1, <2>1
<1>3. ASSUME NEW l \in EventualityLiterals
      PROVE  /\ makeLiteral(l) \in Literals /\ makeLiteral(l).attr = "universal"
             /\ makeLiteral(l).prop \in Prop \ Symbols /\ ~ makeLiteral(l).neg
    <2> DEFINE w == makeLiteral(l).prop
    <2>1. w \in Fresh /\ makeLiteral(l) = [prop |-> w, neg |-> FALSE, attr |-> "universal"]
        BY <1>1
    <2> HIDE DEF w
    <2>2. makeLiteral(l).prop = w
        BY <2>1
    <2> QED BY <2>1, <2>2 DEF Fresh, Literals, Attributes
<1> QED BY <1>2, <1>3

-----------------------------------------------------------------------------
(***************************************************************************)
(* The inductive invariant of the prover's own state.                      *)
(***************************************************************************)
\* The candidate speaks of the present only.
CandidateOK ==
  /\ loop \in Seq(Clauses)
  /\ \A i \in DOMAIN loop : \A l \in loop[i] : l.attr = "step_now"

\* Where search is and what it may find there.
Control ==
  /\ stage \in {"reading", "eventualities", "candidate", "found"} => pc = "idle" /\ ~ success
  /\ stage = "done" => pc = "idle"
  /\ mode = IF stage \in {"candidate", "iterated"} THEN "loopSearch" ELSE "normal"
  /\ stage \in {"candidate", "iterated", "found", "resolved"} => turn \in DOMAIN events
  /\ stage = "eventualities" => turn \in 1..(Len(events) + 1)
  /\ stage # "done" => verdict = "none"

SetsOK == Activated(active) /\ Activated(saved) /\ Activated(base)

SInv == SearchTypeOK /\ Shape /\ EventsOK /\ SetsOK /\ CandidateOK /\ Control

\* It holds before the first clause is read.
LEMMA InitSInv == SearchInit => SInv
<1> SUFFICES ASSUME SearchInit PROVE SInv
    OBVIOUS
<1>1. IInv
    BY InitInv DEF SearchInit
<1>2. TypeOK /\ Shape
    BY <1>1 DEF IInv
<1>3. Len(events) = 0 /\ events \in Seq(Eventualities) /\ loop \in Seq(Clauses)
    BY DEF SearchInit
<1>4. SearchTypeOK
    <2>1. DOMAIN events = {} /\ DOMAIN loop = {} /\ 0 \in 0..(Len(events) + 1)
        BY <1>3 DEF SearchInit
    <2> QED BY <1>2, <2>1 DEF SearchInit, SearchTypeOK, Stages
<1>5. SetsOK
    BY FS_EmptySet DEF SearchInit, Init, SetsOK, Activated
<1>6. CandidateOK
    BY <1>3 DEF SearchInit, CandidateOK
<1>7. EventsOK
    BY <1>3, SearchAssumption DEF EventsOK
<1>8. Control
    BY DEF SearchInit, Init, Control
<1> QED BY <1>2, <1>4, <1>5, <1>6, <1>7, <1>8 DEF SInv

\* A step of saturate needs the control, and keeps it with the clause set.
LEMMA StepRuns ==
  ASSUME TypeOK, Shape, Step
  PROVE  pc # "idle"
BY DEF Step, SelectRedundant, Activate, Simplify, Insert, SimplifyByFS, EndFSR,
       EndIteration, EndSaturate, Shape

\* No two entries of Active were activated at once.
LEMMA StepActivated ==
  ASSUME TypeOK, Shape, Activated(active), Step
  PROVE  Activated(active)' /\ clock' \in Nat /\ clock <= clock'
<1>1. TypeOK' /\ Shape'
    BY TypeStep, ShapeStep
<1>2. clock \in Nat /\ active \subseteq Entries
    BY DEF TypeOK
<1>3. \/ UNCHANGED <<active, clock>>
      \/ /\ clock' = clock + 1
         /\ \E c \in passive : active' \subseteq active \cup {[id |-> c.id, lits |-> c.lits, at |-> clock]}
    BY DEF Step, SelectRedundant, Activate, Simplify, Insert, SimplifyByFS, EndFSR,
           EndIteration, EndSaturate, searchVars
<1>4. \A e, f \in active : e.at = f.at => e = f
    BY DEF Activated
<1>5. \A e \in active : e.at < clock /\ e.at \in Nat
    BY <1>2 DEF Shape, Entries
<1>6. \A e, f \in active' : e.at = f.at => e = f
    <2>1. CASE UNCHANGED <<active, clock>>
        BY <1>4, <2>1
    <2>2. CASE clock' = clock + 1
        <3>1. clock' # clock
            BY <1>2, <2>2
        <3>2. PICK c \in passive :
                active' \subseteq active \cup {[id |-> c.id, lits |-> c.lits, at |-> clock]}
            BY <1>3, <3>1
        <3> DEFINE n == [id |-> c.id, lits |-> c.lits, at |-> clock]
        <3>3. n.at = clock /\ active' \subseteq active \cup {n}
            BY <3>2
        <3> HIDE DEF n
        <3> QED BY <1>2, <1>4, <1>5, <3>3
    <2> QED BY <1>3, <2>1, <2>2
<1>7. active' \subseteq Entries /\ IsFiniteSet(active')
    BY <1>1 DEF TypeOK
<1>8. \A e \in active' : OneKind(e.lits) /\ e.lits # {} /\ e.at < clock'
    BY <1>1 DEF Shape, Held, LitsOf
<1> QED BY <1>2, <1>3, <1>6, <1>7, <1>8 DEF Activated

\* A set of entries stays one as the clock goes on.
LEMMA StillActivated ==
  ASSUME NEW S, Activated(S), clock \in Nat, clock' \in Nat, clock <= clock'
  PROVE  S \subseteq Entries /\ IsFiniteSet(S)
         /\ (\A e \in S : OneKind(e.lits) /\ e.lits # {} /\ e.at < clock')
         /\ (\A e, f \in S : e.at = f.at => e = f)
<1>1. \A e \in S : e.at \in Nat /\ e.at < clock
    BY DEF Activated, Entries
<1>2. \A e \in S : e.at < clock'
    BY <1>1
<1> QED BY <1>2 DEF Activated

\* A step of saturate.
LEMMA SaturateKeeps ==
  ASSUME SInv, SaturateStep
  PROVE  SInv'
<1>1. Step /\ UNCHANGED <<stage, events, turn, somethingNew, verdict, since, unreported>>
      /\ UNCHANGED <<saved, base, loop, loopFound>>
    BY DEF SaturateStep, proverVars, loopVars
<1>2. TypeOK /\ Shape /\ SetsOK /\ Control
    BY DEF SInv, SearchTypeOK
<1>3. TypeOK' /\ Shape' /\ mode' = mode /\ pc # "idle"
    BY <1>1, <1>2, TypeStep, ShapeStep, StepFrame, StepRuns
<1>4. Activated(active)' /\ clock \in Nat /\ clock' \in Nat /\ clock <= clock'
    BY <1>1, <1>2, StepActivated DEF SetsOK, TypeOK
<1>5. Activated(saved)' /\ Activated(base)'
    <2>1. Activated(saved) /\ Activated(base)
        BY <1>2 DEF SetsOK
    <2>2. saved' = saved /\ base' = base
        BY <1>1
    <2> QED BY <1>4, <2>1, <2>2, StillActivated DEF Activated
<1>6. SearchTypeOK'
    BY <1>1, <1>3 DEF SInv, SearchTypeOK
<1>7. EventsOK' /\ CandidateOK'
    BY <1>1 DEF SInv, EventsOK, CandidateOK
<1>8. Control'
    BY <1>1, <1>2, <1>3 DEF Control
<1> QED BY <1>3, <1>4, <1>5, <1>6, <1>7, <1>8 DEF SInv, SetsOK

-----------------------------------------------------------------------------
(***************************************************************************)
(* What the prover pushes.                                                 *)
(***************************************************************************)
\* Clauses pushed in a row are clauses with ids.
LEMMA PushedType ==
  ASSUME nextId \in Nat, NEW seq \in Seq(Clauses)
  PROVE  /\ Pushed(seq) \subseteq Indexed
         /\ \A e \in Pushed(seq) : \E i \in DOMAIN seq : e.lits = seq[i] /\ isCorrect(mode, seq[i])
<1>1. DOMAIN seq = 1..Len(seq) /\ Len(seq) \in Nat /\ \A i \in DOMAIN seq : seq[i] \in Clauses
    OBVIOUS
<1>2. ASSUME NEW e \in Pushed(seq)
      PROVE  e \in Indexed /\ \E i \in DOMAIN seq : e.lits = seq[i] /\ isCorrect(mode, seq[i])
    <2>1. PICK i \in DOMAIN seq :
            e = [id |-> nextId + i - 1, lits |-> seq[i]] /\ isCorrect(mode, seq[i])
        BY DEF Pushed
    <2>2. i \in 1..Len(seq)
        BY <1>1
    <2>3. nextId + i - 1 \in Nat
        BY <1>1, <2>2
    <2> QED BY <1>1, <2>1, <2>3 DEF Indexed
<1> QED BY <1>2

\* What augmentation adds about an eventuality literal and about a clause.
augmentedStep(l) == make_sclause({negate(makeLiteral(l))}, {l, makeLiteral(l)})
augmentedNow(i) ==
  make_uclause(events[i].present \cup
                 {events[i].eventuality, makeLiteral(events[i].eventuality)})

\* Augmentation makes those clauses and no other.
LEMMA AugmentationParts ==
  ASSUME EventsOK
  PROVE  /\ augmentation \in Seq(Clauses)
         /\ \A i \in DOMAIN augmentation :
              /\ OneKind(augmentation[i]) /\ augmentation[i] # {}
              /\ \/ \E l \in EventualityLiterals : augmentation[i] = augmentedStep(l)
                 \/ \E j \in DOMAIN events : augmentation[i] = augmentedNow(j)
<1> DEFINE one == [i \in DOMAIN sortedEventualities |-> augmentedStep(sortedEventualities[i])]
           two == [i \in DOMAIN events |-> augmentedNow(i)]
<1>1. augmentation = one \o two
    BY DEF augmentation, augmentedStep, augmentedNow
<1>2. /\ sortedEventualities \in Seq(EventualityLiterals)
      /\ \A i \in DOMAIN sortedEventualities : sortedEventualities[i] \in EventualityLiterals
      /\ DOMAIN sortedEventualities = 1..Len(sortedEventualities)
      /\ Len(sortedEventualities) \in Nat
    BY SortedEventualities
<1>3. /\ DOMAIN events = 1..Len(events) /\ Len(events) \in Nat
      /\ \A i \in DOMAIN events : events[i] \in Eventualities
    BY DEF EventsOK
<1>4. ASSUME NEW l \in EventualityLiterals
      PROVE  augmentedStep(l) \in Clauses /\ OneKind(augmentedStep(l)) /\ augmentedStep(l) # {}
    <2>1. l \in Literals /\ makeLiteral(l) \in Literals
        BY FewEventualities, NewSymbols
    <2>2. negate(makeLiteral(l)) \in Literals
        BY <2>1 DEF negate, Literals
    <2>3. {negate(makeLiteral(l))} \in Clauses /\ {l, makeLiteral(l)} \in Clauses
        BY <2>1, <2>2 DEF Clauses
    <2> QED BY <2>3, BuiltClauses DEF augmentedStep
<1>5. ASSUME NEW i \in DOMAIN events
      PROVE  augmentedNow(i) \in Clauses /\ OneKind(augmentedNow(i)) /\ augmentedNow(i) # {}
    <2>1. events[i].eventuality \in EventualityLiterals
        BY DEF EventualityLiterals
    <2>2. events[i].present \in Clauses /\ events[i].eventuality \in Literals
        BY <1>3, EventualityType
    <2>3. makeLiteral(events[i].eventuality) \in Literals
        BY <2>1, NewSymbols
    <2>4. events[i].present \cup {events[i].eventuality, makeLiteral(events[i].eventuality)} \in Clauses
        BY <2>2, <2>3 DEF Clauses
    <2> QED BY <2>4, BuiltClauses DEF augmentedNow
<1>6. one \in Seq(Clauses) /\ two \in Seq(Clauses)
    <2>1. one \in [1..Len(sortedEventualities) -> Clauses]
        BY <1>2, <1>4
    <2>2. two \in [1..Len(events) -> Clauses]
        BY <1>3, <1>5
    <2> QED BY <1>2, <1>3, <2>1, <2>2
<1>7. /\ \A i \in DOMAIN one : one[i] = augmentedStep(sortedEventualities[i])
      /\ \A i \in DOMAIN two : two[i] = augmentedNow(i)
      /\ DOMAIN one = DOMAIN sortedEventualities /\ DOMAIN two = DOMAIN events
    OBVIOUS
<1> HIDE DEF one, two
<1>8. augmentation \in Seq(Clauses)
    BY <1>1, <1>6
<1>9. ASSUME NEW i \in DOMAIN augmentation
      PROVE  \/ \E j \in DOMAIN one : augmentation[i] = one[j]
             \/ \E j \in DOMAIN two : augmentation[i] = two[j]
    <2>1. DOMAIN one = 1..Len(one) /\ DOMAIN two = 1..Len(two)
          /\ Len(one) \in Nat /\ Len(two) \in Nat
        BY <1>6
    <2>2. i \in 1..(Len(one) + Len(two))
        BY <1>1, <1>6
    <2>3. augmentation[i] = IF i <= Len(one) THEN one[i] ELSE two[i - Len(one)]
        BY <1>1, <1>6, <2>2
    <2>4. i <= Len(one) => i \in DOMAIN one
        BY <2>1, <2>2
    <2>5. ~ (i <= Len(one)) => i - Len(one) \in DOMAIN two
        BY <2>1, <2>2
    <2> QED BY <2>3, <2>4, <2>5
<1>10. ASSUME NEW i \in DOMAIN augmentation
       PROVE  /\ OneKind(augmentation[i]) /\ augmentation[i] # {}
              /\ \/ \E l \in EventualityLiterals : augmentation[i] = augmentedStep(l)
                 \/ \E j \in DOMAIN events : augmentation[i] = augmentedNow(j)
    <2>1. CASE \E j \in DOMAIN one : augmentation[i] = one[j]
        BY <1>2, <1>4, <1>7, <2>1
    <2>2. CASE \E j \in DOMAIN two : augmentation[i] = two[j]
        BY <1>5, <1>7, <2>2
    <2> QED BY <1>9, <2>1, <2>2
<1> QED BY <1>8, <1>10

\* What temporal resolution adds about one clause of the loop.
resolventStep(d) ==
  make_sclause({negate(makeLiteral(events[turn].eventuality))}, d \cup {events[turn].eventuality})
resolventNow(d) ==
  make_uclause(d \cup {events[turn].eventuality} \cup events[turn].present)

\* The clauses of the loop; for a loop in true, the empty one.
loopClauses == IF loop = <<>> THEN {{}} ELSE {loop[i] : i \in DOMAIN loop}

\* Temporal resolution makes those clauses and no other.
LEMMA ResolventParts ==
  ASSUME EventsOK, CandidateOK, turn \in DOMAIN events
  PROVE  /\ temporalResolvents \in Seq(Clauses)
         /\ \A i \in DOMAIN temporalResolvents :
              /\ OneKind(temporalResolvents[i]) /\ temporalResolvents[i] # {}
              /\ \E d \in loopClauses : \/ temporalResolvents[i] = resolventStep(d)
                                        \/ temporalResolvents[i] = resolventNow(d)
<1> DEFINE L == IF loop = <<>> THEN <<{}>> ELSE loop
           e == events[turn]
<1>1. L \in Seq(Clauses) /\ Len(L) \in Nat /\ DOMAIN L = 1..Len(L)
    <2>1. {} \in Clauses
        BY DEF Clauses
    <2>2. <<{}>> \in Seq(Clauses) /\ loop \in Seq(Clauses)
        BY <2>1 DEF CandidateOK
    <2>3. L \in Seq(Clauses)
        BY <2>2
    <2> HIDE DEF L
    <2> QED BY <2>3
<1>2. \A i \in DOMAIN L : L[i] \in loopClauses
    BY DEF loopClauses
<1>3. e \in Eventualities /\ e.eventuality \in EventualityLiterals
    BY DEF EventsOK, EventualityLiterals
<1>4. e.present \in Clauses /\ e.eventuality \in Literals /\ makeLiteral(e.eventuality) \in Literals
    BY <1>3, EventualityType, NewSymbols
<1>5. negate(makeLiteral(e.eventuality)) \in Literals
    BY <1>4 DEF negate, Literals
<1>6. ASSUME NEW d \in Clauses
      PROVE  /\ resolventStep(d) \in Clauses /\ OneKind(resolventStep(d)) /\ resolventStep(d) # {}
             /\ resolventNow(d) \in Clauses /\ OneKind(resolventNow(d)) /\ resolventNow(d) # {}
    <2>1. /\ {negate(makeLiteral(e.eventuality))} \in Clauses
          /\ d \cup {e.eventuality} \in Clauses
          /\ d \cup {e.eventuality} \cup e.present \in Clauses
        BY <1>4, <1>5 DEF Clauses
    <2> QED BY <2>1, BuiltClauses DEF resolventStep, resolventNow
<1>7. temporalResolvents =
        [i \in 1..(2 * Len(L)) |->
           IF i % 2 = 1 THEN resolventStep(L[(i + 1) \div 2]) ELSE resolventNow(L[i \div 2])]
    BY DEF temporalResolvents, resolventStep, resolventNow
<1> HIDE DEF L, e
<1>8. ASSUME NEW n \in Nat, NEW i \in 1..(2 * n)
      PROVE  /\ i % 2 = 1 => ((i + 1) \div 2) \in 1..n
             /\ i % 2 # 1 => (i \div 2) \in 1..n
    OBVIOUS
<1>9. ASSUME NEW i \in 1..(2 * Len(L))
      PROVE  \E j \in DOMAIN L : \/ temporalResolvents[i] = resolventStep(L[j])
                                 \/ temporalResolvents[i] = resolventNow(L[j])
    BY <1>1, <1>7, <1>8
<1>10. \A i \in DOMAIN L : L[i] \in Clauses
    BY <1>1
<1>11. temporalResolvents \in [1..(2 * Len(L)) -> Clauses]
    <2>1. \A i \in 1..(2 * Len(L)) : temporalResolvents[i] \in Clauses
        BY <1>6, <1>9, <1>10
    <2> QED BY <1>7, <2>1
<1>12. 2 * Len(L) \in Nat
    BY <1>1
<1>13. temporalResolvents \in Seq(Clauses) /\ DOMAIN temporalResolvents = 1..(2 * Len(L))
    BY <1>11, <1>12
<1> QED BY <1>2, <1>6, <1>9, <1>10, <1>13

-----------------------------------------------------------------------------
(***************************************************************************)
(* The prover's actions keep the invariant.                                *)
(***************************************************************************)
\* A call of saturate starts with nothing in hand.
LEMMA CallKeeps ==
  ASSUME TypeOK, Shape, pc = "idle", CallSaturate, UNCHANGED <<todo, kept, working, untried, clock>>,
         NEW n \in Nat, nextId' = n,
         mode' \in Modes, UNCHANGED <<pushed, calls, given, background, preset>>,
         Activated(active'),
         passive' \subseteq Indexed, \A e \in passive' : OneKind(e.lits) /\ e.lits # {}
  PROVE  TypeOK' /\ Shape' /\ Activated(active)'
<1>1. pc' = "select" /\ success' = FALSE /\ anythingNew' = FALSE
    BY DEF CallSaturate
<1>2. todo = {} /\ kept = {} /\ working = {} /\ untried = {}
    BY DEF Shape
<1>3. active' \subseteq Entries /\ IsFiniteSet(active')
      /\ \A e \in active' : OneKind(e.lits) /\ e.lits # {} /\ e.at < clock
    BY DEF Activated
<1>4. TypeOK'
    <2>1. success' \in BOOLEAN /\ anythingNew' \in BOOLEAN
          /\ pc' \in {"idle", "select", "simplify", "insert", "fsr"}
        BY <1>1
    <2> QED BY <1>3, <2>1 DEF TypeOK
<1>5. Shape'
    <2>1. \A c \in Held' : OneKind(c)
        BY <1>2, <1>3 DEF Held, LitsOf
    <2>2. {} \notin LitsOf(active')
        BY <1>3 DEF LitsOf
    <2> QED BY <1>1, <1>2, <1>3, <2>1, <2>2 DEF Shape
<1>6. Activated(active)'
    BY DEF Activated
<1> QED BY <1>4, <1>5, <1>6

\* Reading a clause.
LEMMA AddClauseKeeps ==
  ASSUME SInv, NEW lits \in Inputs, AddClause(lits)
  PROVE  SInv'
<1>1. /\ stage = "reading" /\ Push(lits)
      /\ UNCHANGED <<stage, events, turn, somethingNew, verdict, since, unreported>>
      /\ UNCHANGED <<saved, base, loop, loopFound>>
    BY DEF AddClause, proverVars, loopVars
<1>2. TypeOK /\ Shape /\ SetsOK /\ Control
    BY DEF SInv, SearchTypeOK
<1>3. TypeOK' /\ Shape'
    BY <1>1, <1>2, TypePush, ShapePush
<1>4. UNCHANGED <<pc, mode, active, success, clock>>
    BY <1>1 DEF Push, resultVars
<1>5. SetsOK'
    BY <1>1, <1>2, <1>4 DEF SetsOK, Activated
<1>6. SearchTypeOK'
    BY <1>1, <1>3 DEF SInv, SearchTypeOK
<1>7. EventsOK' /\ CandidateOK'
    BY <1>1 DEF SInv, EventsOK, CandidateOK
<1>8. Control'
    BY <1>1, <1>2, <1>4 DEF Control
<1> QED BY <1>3, <1>5, <1>6, <1>7, <1>8 DEF SInv

\* Reading an eventuality clause.
LEMMA AddEventualityKeeps ==
  ASSUME SInv, NEW e \in Eventualities, AddEventuality(e)
  PROVE  SInv'
<1>1. /\ stage = "reading" /\ events' = Append(events, e) /\ nextId' = nextId + 1
      /\ Len(events) < MaxEventualities
      /\ UNCHANGED <<pc, active, passive, todo, kept, working, untried, success, anythingNew,
                     clock, mode, pushed, calls, given, background, preset>>
      /\ UNCHANGED <<stage, turn, somethingNew, verdict, since, unreported, saved, base,
                     loop, loopFound>>
    BY DEF AddEventuality, searchVars, resultVars, callerVars, loopVars
<1>2. TypeOK /\ Shape /\ SetsOK /\ Control /\ EventsOK
    BY DEF SInv, SearchTypeOK
<1>3. TypeOK'
    BY <1>1, <1>2 DEF TypeOK
<1>4. Shape'
    BY <1>1, <1>2 DEF Shape, Held
<1>5. SetsOK'
    BY <1>1, <1>2 DEF SetsOK, Activated
<1>6. EventsOK' /\ Len(events') = Len(events) + 1 /\ Len(events) \in Nat
    BY <1>1, <1>2, SearchAssumption DEF EventsOK
<1>7. SearchTypeOK'
    <2>1. turn \in 0..(Len(events) + 1)
        BY DEF SInv, SearchTypeOK
    <2>2. turn' \in 0..(Len(events') + 1)
        BY <1>1, <1>6, <2>1
    <2>3. \A i \in DOMAIN events' : events'[i] \in Eventualities
        BY <1>6 DEF EventsOK
    <2> QED BY <1>1, <1>3, <2>2, <2>3 DEF SInv, SearchTypeOK
<1>8. CandidateOK'
    BY <1>1 DEF SInv, CandidateOK
<1>9. Control'
    BY <1>1, <1>2 DEF Control
<1> QED BY <1>3, <1>4, <1>5, <1>6, <1>7, <1>8, <1>9 DEF SInv

\* The call of saturate that starts the search.
LEMMA StartKeeps ==
  ASSUME SInv, StartSearch
  PROVE  SInv'
<1>1. /\ stage = "reading" /\ stage' = "step" /\ CallSaturate
      /\ UNCHANGED <<active, passive, todo, kept, working, untried, nextId, clock,
                     mode, pushed, calls, given, background, preset>>
      /\ UNCHANGED <<events, turn, somethingNew, verdict, since, unreported, saved, base,
                     loop, loopFound>>
    BY DEF StartSearch, searchVars, callerVars, loopVars
<1>2. TypeOK /\ Shape /\ SetsOK /\ Control /\ pc = "idle" /\ ~ success
    BY <1>1 DEF SInv, SearchTypeOK, Control
<1>3. nextId \in Nat /\ mode \in Modes /\ passive \subseteq Indexed
    BY <1>2 DEF TypeOK
<1>4. \A x \in passive : OneKind(x.lits) /\ x.lits # {}
    BY <1>2 DEF Shape, Held, LitsOf
<1>5. TypeOK' /\ Shape' /\ Activated(active)'
    <2>1. Activated(active') /\ passive' = passive /\ mode' = mode /\ nextId' = nextId
        BY <1>1, <1>2 DEF SetsOK
    <2> QED BY <1>1, <1>2, <1>3, <1>4, <2>1, CallKeeps
<1>6. SetsOK'
    BY <1>1, <1>2, <1>5 DEF SetsOK, Activated
<1>7. SearchTypeOK'
    BY <1>1, <1>5 DEF SInv, SearchTypeOK, Stages
<1>8. EventsOK' /\ CandidateOK'
    BY <1>1 DEF SInv, EventsOK, CandidateOK
<1>9. Control'
    BY <1>1, <1>2 DEF Control, CallSaturate
<1> QED BY <1>5, <1>6, <1>7, <1>8, <1>9 DEF SInv

\* Clauses pushed on the prover's own set, and the call of saturate.
LEMMA PushAndCall ==
  ASSUME TypeOK, Shape, SetsOK, pc = "idle", ~ success, CallSaturate,
         NEW seq \in Seq(Clauses), \A i \in DOMAIN seq : OneKind(seq[i]) /\ seq[i] # {},
         passive' = passive \cup Pushed(seq), nextId' = nextId + Len(seq),
         UNCHANGED <<active, todo, kept, working, untried, clock, pushed, calls, given,
                     background, preset>>,
         mode' \in Modes
  PROVE  TypeOK' /\ Shape' /\ Activated(active)'
<1>1. nextId \in Nat /\ passive \subseteq Indexed
    BY DEF TypeOK
<1>2. nextId + Len(seq) \in Nat
    BY <1>1
<1>3. passive' \subseteq Indexed /\ \A x \in passive' : OneKind(x.lits) /\ x.lits # {}
    <2>1. \A x \in passive : OneKind(x.lits) /\ x.lits # {}
        BY DEF Shape, Held, LitsOf
    <2> QED BY <1>1, <2>1, PushedType
<1>4. Activated(active')
    BY DEF SetsOK
<1> QED BY <1>2, <1>3, <1>4, CallKeeps

\* Augmentation.
LEMMA AugmentKeeps ==
  ASSUME SInv, Augment
  PROVE  SInv'
<1>1. /\ stage = "step" /\ stage' = "augmented" /\ CallSaturate /\ pc = "idle" /\ ~ success
      /\ passive' = passive \cup Pushed(augmentation) /\ nextId' = nextId + Len(augmentation)
      /\ UNCHANGED <<active, todo, kept, working, untried, clock,
                     mode, pushed, calls, given, background, preset>>
      /\ UNCHANGED <<events, turn, somethingNew, verdict, since, unreported, saved, base,
                     loop, loopFound>>
    BY DEF Augment, Back, callerVars, loopVars
<1>2. TypeOK /\ Shape /\ SetsOK /\ Control /\ EventsOK
    BY DEF SInv, SearchTypeOK
<1>3. mode' \in Modes
    BY <1>1, <1>2 DEF TypeOK
<1>4. augmentation \in Seq(Clauses)
      /\ \A i \in DOMAIN augmentation : OneKind(augmentation[i]) /\ augmentation[i] # {}
    BY <1>2, AugmentationParts
<1>5. TypeOK' /\ Shape' /\ Activated(active)'
    BY <1>1, <1>2, <1>3, <1>4, PushAndCall
<1>6. SetsOK'
    BY <1>1, <1>2, <1>5 DEF SetsOK, Activated
<1>7. SearchTypeOK'
    BY <1>1, <1>5 DEF SInv, SearchTypeOK, Stages
<1>8. EventsOK' /\ CandidateOK'
    BY <1>1 DEF SInv, EventsOK, CandidateOK
<1>9. Control'
    BY <1>1, <1>2 DEF Control, CallSaturate
<1> QED BY <1>5, <1>6, <1>7, <1>8, <1>9 DEF SInv

\* Temporal resolvents.
LEMMA ResolventsKeep ==
  ASSUME SInv, generateResolvents
  PROVE  SInv'
<1>1. /\ stage = "found" /\ stage' = "resolved" /\ CallSaturate /\ mode' = "normal"
      /\ passive' = passive \cup Pushed(temporalResolvents)
      /\ nextId' = nextId + Len(temporalResolvents) /\ since' = clock
      /\ UNCHANGED <<active, todo, kept, working, untried, clock,
                     pushed, calls, given, background, preset>>
      /\ UNCHANGED <<events, turn, somethingNew, verdict, unreported, saved, base,
                     loop, loopFound>>
    BY DEF generateResolvents, loopVars
<1>2. TypeOK /\ Shape /\ SetsOK /\ Control /\ EventsOK /\ CandidateOK
    BY DEF SInv, SearchTypeOK
<1>3. mode' \in Modes /\ pc = "idle" /\ ~ success /\ turn \in DOMAIN events
    BY <1>1, <1>2 DEF Modes, Control
<1>4. temporalResolvents \in Seq(Clauses)
      /\ \A i \in DOMAIN temporalResolvents :
           OneKind(temporalResolvents[i]) /\ temporalResolvents[i] # {}
    BY <1>2, <1>3, ResolventParts
<1>5. TypeOK' /\ Shape' /\ Activated(active)'
    BY <1>1, <1>2, <1>3, <1>4, PushAndCall
<1>6. SetsOK'
    BY <1>1, <1>2, <1>5 DEF SetsOK, Activated
<1>7. SearchTypeOK'
    <2>1. since' \in Nat
        BY <1>1, <1>2 DEF TypeOK
    <2> QED BY <1>1, <1>5, <2>1 DEF SInv, SearchTypeOK, Stages
<1>8. EventsOK' /\ CandidateOK'
    BY <1>1 DEF SInv, EventsOK, CandidateOK
<1>9. Control'
    BY <1>1, <1>2 DEF Control, CallSaturate
<1> QED BY <1>5, <1>6, <1>7, <1>8, <1>9 DEF SInv

\* The next candidate: the clauses of Active led by a literal of the present.
LEMMA NextFalseParts ==
  ASSUME TypeOK, Activated(active)
  PROVE  /\ nextFalse \in Seq(Clauses)
         /\ \A i \in DOMAIN nextFalse :
              /\ \A l \in nextFalse[i] : l.attr = "step_now"
              /\ \E e \in active : leadingAttribute(e.lits) = "step_now" /\ nextFalse[i] = e.lits
         /\ \A e \in active : leadingAttribute(e.lits) = "step_now" =>
              \E i \in DOMAIN nextFalse : nextFalse[i] = e.lits
<1> DEFINE K == {e \in active : leadingAttribute(e.lits) = "step_now"}
           S == inLoopOrder(K)
           n == Cardinality(K)
<1>1. K \subseteq active /\ IsFiniteSet(K)
    BY FS_Subset DEF TypeOK
<1>2. Activated(K)
    BY <1>1 DEF Activated
<1>3. /\ S \in [1..n -> K] /\ n \in Nat
      /\ \A e \in K : \E i \in 1..n : S[i] = e
    <2> HIDE DEF K
    <2> QED BY <1>2, Listed
<1>4. nextFalse = [i \in 1..n |-> S[i].lits]
    BY <1>3 DEF nextFalse
<1>5. \A e \in K : /\ e \in active /\ leadingAttribute(e.lits) = "step_now" /\ e.lits \in Clauses
                   /\ OneKind(e.lits) /\ e.lits # {}
    BY <1>1 DEF Activated, Entries
<1>6. \A e \in K : \A l \in e.lits : l.attr = "step_now"
    BY <1>5, LeadingKind
<1>7. \A e \in active : leadingAttribute(e.lits) = "step_now" => e \in K
    OBVIOUS
<1> HIDE DEF K, S, n
<1>8. \A i \in 1..n : nextFalse[i] = S[i].lits /\ S[i] \in K
    BY <1>3, <1>4
<1>9. nextFalse \in [1..n -> Clauses]
    BY <1>4, <1>5, <1>8
<1>10. nextFalse \in Seq(Clauses) /\ DOMAIN nextFalse = 1..n
    BY <1>3, <1>9
<1> QED BY <1>3, <1>5, <1>6, <1>7, <1>8, <1>10

\* What leaves the clause set alone.
LEMMA PlainKeeps ==
  ASSUME SInv, StartRound \/ NothingNew \/ Contradiction \/ NextCandidate \/ NextEventuality
                 \/ UNCHANGED allVars
  PROVE  SInv'
<1>1. UNCHANGED <<pc, active, passive, todo, kept, working, untried, success, anythingNew,
                  nextId, clock, mode, pushed, calls, given, background, preset>>
      /\ UNCHANGED <<events, saved, base, loopFound>>
    BY DEF StartRound, NothingNew, Contradiction, NextCandidate, NextEventuality, Return,
           vars, searchVars, resultVars, callerVars, loopVars, allVars, proverVars
<1>2. TypeOK /\ Shape /\ SetsOK /\ Control /\ EventsOK /\ CandidateOK
    BY DEF SInv, SearchTypeOK
<1>3. TypeOK'
    BY <1>1, <1>2 DEF TypeOK
<1>4. Shape'
    BY <1>1, <1>2 DEF Shape, Held
<1>5. SetsOK' /\ EventsOK'
    BY <1>1, <1>2 DEF SetsOK, Activated, EventsOK
<1>6. CandidateOK' /\ \A i \in DOMAIN loop' : loop'[i] \in Clauses
    <2>1. loop' = loop \/ loop' = nextFalse
        BY DEF StartRound, NothingNew, Contradiction, NextCandidate, NextEventuality, Return,
               loopVars, allVars
    <2>2. CASE loop' = loop
        BY <1>2, <2>2 DEF CandidateOK
    <2>3. CASE loop' = nextFalse
        BY <1>2, <2>3, NextFalseParts DEF CandidateOK, SetsOK
    <2> QED BY <2>1, <2>2, <2>3
<1>7. Len(events) \in Nat /\ Len(events') = Len(events) /\ DOMAIN events = 1..Len(events)
    BY <1>1, <1>2 DEF EventsOK
<1>8. turn' \in 0..(Len(events') + 1) /\ Control'
    <2>0. turn \in 0..(Len(events) + 1)
        BY DEF SInv, SearchTypeOK
    <2>1. CASE StartRound
        <3>1. stage' = "eventualities" /\ turn' = 1 /\ verdict' = verdict
              /\ stage \in {"augmented", "eventualities"} /\ pc = "idle" /\ ~ success
            BY <1>2, <2>1 DEF StartRound, Back, Control
        <3> QED BY <1>1, <1>2, <1>7, <3>1 DEF Control
    <2>2. CASE NothingNew \/ Contradiction
        <3>1. stage' = "done" /\ pc = "idle" /\ mode = "normal" /\ turn' = turn
            BY <1>2, <2>2 DEF NothingNew, Contradiction, Return, Back, Control
        <3> QED BY <1>1, <1>7, <2>0, <3>1 DEF Control
    <2>3. CASE NextCandidate
        <3>1. stage' = "candidate" /\ stage = "iterated" /\ pc = "idle" /\ ~ success
              /\ turn' = turn /\ verdict' = verdict
            BY <2>3 DEF NextCandidate, Back
        <3> QED BY <1>1, <1>2, <1>7, <2>0, <3>1 DEF Control
    <2>4. CASE NextEventuality
        <3>1. stage' = "eventualities" /\ stage = "resolved" /\ pc = "idle" /\ ~ success
              /\ verdict' = verdict /\ (turn' = Len(events) + 1 \/ turn' = turn + 1)
            BY <2>4 DEF NextEventuality, Back
        <3>2. turn \in 1..Len(events)
            BY <1>2, <1>7, <3>1 DEF Control
        <3>3. turn' \in 1..(Len(events) + 1) /\ turn' \in 0..(Len(events') + 1)
            BY <1>7, <3>1, <3>2
        <3> QED BY <1>1, <1>2, <3>1, <3>3 DEF Control
    <2>5. CASE UNCHANGED allVars
        <3>1. UNCHANGED <<stage, turn, verdict>>
            BY <2>5 DEF allVars, proverVars
        <3> QED BY <1>1, <1>2, <1>7, <2>0, <3>1 DEF Control
    <2> QED BY <2>1, <2>2, <2>3, <2>4, <2>5
<1>9. {somethingNew', unreported'} \subseteq BOOLEAN /\ since' = since /\ stage' \in Stages
      /\ verdict' \in {"none", "Satisfiable", "Unsatisfiable"}
    <2>1. {somethingNew, loopFound, unreported, anythingNew} \subseteq BOOLEAN /\ stage \in Stages
          /\ verdict \in {"none", "Satisfiable", "Unsatisfiable"}
        BY DEF SInv, SearchTypeOK, TypeOK
    <2> QED BY <2>1 DEF StartRound, NothingNew, Contradiction, NextCandidate, NextEventuality,
                        Return, allVars, proverVars, Stages
<1>10. SearchTypeOK'
    BY <1>1, <1>3, <1>6, <1>8, <1>9 DEF SInv, SearchTypeOK
<1> QED BY <1>4, <1>5, <1>6, <1>8, <1>10 DEF SInv

\* The copy that getForLoop makes is one a loop search can start from.
LEMMA CopyActivated ==
  ASSUME TypeOK, Activated(active)
  PROVE  Activated(getForLoop) /\ Cardinality(universals) \in Nat
<1>1. getForLoop = {e \in active : IsStep(e)} \cup {stepForm(e) : e \in universals}
    BY DEF getForLoop
<1>2. universals \subseteq active /\ IsFiniteSet(universals)
    BY FS_Subset DEF TypeOK, universals
<1>3. Cardinality(universals) \in Nat
    BY <1>2, FS_CardinalityType
<1>4. ASSUME NEW e \in universals
      PROVE  /\ stepForm(e) \in Entries /\ stepForm(e).at = e.at
             /\ OneKind(stepForm(e).lits) /\ stepForm(e).lits # {}
    <2>1. Cardinality({f \in universals : LoopBefore(f, e)}) \in Nat
        BY <1>2, CountType
    <2>2. e.lits \in Clauses /\ e.at \in Nat /\ nextId \in Nat /\ e.lits # {}
        BY <1>2 DEF TypeOK, Entries, Activated
    <2>3. Retag(e.lits, "step_next") \in Clauses /\ OneKind(Retag(e.lits, "step_next"))
          /\ Retag(e.lits, "step_next") # {}
        BY <2>2, RetagType, RetagOneKind DEF Attributes, Retag
    <2>4. stepForm(e).lits = Retag(e.lits, "step_next") /\ stepForm(e).at = e.at
        BY DEF stepForm
    <2> QED BY <2>1, <2>2, <2>3, <2>4 DEF Entries, stepForm
<1>5. IsFiniteSet(getForLoop)
    <2> DEFINE move == [e \in universals |-> stepForm(e)]
               image == {stepForm(e) : e \in universals}
    <2>1. move \in Surjection(universals, image)
        BY DEF Surjection
    <2>2. IsFiniteSet({e \in active : IsStep(e)})
        BY FS_Subset DEF TypeOK
    <2>3. getForLoop = {e \in active : IsStep(e)} \cup image
        BY <1>1
    <2> HIDE DEF move, image
    <2>4. IsFiniteSet(image)
        BY <1>2, <2>1, FS_Surjection
    <2> QED BY <2>2, <2>3, <2>4, FS_Union
<1>6. \A e \in getForLoop : /\ e \in Entries /\ OneKind(e.lits) /\ e.lits # {}
                            /\ \/ e \in active /\ IsStep(e)
                               \/ \E u \in universals : e = stepForm(u) /\ e.at = u.at
    BY <1>1, <1>4 DEF Activated
<1>7. \A e \in active : ~ (IsStep(e) /\ IsUniversal(e))
    BY DEF IsStep, IsUniversal, areEqual
<1>8. \A e, f \in active : e.at = f.at => e = f
    BY DEF Activated
<1>9. \A e, f \in getForLoop : e.at = f.at => e = f
    <2> SUFFICES ASSUME NEW e \in getForLoop, NEW f \in getForLoop, e.at = f.at PROVE e = f
        OBVIOUS
    <2>1. universals = {x \in active : IsUniversal(x)}
        BY DEF universals
    <2>2. CASE e \in active /\ IsStep(e)
        <3>1. CASE f \in active /\ IsStep(f)
            BY <1>8, <2>2, <3>1
        <3>2. CASE \E u \in universals : f = stepForm(u) /\ f.at = u.at
            BY <1>7, <1>8, <2>1, <2>2, <3>2
        <3> QED BY <1>6, <3>1, <3>2
    <2>3. CASE \E u \in universals : e = stepForm(u) /\ e.at = u.at
        <3>1. CASE f \in active /\ IsStep(f)
            BY <1>7, <1>8, <2>1, <2>3, <3>1
        <3>2. CASE \E u \in universals : f = stepForm(u) /\ f.at = u.at
            BY <1>8, <2>1, <2>3, <3>2
        <3> QED BY <1>6, <3>1, <3>2
    <2> QED BY <1>6, <2>2, <2>3
<1>10. \A e \in getForLoop : e.at < clock
    BY <1>2, <1>6 DEF Activated
<1> QED BY <1>3, <1>5, <1>6, <1>9, <1>10 DEF Activated

\* A loop search begins.
LEMMA LoopSearchKeeps ==
  ASSUME SInv, LoopSearch
  PROVE  SInv'
<1>1. /\ stage = "eventualities" /\ stage' = "candidate" /\ turn \in DOMAIN events
      /\ saved' = active /\ base' = getForLoop /\ nextId' = nextId + Cardinality(universals) + 1
      /\ loop' = <<{}>> /\ loopFound' = FALSE /\ mode' = "loopSearch"
      /\ UNCHANGED <<pc, active, passive, todo, kept, working, untried, success, anythingNew,
                     clock, pushed, calls, given, background, preset>>
      /\ UNCHANGED <<events, turn, somethingNew, verdict, since, unreported>>
    BY DEF LoopSearch, searchVars, resultVars
<1>2. TypeOK /\ Shape /\ SetsOK /\ Control /\ EventsOK
    BY DEF SInv, SearchTypeOK
<1>3. Activated(getForLoop) /\ Cardinality(universals) \in Nat
    BY <1>2, CopyActivated DEF SetsOK
<1>4. TypeOK'
    <2>1. mode' \in Modes /\ nextId' \in Nat
        BY <1>1, <1>2, <1>3 DEF TypeOK, Modes
    <2> QED BY <1>1, <1>2, <2>1 DEF TypeOK
<1>5. Shape'
    BY <1>1, <1>2 DEF Shape, Held
<1>6. Activated(active)' /\ Activated(saved)' /\ Activated(base)'
    BY <1>1, <1>2, <1>3 DEF SetsOK, Activated
<1>7. {} \in Clauses
    BY DEF Clauses
<1>8. CandidateOK' /\ \A i \in DOMAIN loop' : loop'[i] \in Clauses
    <2>1. loop' \in Seq(Clauses) /\ DOMAIN loop' = {1} /\ loop'[1] = {}
        BY <1>1, <1>7
    <2> QED BY <2>1 DEF CandidateOK
<1>9. SearchTypeOK'
    <2>1. saved' \subseteq Entries /\ base' \subseteq Entries
        BY <1>6 DEF Activated
    <2> QED BY <1>1, <1>4, <1>8, <2>1 DEF SInv, SearchTypeOK, Stages
<1>10. Control'
    BY <1>1, <1>2 DEF Control
<1> QED BY <1>1, <1>2, <1>5, <1>6, <1>8, <1>9, <1>10 DEF SInv, SetsOK, EventsOK

\* What an iteration of the loop search pushes.
LEMMA StepClausesParts ==
  ASSUME EventsOK, CandidateOK, turn \in DOMAIN events
  PROVE  /\ stepClauses \in Seq(Clauses) /\ DOMAIN stepClauses = DOMAIN loop
         /\ \A i \in DOMAIN loop :
              /\ stepClauses[i] = Retag(loop[i] \cup {events[turn].eventuality}, "step_next")
              /\ OneKind(stepClauses[i]) /\ stepClauses[i] # {}
<1>1. events[turn].eventuality \in Literals
    BY EventualityType DEF EventsOK
<1>2. \A i \in DOMAIN loop : loop[i] \cup {events[turn].eventuality} \in Clauses
    BY <1>1 DEF CandidateOK, Clauses
<1>3. \A i \in DOMAIN loop :
        make_sclause({}, loop[i] \cup {events[turn].eventuality})
          = Retag(loop[i] \cup {events[turn].eventuality}, "step_next")
    BY DEF make_sclause, Retag
<1>4. {} \in Clauses
    BY DEF Clauses
<1>5. stepClauses = [i \in DOMAIN loop |-> make_sclause({}, loop[i] \cup {events[turn].eventuality})]
    BY DEF stepClauses
<1>6. \A i \in DOMAIN loop : stepClauses[i] \in Clauses /\ OneKind(stepClauses[i]) /\ stepClauses[i] # {}
    BY <1>2, <1>4, <1>5, BuiltClauses
<1>7. DOMAIN loop = 1..Len(loop) /\ Len(loop) \in Nat
    BY DEF CandidateOK
<1>8. stepClauses \in [1..Len(loop) -> Clauses]
    BY <1>5, <1>6, <1>7
<1>9. stepClauses \in Seq(Clauses)
    BY <1>7, <1>8
<1> QED BY <1>3, <1>5, <1>6, <1>9

\* An iteration of the loop search.
LEMMA IterationKeeps ==
  ASSUME SInv, LoopIteration
  PROVE  SInv'
<1>1. /\ stage = "candidate" /\ stage' = "iterated" /\ CallSaturate /\ pc = "idle"
      /\ active' = base /\ passive' = Pushed(stepClauses) /\ nextId' = nextId + Len(stepClauses)
      /\ UNCHANGED <<todo, kept, working, untried, clock,
                     mode, pushed, calls, given, background, preset>>
      /\ UNCHANGED <<events, turn, somethingNew, verdict, since, unreported, saved, base,
                     loop, loopFound>>
    BY DEF LoopIteration, callerVars, loopVars
<1>2. TypeOK /\ Shape /\ SetsOK /\ Control /\ EventsOK /\ CandidateOK
    BY DEF SInv, SearchTypeOK
<1>3. mode' \in Modes /\ nextId \in Nat /\ turn \in DOMAIN events
    BY <1>1, <1>2 DEF TypeOK, Control
<1>4. stepClauses \in Seq(Clauses)
      /\ \A i \in DOMAIN stepClauses : OneKind(stepClauses[i]) /\ stepClauses[i] # {}
    BY <1>2, <1>3, StepClausesParts
<1>5. passive' \subseteq Indexed /\ \A x \in passive' : OneKind(x.lits) /\ x.lits # {}
    BY <1>1, <1>3, <1>4, PushedType
<1>6. TypeOK' /\ Shape' /\ Activated(active)'
    <2>1. Activated(active') /\ nextId + Len(stepClauses) \in Nat
        BY <1>1, <1>2, <1>3, <1>4 DEF SetsOK
    <2> QED BY <1>1, <1>2, <1>3, <1>5, <2>1, CallKeeps
<1>7. SetsOK'
    BY <1>1, <1>2, <1>6 DEF SetsOK, Activated
<1>8. SearchTypeOK'
    BY <1>1, <1>6 DEF SInv, SearchTypeOK, Stages
<1>9. EventsOK' /\ CandidateOK'
    BY <1>1, <1>2 DEF EventsOK, CandidateOK
<1>10. Control'
    BY <1>1, <1>2 DEF Control, CallSaturate
<1> QED BY <1>6, <1>7, <1>8, <1>9, <1>10 DEF SInv

\* The loop search ends, and the prover's own set is back.
LEMMA LoopReturnsKeeps ==
  ASSUME SInv, LoopReturns
  PROVE  SInv'
<1>1. /\ stage = "iterated" /\ pc = "idle" /\ UNCHANGED <<pc, todo, kept, working, untried, nextId,
                                                         clock, pushed, calls, given, background, preset>>
      /\ UNCHANGED <<events, somethingNew, verdict, since, unreported>>
      /\ mode' = "normal" /\ active' = saved /\ passive' = {} /\ saved' = {} /\ base' = {}
      /\ success' = FALSE /\ anythingNew' = FALSE /\ loopFound' \in BOOLEAN
      /\ (loop' = <<>> \/ loop' = nextFalse)
      /\ \/ loopFound' /\ stage' = "found" /\ turn' = turn
         \/ ~ loopFound' /\ stage' = "eventualities" /\ turn' = turn + 1
    BY DEF LoopReturns, Back
<1>2. TypeOK /\ Shape /\ SetsOK /\ Control /\ EventsOK
    BY DEF SInv, SearchTypeOK
<1>3. Activated(saved) /\ todo = {} /\ kept = {} /\ working = {} /\ untried = {}
    BY <1>1, <1>2 DEF SetsOK, Shape
<1>4. /\ active' \subseteq Entries /\ IsFiniteSet(active')
      /\ \A e \in active' : OneKind(e.lits) /\ e.lits # {} /\ e.at < clock
    BY <1>1, <1>3 DEF Activated
<1>5. TypeOK'
    <2>1. success' \in BOOLEAN /\ anythingNew' \in BOOLEAN /\ mode' \in Modes
        BY <1>1 DEF Modes
    <2> QED BY <1>1, <1>2, <1>4, <2>1 DEF TypeOK
<1>6. Shape'
    <2>1. \A c \in Held' : OneKind(c)
        BY <1>1, <1>3, <1>4 DEF Held, LitsOf
    <2>2. {} \notin LitsOf(active')
        BY <1>4 DEF LitsOf
    <2> QED BY <1>1, <1>3, <1>4, <2>1, <2>2 DEF Shape
<1>7. Activated(active)' /\ Activated(saved)' /\ Activated(base)'
    BY <1>1, <1>3, FS_EmptySet DEF Activated
<1>8. CandidateOK' /\ \A i \in DOMAIN loop' : loop'[i] \in Clauses
    <2>1. CASE loop' = <<>>
        BY <2>1 DEF CandidateOK
    <2>2. CASE loop' = nextFalse
        BY <1>2, <2>2, NextFalseParts DEF CandidateOK, SetsOK
    <2> QED BY <1>1, <2>1, <2>2
<1>9. Len(events) \in Nat /\ DOMAIN events = 1..Len(events) /\ turn \in DOMAIN events
    BY <1>1, <1>2 DEF EventsOK, Control
<1>10. turn' \in 0..(Len(events') + 1) /\ Control'
    BY <1>1, <1>2, <1>9 DEF Control
<1>11. SearchTypeOK'
    BY <1>1, <1>5, <1>8, <1>10 DEF SInv, SearchTypeOK, Stages
<1> QED BY <1>1, <1>2, <1>6, <1>7, <1>8, <1>10, <1>11 DEF SInv, SetsOK, EventsOK

\* Every step keeps the invariant.
LEMMA SInvNext ==
  ASSUME SInv, [SearchNext]_allVars
  PROVE  SInv'
<1>1. ASSUME NEW lits \in Inputs, AddClause(lits) PROVE SInv'
    BY <1>1, AddClauseKeeps
<1>2. ASSUME NEW e \in Eventualities, AddEventuality(e) PROVE SInv'
    BY <1>2, AddEventualityKeeps
<1>3. CASE ProverStep
    BY <1>3, StartKeeps, AugmentKeeps, PlainKeeps, LoopSearchKeeps, IterationKeeps,
       LoopReturnsKeeps, ResolventsKeep, SaturateKeeps DEF ProverStep
<1>4. CASE Finished
    BY <1>4, PlainKeeps DEF Finished
<1>5. CASE UNCHANGED allVars
    BY <1>5, PlainKeeps
<1> QED BY <1>1, <1>2, <1>3, <1>4, <1>5 DEF SearchNext

\* The invariant of the prover's state.
LEMMA SearchInvariance == SearchSpec => []SInv
<1>1. SearchInit => SInv
    BY InitSInv
<1>2. SInv /\ [SearchNext]_allVars => SInv'
    BY SInvNext
<1> QED BY <1>1, <1>2, PTL DEF SearchSpec

\* The prover, its loop search and the clause set below them never leave the
\* types.
THEOREM SearchTypeCorrect == SearchSpec => []SearchTypeOK
<1>1. SInv => SearchTypeOK
    BY DEF SInv
<1> QED BY <1>1, SearchInvariance, PTL

-----------------------------------------------------------------------------
(***************************************************************************)
(* Loop search finds loops.  A set P of pairs of consecutive moments that  *)
(* obeys the clauses of the prover's set, and from which one can always go *)
(* on, stands for the runs of those clauses.                               *)
(***************************************************************************)
Continuing(P) ==
  /\ P \subseteq Valuations \X Valuations
  /\ \A p \in P : \E w : <<p[2], w>> \in P

Obeys(P, S) ==
  /\ Continuing(P)
  /\ \A c \in S : ~ IsInitial(c) => \A p \in P : HoldsAt(c, p[1], p[2])

\* What is said of every moment holds at the second moment of a pair too.
LEMMA NextHolds ==
  ASSUME NEW P, Continuing(P), NEW c \in Clauses, \A l \in c : l.attr # "step_next",
         \A p \in P : HoldsAt(c, p[1], p[2]),
         NEW p \in P
  PROVE  HoldsAt(Retag(c, "step_next"), p[1], p[2])
<1>1. PICK w : <<p[2], w>> \in P
    BY DEF Continuing
<1>2. HoldsAt(c, p[2], w)
    BY <1>1
<1>3. PICK l \in c : HoldsLit(l, p[2], w)
    BY <1>2 DEF HoldsAt
<1>4. TrueAt(l, moment(l.attr, p[2], w)) /\ moment(l.attr, p[2], w) = p[2]
    BY <1>3, HoldsAtMoment DEF moment
<1>5. HoldsLit(setAttribute(l, "step_next"), p[1], p[2])
    <2>1. moment("step_next", p[1], p[2]) = p[2]
        BY DEF moment
    <2> QED BY <1>4, <2>1, MovedHolds
<1> QED BY <1>5 DEF HoldsAt, Retag

\* What getForLoop copies holds wherever the clauses of Active do.
LEMMA CopyHolds ==
  ASSUME TypeOK, Activated(active), NEW e \in getForLoop
  PROVE  /\ StepKind(e.lits)
         /\ \A P : Obeys(P, LitsOf(active)) => \A p \in P : HoldsAt(e.lits, p[1], p[2])
<1>1. \A f \in active : /\ f.lits \in Clauses /\ OneKind(f.lits) /\ f.lits # {}
                        /\ f.lits \in LitsOf(active)
    BY DEF Activated, Entries, LitsOf
<1>2. CASE e \in active /\ IsStep(e)
    <2>1. StepKind(e.lits)
        BY <1>1, <1>2, LeadingKind DEF IsStep, StepKind
    <2>2. ~ IsInitial(e.lits)
        BY <1>1, <1>2, <2>1 DEF IsInitial, AttributesOf, StepKind
    <2> QED BY <1>1, <1>2, <2>1, <2>2 DEF Obeys
<1>3. CASE \E u \in universals : e = stepForm(u)
    <2>1. PICK u \in universals : e = stepForm(u)
        BY <1>3
    <2>2. u \in active /\ areEqual("normal", leadingAttribute(u.lits), "universal")
        BY DEF universals, IsUniversal
    <2>3. e.lits = Retag(u.lits, "step_next")
        BY <2>1 DEF stepForm
    <2>4. leadingAttribute(u.lits) \in {"universal", "step_now"}
        BY <1>1, <2>2, LedUniversal DEF Modes
    <2>5. \A l \in u.lits : l.attr \in {"universal", "step_now"}
        BY <1>1, <2>2, <2>4, LeadingKind
    <2>6. ~ IsInitial(u.lits)
        BY <1>1, <2>2, <2>5 DEF IsInitial, AttributesOf
    <2>7. StepKind(e.lits)
        BY <2>3 DEF StepKind, Retag, setAttribute
    <2>8. ASSUME NEW P, Obeys(P, LitsOf(active)), NEW p \in P
          PROVE  HoldsAt(e.lits, p[1], p[2])
        <3>1. Continuing(P) /\ \A q \in P : HoldsAt(u.lits, q[1], q[2])
            BY <1>1, <2>2, <2>6, <2>8 DEF Obeys
        <3>2. \A l \in u.lits : l.attr # "step_next"
            BY <2>5
        <3> QED BY <1>1, <2>2, <2>3, <3>1, <3>2, NextHolds
    <2> QED BY <2>7, <2>8
<1> QED BY <1>2, <1>3 DEF getForLoop

-----------------------------------------------------------------------------
\* Some clause of the candidate L is false at v.
FalsifiedAt(L, v) == \E i \in DOMAIN L : ~ HoldsAt(L[i], v, v)

\* The moments that an iteration looks for the way to: those of the candidate
\* at which the eventuality literal is false.
Target(L, l, v) == FalsifiedAt(L, v) /\ ~ HoldsLit(l, v, v)

\* The clauses an iteration pushes hold at every pair that does not lead to
\* such a moment.
LEMMA StepClausesHold ==
  ASSUME EventsOK, CandidateOK, turn \in DOMAIN events, NEW v, NEW w,
         ~ Target(loop, events[turn].eventuality, w), NEW i \in DOMAIN loop
  PROVE  HoldsAt(stepClauses[i], v, w)
<1> DEFINE l == events[turn].eventuality
<1>1. stepClauses[i] = Retag(loop[i] \cup {l}, "step_next")
    BY StepClausesParts
<1>2. l.attr = "universal"
    BY EventualityType DEF EventsOK
<1> HIDE DEF l
<1>3. \E k \in loop[i] \cup {l} : TrueAt(k, w)
    <2>1. CASE HoldsLit(l, w, w)
        <3>1. moment(l.attr, w, w) = w
            BY DEF moment
        <3> QED BY <2>1, <3>1, HoldsAtMoment
    <2>2. CASE ~ HoldsLit(l, w, w)
        <3>1. HoldsAt(loop[i], w, w)
            BY <2>2 DEF Target, FalsifiedAt, l
        <3>2. PICK k \in loop[i] : HoldsLit(k, w, w)
            BY <3>1 DEF HoldsAt
        <3>3. moment(k.attr, w, w) = w
            BY DEF moment
        <3> QED BY <3>2, <3>3, HoldsAtMoment
    <2> QED BY <2>1, <2>2
<1>4. PICK k \in loop[i] \cup {l} : TrueAt(k, w)
    BY <1>3
<1>5. HoldsLit(setAttribute(k, "step_next"), v, w)
    <2>1. moment("step_next", v, w) = w
        BY DEF moment
    <2> QED BY <1>4, <2>1, MovedHolds
<1> QED BY <1>1, <1>5 DEF HoldsAt, Retag

\* A candidate that is subsumed by the next one names no moment that the next
\* one does not.
LEMMA SubsumedCandidate ==
  ASSUME CandidateOK, TypeOK, Activated(active), mode = "loopSearch",
         subsumesOrEqual(nextFalse, loop), NEW v, FalsifiedAt(loop, v)
  PROVE  FalsifiedAt(nextFalse, v)
<1>1. PICK j \in DOMAIN loop : ~ HoldsAt(loop[j], v, v)
    BY DEF FalsifiedAt
<1>2. PICK i \in DOMAIN nextFalse : clauseSubsumesHelper(mode, nextFalse[i], loop[j])
    BY DEF subsumesOrEqual
<1>3. loop[j] \in Clauses /\ \A l \in loop[j] : l.attr = "step_now"
    BY DEF CandidateOK
<1>4. nextFalse[i] \in Clauses /\ nextFalse[i] # {} /\ \A l \in nextFalse[i] : l.attr = "step_now"
    BY NextFalseParts DEF Activated
<1>5. OneKind(nextFalse[i]) /\ OneKind(loop[j])
    BY <1>3, <1>4 DEF OneKind, AttributesOf
<1>6. Covers(mode, nextFalse[i], loop[j])
    BY <1>2, <1>3, <1>4, <1>5, SubsumesCovers DEF TypeOK
<1>7. ~ EveryMoment(mode, nextFalse[i])
    BY <1>4 DEF EveryMoment, areEqual
<1>8. nextFalse[i] \subseteq loop[j]
    BY <1>6, <1>7 DEF Covers
<1>9. ~ HoldsAt(nextFalse[i], v, v)
    BY <1>1, <1>8 DEF HoldsAt
<1> QED BY <1>9 DEF FalsifiedAt

\* What loop search knows.  The copies hold wherever the prover's clauses do;
\* so does all that saturate has concluded in an iteration, but for pairs
\* that lead to a moment of the candidate without the eventuality literal;
\* and what it returns is a loop.
CopyOK ==
  \A e \in base : /\ StepKind(e.lits)
                  /\ \A P : Obeys(P, LitsOf(saved)) => \A p \in P : HoldsAt(e.lits, p[1], p[2])

IterationOK ==
  /\ \A c \in Held : StepKind(c)
  /\ \A P : Obeys(P, LitsOf(saved)) =>
       \A p \in P : \/ Target(loop, events[turn].eventuality, p[2])
                    \/ \A c \in Held : HoldsAt(c, p[1], p[2])

Closed(P) ==
  \A p \in P : InLoop(p[1]) => InLoop(p[2]) /\ ~ HoldsLit(events[turn].eventuality, p[2], p[2])

LoopInv ==
  /\ Refuted
  /\ stage \in {"candidate", "iterated"} => CopyOK
  /\ stage = "iterated" => IterationOK
  /\ stage = "found" => \A P : Obeys(P, LitsOf(active)) => Closed(P)

\* The search begins with a copy that is right.
LEMMA LoopSearchFinds ==
  ASSUME SInv, LoopInv, LoopSearch
  PROVE  LoopInv'
<1>1. /\ stage' = "candidate" /\ saved' = active /\ base' = getForLoop
      /\ UNCHANGED <<passive, working, success>>
    BY DEF LoopSearch, searchVars, resultVars
<1>2. TypeOK /\ Activated(active)
    BY DEF SInv, SearchTypeOK, SetsOK
<1>3. Refuted'
    BY <1>1 DEF LoopInv, Refuted
<1>4. CopyOK'
    BY <1>1, <1>2, CopyHolds DEF CopyOK
<1> QED BY <1>1, <1>3, <1>4 DEF LoopInv

\* An iteration starts from clauses that are right.
LEMMA IterationFinds ==
  ASSUME SInv, LoopInv, LoopIteration
  PROVE  LoopInv'
<1>1. /\ stage = "candidate" /\ stage' = "iterated" /\ pc = "idle"
      /\ active' = base /\ passive' = Pushed(stepClauses) /\ success' = FALSE
      /\ UNCHANGED <<todo, kept, working, events, turn, saved, base, loop>>
    BY DEF LoopIteration, loopVars, CallSaturate
<1>2. TypeOK /\ Shape /\ EventsOK /\ CandidateOK /\ turn \in DOMAIN events
    BY <1>1 DEF SInv, SearchTypeOK, Control
<1>3. todo = {} /\ kept = {} /\ working = {}
    BY <1>1, <1>2 DEF Shape
<1>4. /\ stepClauses \in Seq(Clauses) /\ DOMAIN stepClauses = DOMAIN loop
      /\ \A i \in DOMAIN loop :
           stepClauses[i] = Retag(loop[i] \cup {events[turn].eventuality}, "step_next")
    BY <1>2, StepClausesParts
<1>5. \A e \in passive' : \E i \in DOMAIN loop : e.lits = stepClauses[i]
    BY <1>1, <1>2, <1>4, PushedType DEF TypeOK
<1>6. \A c \in Held' : \/ \E e \in base : c = e.lits
                       \/ \E i \in DOMAIN loop : c = stepClauses[i]
    BY <1>1, <1>3, <1>5 DEF Held, LitsOf
<1>7. \A i \in DOMAIN loop : StepKind(stepClauses[i])
    BY <1>4 DEF StepKind, Retag, setAttribute
<1>8. CopyOK
    BY <1>1 DEF LoopInv
<1>9. \A c \in Held' : StepKind(c)
    BY <1>6, <1>7, <1>8 DEF CopyOK
<1>10. ASSUME NEW P, Obeys(P, LitsOf(saved)), NEW p \in P,
              ~ Target(loop, events[turn].eventuality, p[2]), NEW c \in Held'
       PROVE  HoldsAt(c, p[1], p[2])
    <2>1. CASE \E e \in base : c = e.lits
        BY <1>8, <1>10, <2>1 DEF CopyOK
    <2>2. CASE \E i \in DOMAIN loop : c = stepClauses[i]
        BY <1>2, <1>10, <2>2, StepClausesHold
    <2> QED BY <1>6, <2>1, <2>2
<1>11. IterationOK'
    BY <1>1, <1>9, <1>10 DEF IterationOK
<1>12. CopyOK'
    BY <1>1, <1>8 DEF CopyOK
<1> QED BY <1>1, <1>11, <1>12 DEF LoopInv, Refuted

\* A step of saturate, in an iteration or not.
LEMMA StepFinds ==
  ASSUME SInv, LoopInv, SaturateStep
  PROVE  LoopInv'
<1>1. /\ Step /\ UNCHANGED <<stage, events, turn, saved, base, loop>>
    BY DEF SaturateStep, proverVars, loopVars
<1>2. TypeOK /\ Shape /\ Control
    BY DEF SInv, SearchTypeOK
<1>3. Refuted'
    BY <1>1, <1>2, RefutedStep DEF LoopInv
<1>4. stage # "found"
    BY <1>1, <1>2, StepRuns DEF Control
<1>5. stage \in {"candidate", "iterated"} => CopyOK'
    BY <1>1 DEF LoopInv, CopyOK
<1>6. ASSUME stage = "iterated"
      PROVE  IterationOK'
    <2>1. mode = "loopSearch" /\ IterationOK
        BY <1>2, <1>6 DEF Control, LoopInv
    <2>2. AllFinite
        BY <1>2, HeldType, LiteralsFinite DEF AllFinite, Held
    <2>3. /\ \A c \in Held' : StepKind(c)
          /\ \A v, w : (\A c \in Held : HoldsAt(c, v, w)) => \A c \in Held' : HoldsAt(c, v, w)
        BY <1>1, <1>2, <2>1, <2>2, LoopStepHolds DEF IterationOK
    <2> QED BY <1>1, <2>1, <2>3 DEF IterationOK
<1> QED BY <1>1, <1>3, <1>4, <1>5, <1>6 DEF LoopInv

\* What the search returns is a loop.
LEMMA LoopReturnsFinds ==
  ASSUME SInv, LoopInv, LoopReturns
  PROVE  LoopInv'
<1>1. /\ stage = "iterated" /\ success' = FALSE /\ active' = saved /\ events' = events
      /\ \/ stage' = "eventualities"
         \/ /\ stage' = "found" /\ turn' = turn
            /\ \/ success /\ loop' = <<>>
               \/ nextFalse # <<>> /\ subsumesOrEqual(nextFalse, loop) /\ loop' = nextFalse
    BY DEF LoopReturns, Back
<1>2. TypeOK /\ Activated(active) /\ CandidateOK /\ EventsOK /\ mode = "loopSearch"
    BY <1>1 DEF SInv, SearchTypeOK, SetsOK, Control
<1>3. IterationOK /\ Refuted
    BY <1>1 DEF LoopInv
<1>4. ASSUME stage' = "found", NEW P, Obeys(P, LitsOf(saved)), NEW p \in P, InLoop(p[1])'
      PROVE  InLoop(p[2])' /\ ~ HoldsLit(events[turn].eventuality, p[2], p[2])
    <2> DEFINE l == events[turn].eventuality
    <2>1. Target(loop, l, p[2]) \/ \A c \in Held : HoldsAt(c, p[1], p[2])
        BY <1>3, <1>4 DEF IterationOK
    <2> HIDE DEF l
    <2>2. CASE success /\ loop' = <<>>
        <3>1. {} \in Held
            BY <1>3, <2>2 DEF Refuted, Held
        <3>2. ~ HoldsAt({}, p[1], p[2])
            BY DEF HoldsAt
        <3>3. Target(loop, l, p[2])
            BY <2>1, <3>1, <3>2
        <3> QED BY <2>2, <3>3 DEF InLoop, Target, l
    <2>3. CASE nextFalse # <<>> /\ subsumesOrEqual(nextFalse, loop) /\ loop' = nextFalse
        <3>1. \A v : InLoop(v)' <=> FalsifiedAt(nextFalse, v)
            BY <2>3 DEF InLoop, FalsifiedAt
        <3>2. PICK i \in DOMAIN nextFalse : ~ HoldsAt(nextFalse[i], p[1], p[1])
            BY <1>4, <3>1 DEF FalsifiedAt
        <3>3. /\ \A k \in nextFalse[i] : k.attr = "step_now"
              /\ \E e \in active : nextFalse[i] = e.lits
            BY <1>2, NextFalseParts
        <3>4. ~ HoldsAt(nextFalse[i], p[1], p[2])
            <4>1. \A k \in nextFalse[i] : HoldsLit(k, p[1], p[1]) = HoldsLit(k, p[1], p[2])
                BY <3>3 DEF HoldsLit
            <4> QED BY <3>2, <4>1 DEF HoldsAt
        <3>5. nextFalse[i] \in Held
            BY <3>3 DEF Held, LitsOf
        <3>6. Target(loop, l, p[2])
            BY <2>1, <3>4, <3>5
        <3>7. FalsifiedAt(nextFalse, p[2])
            BY <1>2, <2>3, <3>6, SubsumedCandidate DEF Target
        <3> QED BY <3>1, <3>6, <3>7 DEF Target, l
    <2> QED BY <1>1, <1>4, <2>2, <2>3
<1>5. ASSUME stage' = "found", NEW P, Obeys(P, LitsOf(active'))
      PROVE  Closed(P)'
    <2>1. Obeys(P, LitsOf(saved))
        BY <1>1, <1>5
    <2>2. turn' = turn
        BY <1>1, <1>5
    <2> QED BY <1>1, <1>4, <1>5, <2>1, <2>2 DEF Closed
<1> QED BY <1>1, <1>5 DEF LoopInv, Refuted

\* What neither starts nor ends a search.
LEMMA OtherFinds ==
  ASSUME SInv, LoopInv,
         \/ \E lits \in Inputs : AddClause(lits)
         \/ \E e \in Eventualities : AddEventuality(e)
         \/ StartSearch \/ Augment \/ StartRound \/ NothingNew \/ Contradiction
         \/ NextCandidate \/ generateResolvents \/ NextEventuality \/ UNCHANGED allVars
  PROVE  LoopInv'
<1>1. CASE \E lits \in Inputs : AddClause(lits)
    <2>1. UNCHANGED <<stage, working, success>> /\ passive \subseteq passive' /\ stage = "reading"
        BY <1>1 DEF AddClause, Push, proverVars, resultVars
    <2>2. Refuted'
        BY <2>1 DEF LoopInv, Refuted, LitsOf
    <2> QED BY <2>1, <2>2 DEF LoopInv
<1>2. CASE \E e \in Eventualities : AddEventuality(e)
    <2>1. UNCHANGED <<stage, working, success, passive>> /\ stage = "reading"
        BY <1>2 DEF AddEventuality, searchVars, resultVars
    <2>2. Refuted'
        BY <2>1 DEF LoopInv, Refuted
    <2> QED BY <2>1, <2>2 DEF LoopInv
<1>3. CASE StartSearch \/ Augment \/ generateResolvents
    <2>1. success' = FALSE /\ stage' \in {"step", "augmented", "resolved"}
        BY <1>3 DEF StartSearch, Augment, generateResolvents, CallSaturate
    <2> QED BY <2>1 DEF LoopInv, Refuted
<1>4. CASE StartRound \/ NothingNew \/ Contradiction \/ NextEventuality
    <2>1. UNCHANGED <<working, success, passive>> /\ stage' \in {"eventualities", "done"}
        BY <1>4 DEF StartRound, NothingNew, Contradiction, NextEventuality, Return,
                    vars, searchVars, resultVars
    <2> QED BY <2>1 DEF LoopInv, Refuted
<1>5. CASE NextCandidate
    <2>1. /\ UNCHANGED <<working, success, passive, base, saved>>
          /\ stage = "iterated" /\ stage' = "candidate"
        BY <1>5 DEF NextCandidate, Back, vars, searchVars, resultVars
    <2> QED BY <2>1 DEF LoopInv, Refuted, CopyOK
<1>6. CASE UNCHANGED allVars
    <2>1. UNCHANGED <<active, passive, todo, kept, working, success>>
          /\ UNCHANGED <<stage, events, turn, base, saved, loop>>
        BY <1>6 DEF allVars, vars, searchVars, resultVars, proverVars, loopVars
    <2>2. Held' = Held
        BY <2>1 DEF Held
    <2>3. Refuted' /\ (CopyOK => CopyOK') /\ (IterationOK => IterationOK')
        BY <2>1, <2>2 DEF LoopInv, Refuted, CopyOK, IterationOK
    <2>4. \A P : Closed(P) => Closed(P)'
        BY <2>1 DEF Closed, InLoop
    <2> QED BY <2>1, <2>3, <2>4 DEF LoopInv
<1> QED BY <1>1, <1>2, <1>3, <1>4, <1>5, <1>6

\* Every step keeps what loop search knows.
LEMMA LoopInvNext ==
  ASSUME SInv, LoopInv, [SearchNext]_allVars
  PROVE  LoopInv'
BY OtherFinds, LoopSearchFinds, IterationFinds, LoopReturnsFinds, StepFinds
   DEF SearchNext, ProverStep, Finished

\* The loop that loop search returns is one: of the moments that the runs of
\* the prover's clauses can pass, those of the loop are followed by moments
\* of the loop only, and the eventuality literal is false at every one of them.
THEOREM LoopIsLoop ==
  SearchSpec =>
    [](stage = "found" =>
         LET T == Transitions(LitsOf(active))
         IN  \A e \in T : {e[1], e[2]} \subseteq Alive(T) /\ InLoop(e[1]) =>
               InLoop(e[2]) /\ ~ HoldsLit(events[turn].eventuality, e[2], e[2]))
<1> DEFINE T == Transitions(LitsOf(active))
           Loop == \A e \in T : {e[1], e[2]} \subseteq Alive(T) /\ InLoop(e[1]) =>
                     InLoop(e[2]) /\ ~ HoldsLit(events[turn].eventuality, e[2], e[2])
<1>1. SearchInit => SInv /\ LoopInv
    BY InitSInv DEF SearchInit, Init, LoopInv, Refuted
<1>2. SInv /\ LoopInv /\ [SearchNext]_allVars => (SInv /\ LoopInv)'
    BY SInvNext, LoopInvNext
<1>3. ASSUME LoopInv, stage = "found"
      PROVE  Loop
    <2> DEFINE P == {e \in T : {e[1], e[2]} \subseteq Alive(T)}
    <2>1. Continuing(P)
        <3>1. P \subseteq Valuations \X Valuations
            BY DEF Transitions
        <3>2. ASSUME NEW p \in P
              PROVE  \E w : <<p[2], w>> \in P
            <4>1. PICK w \in Alive(T) : <<p[2], w>> \in T
                BY AliveStep
            <4>2. <<p[2], w>>[1] = p[2] /\ <<p[2], w>>[2] = w
                OBVIOUS
            <4> QED BY <4>1, <4>2
        <3> QED BY <3>1, <3>2 DEF Continuing
    <2>2. Obeys(P, LitsOf(active))
        BY <2>1 DEF Obeys, Transitions
    <2>3. Closed(P)
        BY <1>3, <2>2 DEF LoopInv
    <2> QED BY <2>3 DEF Closed
<1>4. LoopInv => (stage = "found" => Loop)
    BY <1>3
<1> HIDE DEF Loop
<1>5. SearchSpec => [](stage = "found" => Loop)
    BY <1>1, <1>2, <1>4, PTL DEF SearchSpec
<1> QED BY <1>5 DEF Loop

-----------------------------------------------------------------------------
(***************************************************************************)
(* A contradiction found is one.  P and F stand for a model of the         *)
(* problem: the pairs of consecutive moments it passes and its first       *)
(* moments, where the symbol made for an eventuality literal is true while *)
(* a clause for it is owed.                                                *)
(***************************************************************************)
Continues(P, F) ==
  /\ Continuing(P)
  /\ F \subseteq Valuations /\ F # {}
  /\ \A v \in F : \E w : <<v, w>> \in P

\* The clauses that hold there.
Conc(P, F) ==
  {c \in Clauses : IF IsInitial(c) THEN \A v \in F : HoldsAt(c, v, v)
                   ELSE \A p \in P : HoldsAt(c, p[1], p[2])}

\* Nothing is owed where it is never paid: not in a set that one cannot leave
\* and in which l is false.
NoDebt(P, l, n) ==
  \A Y : (\A p \in P : p[1] \in Y => p[2] \in Y /\ ~ HoldsLit(l, p[2], p[2])) =>
           \A p \in P : p[1] \in Y => n \notin p[1]

Models(P, F) ==
  /\ Continues(P, F)
  /\ given \subseteq Conc(P, F)
  /\ \A l \in EventualityLiterals : augmentedStep(l) \in Conc(P, F)
  /\ \A i \in DOMAIN events : augmentedNow(i) \in Conc(P, F)
  /\ \A l \in EventualityLiterals : NoDebt(P, l, makeLiteral(l).prop)

\* Whatever the clauses that hold there entail holds there.
LEMMA ConcClosed ==
  ASSUME NEW P, NEW F, Continues(P, F), NEW d \in Clauses, Entails(Conc(P, F), d)
  PROVE  d \in Conc(P, F)
<1> DEFINE S == Conc(P, F)
           T == Transitions(S)
           V == {p[1] : p \in P}
<1>1. \A p \in P : p \in Valuations \X Valuations /\ p = <<p[1], p[2]>>
    BY DEF Continues, Continuing
<1>2. P \subseteq T
    BY <1>1 DEF Transitions, Conc
<1>3. V \subseteq Alive(T)
    <2>1. V \in SUBSET Valuations
        BY <1>1
    <2>2. ASSUME NEW v \in V
          PROVE  \E w \in V : <<v, w>> \in T
        <3>1. PICK p \in P : v = p[1]
            OBVIOUS
        <3>2. PICK w : <<p[2], w>> \in P
            BY DEF Continues, Continuing
        <3>3. p[2] \in V
            <4>1. <<p[2], w>>[1] = p[2]
                OBVIOUS
            <4> QED BY <3>2, <4>1
        <3>4. <<v, p[2]>> \in P
            BY <1>1, <3>1
        <3> QED BY <1>2, <3>3, <3>4
    <2> HIDE DEF V, T
    <2> QED BY <2>1, <2>2 DEF Alive
<1>4. \A p \in P : p[1] \in Alive(T) /\ p[2] \in Alive(T)
    <2> SUFFICES ASSUME NEW p \in P PROVE p[1] \in V /\ p[2] \in V
        BY <1>3
    <2>1. PICK w : <<p[2], w>> \in P
        BY DEF Continues, Continuing
    <2>2. <<p[2], w>>[1] = p[2]
        OBVIOUS
    <2> QED BY <2>1, <2>2
<1>5. F \subseteq Alive(T)
    <2> SUFFICES ASSUME NEW v \in F PROVE v \in V
        BY <1>3
    <2>1. PICK w : <<v, w>> \in P
        BY DEF Continues
    <2>2. <<v, w>>[1] = v
        OBVIOUS
    <2> QED BY <2>1, <2>2
<1>6. F \subseteq Starts(S)
    <2> SUFFICES ASSUME NEW v \in F, NEW c \in S, IsInitial(c) PROVE HoldsAt(c, v, v)
        BY <1>5 DEF Starts
    <2> QED BY DEF Conc
<1>7. F # {}
    BY DEF Continues
<1> HIDE DEF S, T, V
<1>8. d # {}
    BY <1>6, <1>7 DEF Entails, S
<1>9. CASE IsInitial(d)
    BY <1>6, <1>8, <1>9 DEF Entails, Conc, S
<1>10. CASE ~ IsInitial(d)
    BY <1>2, <1>4, <1>8, <1>10 DEF Entails, Conc, S, T
<1> QED BY <1>9, <1>10

\* The empty clause does not hold there.
LEMMA NotEmpty ==
  ASSUME NEW P, NEW F, Continues(P, F)
  PROVE  {} \notin Conc(P, F)
<1>1. PICK v \in F : TRUE
    BY DEF Continues
<1>2. PICK w : <<v, w>> \in P
    BY DEF Continues
<1>3. ~ HoldsAt({}, <<v, w>>[1], <<v, w>>[2]) /\ ~ IsInitial({})
    BY DEF HoldsAt, IsInitial
<1> QED BY <1>2, <1>3 DEF Conc

\* Saturate concludes what holds there.
LEMMA StepConc ==
  ASSUME TypeOK, Shape, Step, NEW P, NEW F, Continues(P, F), Held \subseteq Conc(P, F)
  PROVE  Held' \subseteq Conc(P, F)
<1> DEFINE S == Conc(P, F)
<1>1. AllFinite
    BY HeldType, LiteralsFinite DEF AllFinite, Held
<1>2. Held' \subseteq Clauses
    <2>1. TypeOK'
        BY TypeStep
    <2> QED BY <2>1 DEF TypeOK, Held, LitsOf, Entries, Indexed
<1>3. \A c \in Held : Entails(S, c)
    BY HeldEntailed
<1>4. ASSUME NEW d \in Held', d \notin Held
      PROVE  d \in S
    <2> HIDE DEF S
    <2>1. Entails(S, d)
        BY <1>1, <1>3, <1>4, StepConcludes
    <2> QED BY <1>2, <2>1, ConcClosed DEF S
<1> QED BY <1>4

\* A clause for every moment, as augmentation and temporal resolution make it.
LEMMA UniversalHolds ==
  ASSUME NEW P, NEW F, NEW c \in Clauses
  PROVE  make_uclause(c) \in Conc(P, F) <=>
           \A p \in P : \E l \in c : TrueAt(l, p[1])
<1> DEFINE u == make_uclause(c)
<1>1. u \in Clauses
    BY BuiltClauses
<1>2. ~ IsInitial(u)
    BY DEF IsInitial, AttributesOf, make_uclause, Retag, setAttribute
<1>3. ASSUME NEW v, NEW w
      PROVE  HoldsAt(u, v, w) <=> \E l \in c : TrueAt(l, v)
    <2>1. \A l \in c : HoldsLit(setAttribute(l, "universal"), v, w) = TrueAt(l, v)
        BY DEF HoldsLit, TrueAt, setAttribute
    <2>2. u = {setAttribute(l, "universal") : l \in c}
        BY DEF make_uclause, Retag
    <2> HIDE DEF u
    <2> QED BY <2>1, <2>2 DEF HoldsAt
<1> HIDE DEF u
<1>4. u \in Conc(P, F) <=> \A p \in P : HoldsAt(u, p[1], p[2])
    BY <1>1, <1>2 DEF Conc
<1> QED BY <1>3, <1>4 DEF u

\* A step clause, likewise.
LEMMA StepHolds ==
  ASSUME NEW P, NEW F, NEW now \in Clauses, NEW next \in Clauses
  PROVE  make_sclause(now, next) \in Conc(P, F) <=>
           \A p \in P : (\E l \in now : TrueAt(l, p[1])) \/ (\E l \in next : TrueAt(l, p[2]))
<1> DEFINE u == make_sclause(now, next)
<1>1. u \in Clauses
    BY BuiltClauses
<1>2. ~ IsInitial(u)
    BY DEF IsInitial, AttributesOf, make_sclause, Retag, setAttribute
<1>3. ASSUME NEW v, NEW w
      PROVE  HoldsAt(u, v, w) <=> (\E l \in now : TrueAt(l, v)) \/ (\E l \in next : TrueAt(l, w))
    <2>1. /\ \A l \in now : HoldsLit(setAttribute(l, "step_now"), v, w) = TrueAt(l, v)
          /\ \A l \in next : HoldsLit(setAttribute(l, "step_next"), v, w) = TrueAt(l, w)
        BY DEF HoldsLit, TrueAt, setAttribute
    <2>2. u = {setAttribute(l, "step_now") : l \in now} \cup {setAttribute(l, "step_next") : l \in next}
        BY DEF make_sclause, Retag
    <2> HIDE DEF u
    <2> QED BY <2>1, <2>2 DEF HoldsAt
<1> HIDE DEF u
<1>4. u \in Conc(P, F) <=> \A p \in P : HoldsAt(u, p[1], p[2])
    BY <1>1, <1>2 DEF Conc
<1> QED BY <1>3, <1>4 DEF u

\* The symbol made for an eventuality literal occurs without a sign in it.
LEMMA NewLiteralTrue ==
  ASSUME EventsOK, NEW l \in EventualityLiterals, NEW x
  PROVE  /\ TrueAt(makeLiteral(l), x) <=> makeLiteral(l).prop \in x
         /\ TrueAt(negate(makeLiteral(l)), x) <=> makeLiteral(l).prop \notin x
<1> DEFINE w == makeLiteral(l)
<1>1. w \in Literals /\ ~ w.neg
    BY NewSymbols
<1>2. w.neg \in BOOLEAN /\ negate(w) \in Literals /\ negate(w).prop = w.prop /\ negate(w).neg = ~ w.neg
    BY <1>1 DEF Literals, negate
<1> HIDE DEF w
<1>3. TrueAt(w, x) <=> w.prop \in x
    BY <1>1, SignTrue
<1>4. negate(w).neg
    BY <1>1, <1>2
<1>5. TrueAt(negate(w), x) <=> negate(w).prop \notin x
    BY <1>2, <1>4, SignTrue
<1> QED BY <1>2, <1>3, <1>5 DEF w

\* A clause holds at a moment by itself if a literal of it is true there.
LEMMA HoldsThere ==
  ASSUME NEW c, NEW v
  PROVE  HoldsAt(c, v, v) <=> \E l \in c : TrueAt(l, v)
<1>1. \A l \in c : HoldsLit(l, v, v) = TrueAt(l, v)
    BY DEF HoldsLit, TrueAt
<1> QED BY <1>1 DEF HoldsAt

\* Temporal resolution upon a loop is sound.
LEMMA ResolventsHold ==
  ASSUME EventsOK, CandidateOK, turn \in DOMAIN events, NEW P, NEW F, Models(P, F), Closed(P),
         NEW d \in loopClauses
  PROVE  resolventStep(d) \in Conc(P, F) /\ resolventNow(d) \in Conc(P, F)
<1> DEFINE l == events[turn].eventuality
           pres == events[turn].present
           w == makeLiteral(l)
           n == w.prop
           Y == {v \in Valuations : InLoop(v)}
<1>1. l \in EventualityLiterals /\ events[turn] \in Eventualities
    BY DEF EventualityLiterals, EventsOK
<1>2. l \in Literals /\ pres \in Clauses /\ w \in Literals /\ negate(w) \in Literals
    <2>1. l \in Literals /\ pres \in Clauses /\ w \in Literals
        BY <1>1, EventualityType, NewSymbols
    <2> QED BY <2>1 DEF negate, Literals
<1>3. d \in Clauses
    <2>1. {} \in Clauses
        BY DEF Clauses
    <2>2. d = {} \/ \E i \in DOMAIN loop : d = loop[i]
        BY DEF loopClauses
    <2>3. \A i \in DOMAIN loop : loop[i] \in Clauses
        BY DEF CandidateOK
    <2> QED BY <2>1, <2>2, <2>3
<1>4. \A x : (TrueAt(w, x) <=> n \in x) /\ (TrueAt(negate(w), x) <=> n \notin x)
    BY <1>1, NewLiteralTrue
<1>5. \A p \in P : p[1] \in Valuations /\ p[2] \in Valuations /\ \E u : <<p[2], u>> \in P
    BY DEF Models, Continues, Continuing
<1>6. \A v : (\A k \in d : ~ TrueAt(k, v)) => InLoop(v)
    <2> SUFFICES ASSUME NEW v, \A k \in d : ~ TrueAt(k, v), loop # <<>>
                 PROVE  InLoop(v)
        BY DEF InLoop
    <2>1. ~ HoldsAt(d, v, v)
        BY HoldsThere
    <2> QED BY <2>1 DEF InLoop, loopClauses
<1>7. \A p \in P : InLoop(p[1]) => InLoop(p[2]) /\ ~ HoldsLit(l, p[2], p[2])
    BY DEF Closed
<1>8. augmentedStep(l) = make_sclause({negate(w)}, {l, w})
    BY DEF augmentedStep
<1>9. augmentedNow(turn) = make_uclause(pres \cup {l, w})
    BY DEF augmentedNow
<1>10. resolventStep(d) = make_sclause({negate(w)}, d \cup {l})
       /\ resolventNow(d) = make_uclause(d \cup {l} \cup pres)
    BY DEF resolventStep, resolventNow
<1>11. NoDebt(P, l, n) /\ augmentedStep(l) \in Conc(P, F) /\ augmentedNow(turn) \in Conc(P, F)
    BY <1>1 DEF Models
<1> HIDE DEF l, pres, w, n
<1>12. \A p \in P : InLoop(p[1]) => n \notin p[1]
    <2>1. \A p \in P : p[1] \in Y => p[2] \in Y /\ ~ HoldsLit(l, p[2], p[2])
        BY <1>5, <1>7
    <2>2. \A p \in P : p[1] \in Y => n \notin p[1]
        BY <1>11, <2>1 DEF NoDebt
    <2> QED BY <1>5, <2>2
<1> HIDE DEF Y
<1>13. resolventNow(d) \in Conc(P, F)
    <2>1. pres \cup {l, w} \in Clauses /\ d \cup {l} \cup pres \in Clauses
        BY <1>2, <1>3 DEF Clauses
    <2>2. \A p \in P : \E k \in pres \cup {l, w} : TrueAt(k, p[1])
        BY <1>9, <1>11, <2>1, UniversalHolds
    <2>3. \A p \in P : \E k \in d \cup {l} \cup pres : TrueAt(k, p[1])
        <3> SUFFICES ASSUME NEW p \in P, \A k \in d \cup {l} \cup pres : ~ TrueAt(k, p[1])
                     PROVE  FALSE
            OBVIOUS
        <3>1. TrueAt(w, p[1])
            BY <2>2
        <3>2. InLoop(p[1])
            BY <1>6
        <3> QED BY <1>4, <1>12, <3>1, <3>2
    <2> QED BY <1>10, <2>1, <2>3, UniversalHolds
<1>14. resolventStep(d) \in Conc(P, F)
    <2>1. {negate(w)} \in Clauses /\ {l, w} \in Clauses /\ d \cup {l} \in Clauses
        BY <1>2, <1>3 DEF Clauses
    <2>2. \A p \in P : (\E k \in {negate(w)} : TrueAt(k, p[1])) \/ (\E k \in {l, w} : TrueAt(k, p[2]))
        BY <1>8, <1>11, <2>1, StepHolds
    <2>3. \A p \in P : (\E k \in {negate(w)} : TrueAt(k, p[1])) \/ (\E k \in d \cup {l} : TrueAt(k, p[2]))
        <3> SUFFICES ASSUME NEW p \in P, ~ TrueAt(negate(w), p[1]),
                            \A k \in d \cup {l} : ~ TrueAt(k, p[2])
                     PROVE  FALSE
            OBVIOUS
        <3>1. TrueAt(w, p[2])
            BY <2>2
        <3>2. InLoop(p[2])
            BY <1>6
        <3>3. PICK u : <<p[2], u>> \in P
            BY <1>5
        <3>4. <<p[2], u>>[1] = p[2]
            OBVIOUS
        <3>5. n \notin p[2]
            BY <1>12, <3>2, <3>3, <3>4
        <3> QED BY <1>4, <3>1, <3>5
    <2> QED BY <1>10, <2>1, <2>3, StepHolds
<1> QED BY <1>13, <1>14

\* The symbols that augmentation makes are fixed once the problem is read.
firstIn(evs, l) ==
  CHOOSE i \in DOMAIN evs :
    evs[i].eventuality = l /\ \A j \in 1..(i - 1) : evs[j].eventuality # l
beforeIn(evs, k, l) ==
  k.prop < l.prop \/ (k.prop = l.prop /\ firstIn(evs, k) < firstIn(evs, l))
literalsIn(evs) == {evs[i].eventuality : i \in DOMAIN evs}
sortedIn(evs) ==
  [i \in 1..Cardinality(literalsIn(evs)) |->
     CHOOSE l \in literalsIn(evs) :
       Cardinality({k \in literalsIn(evs) : beforeIn(evs, k, l)}) = i - 1]
nameIn(evs, l) ==
  [prop |-> CHOOSE n \in Prop :
              Cardinality({m \in Prop \ Symbols : m <= n}) =
                (CHOOSE i \in DOMAIN sortedIn(evs) : sortedIn(evs)[i] = l),
   neg |-> FALSE, attr |-> "universal"]

\* They depend on the eventuality clauses only.
LEMMA NamesSame ==
  ASSUME events' = events
  PROVE  EventualityLiterals' = EventualityLiterals /\ \A l : makeLiteral(l)' = makeLiteral(l)
<1>1. EventualityLiterals = literalsIn(events) /\ EventualityLiterals' = literalsIn(events')
    BY DEF EventualityLiterals, literalsIn
<1>2. ASSUME NEW l
      PROVE  makeLiteral(l) = nameIn(events, l) /\ makeLiteral(l)' = nameIn(events', l)
    BY DEF makeLiteral, nameIn, sortedEventualities, sortedIn, SortedBefore, beforeIn,
           FirstAt, firstIn, EventualityLiterals, literalsIn
<1> QED BY <1>1, <1>2

\* So a model of the problem stays one while the prover runs.
LEMMA ModelsSame ==
  ASSUME events' = events, given' = given, NEW P, NEW F, Models(P, F)'
  PROVE  Models(P, F)
<1>1. EventualityLiterals' = EventualityLiterals /\ \A l : makeLiteral(l)' = makeLiteral(l)
    BY NamesSame
<1>2. \A l : augmentedStep(l)' = augmentedStep(l)
    BY <1>1 DEF augmentedStep
<1>3. \A i : augmentedNow(i)' = augmentedNow(i)
    BY <1>1 DEF augmentedNow
<1>4. Continues(P, F) /\ given \subseteq Conc(P, F)
    BY DEF Models
<1>5. \A l \in EventualityLiterals : augmentedStep(l) \in Conc(P, F)
    BY <1>1, <1>2 DEF Models
<1>6. \A i \in DOMAIN events : augmentedNow(i) \in Conc(P, F)
    BY <1>3 DEF Models
<1>7. \A l \in EventualityLiterals : NoDebt(P, l, makeLiteral(l).prop)
    BY <1>1 DEF Models
<1> QED BY <1>4, <1>5, <1>6, <1>7 DEF Models

-----------------------------------------------------------------------------
\* What the prover holds in a model of the problem.
Facts(P, F) ==
  /\ stage \notin {"reading", "candidate", "iterated"} => Held \subseteq Conc(P, F)
  /\ stage \in {"candidate", "iterated"} => LitsOf(saved) \subseteq Conc(P, F)
  /\ verdict # "Unsatisfiable"

RightInv ==
  /\ given \subseteq Inputs
  /\ stage = "reading" => Held \subseteq given
  /\ \A P, F : Models(P, F) => Facts(P, F)

\* Reading.
LEMMA ReadingRight ==
  ASSUME SInv, RightInv,
         \/ \E lits \in Inputs : AddClause(lits)
         \/ \E e \in Eventualities : AddEventuality(e)
  PROVE  RightInv'
<1>1. stage = "reading" /\ stage' = "reading" /\ verdict' = "none"
    BY DEF AddClause, AddEventuality, proverVars, SInv, Control
<1>2. given' \subseteq Inputs /\ Held' \subseteq given'
    <2>1. CASE \E lits \in Inputs : AddClause(lits)
        <3>1. PICK lits \in Inputs : Push(lits)
            BY <2>1 DEF AddClause
        <3> DEFINE new == [id |-> nextId, lits |-> lits]
        <3>2. /\ UNCHANGED <<active, todo, kept, working>>
              /\ \/ UNCHANGED <<passive, given>>
                 \/ passive' = passive \cup {new} /\ given' = given \cup {lits}
            BY <3>1 DEF Push
        <3>3. new.lits = lits
            OBVIOUS
        <3> HIDE DEF new
        <3> QED BY <1>1, <3>2, <3>3 DEF RightInv, Held, LitsOf
    <2>2. CASE \E e \in Eventualities : AddEventuality(e)
        <3>1. UNCHANGED <<active, passive, todo, kept, working, given>>
            BY <2>2 DEF AddEventuality, searchVars, callerVars
        <3> QED BY <1>1, <3>1 DEF RightInv, Held
    <2> QED BY <2>1, <2>2
<1> QED BY <1>1, <1>2 DEF RightInv, Facts

\* To show that a step after reading is right it is enough to show it in
\* every model.
LEMMA RightStep ==
  ASSUME RightInv, events' = events, given' = given, stage' # "reading",
         \A P, F : Models(P, F) => Facts(P, F)'
  PROVE  RightInv'
<1>1. \A P, F : Models(P, F)' => Models(P, F)
    BY ModelsSame
<1>2. \A P, F : Models(P, F)' => Facts(P, F)'
    BY <1>1
<1> QED BY <1>2 DEF RightInv

\* The first saturation starts from the clauses given.
LEMMA StartRight ==
  ASSUME SInv, RightInv, StartSearch
  PROVE  RightInv'
<1>1. /\ stage = "reading" /\ stage' = "step" /\ verdict' = verdict
      /\ UNCHANGED <<active, passive, todo, kept, working, events, given>>
    BY DEF StartSearch, searchVars, callerVars
<1>2. Held' = Held
    BY <1>1 DEF Held
<1>3. \A P, F : Models(P, F) => Facts(P, F)'
    BY <1>1, <1>2 DEF RightInv, Facts, Models
<1> QED BY <1>1, <1>3, RightStep

\* Clauses pushed that hold in every model.
LEMMA PushedRight ==
  ASSUME nextId \in Nat, NEW seq \in Seq(Clauses), UNCHANGED <<active, todo, kept, working>>,
         passive' = passive \cup Pushed(seq), NEW C, Held \subseteq C,
         \A i \in DOMAIN seq : seq[i] \in C
  PROVE  Held' \subseteq C
<1>1. \A e \in Pushed(seq) : e.lits \in C
    BY PushedType
<1> QED BY <1>1 DEF Held, LitsOf

\* Augmentation.
LEMMA AugmentRight ==
  ASSUME SInv, RightInv, Augment
  PROVE  RightInv'
<1>1. /\ stage = "step" /\ stage' = "augmented" /\ verdict' = verdict
      /\ UNCHANGED <<active, todo, kept, working, events, given>>
      /\ passive' = passive \cup Pushed(augmentation)
    BY DEF Augment, Back, callerVars
<1>2. EventsOK /\ nextId \in Nat
    BY DEF SInv, SearchTypeOK, TypeOK
<1>3. ASSUME NEW P, NEW F, Models(P, F)
      PROVE  Facts(P, F)'
    <2>1. Held \subseteq Conc(P, F) /\ verdict # "Unsatisfiable"
        BY <1>1, <1>3 DEF RightInv, Facts
    <2>2. augmentation \in Seq(Clauses) /\ \A i \in DOMAIN augmentation : augmentation[i] \in Conc(P, F)
        BY <1>2, <1>3, AugmentationParts DEF Models
    <2>3. Held' \subseteq Conc(P, F)
        BY <1>1, <1>2, <2>1, <2>2, PushedRight
    <2> QED BY <1>1, <2>1, <2>3 DEF Facts
<1> QED BY <1>1, <1>3, RightStep

\* Temporal resolution.
LEMMA ResolventsRight ==
  ASSUME SInv, LoopInv, RightInv, generateResolvents
  PROVE  RightInv'
<1>1. /\ stage = "found" /\ stage' = "resolved" /\ verdict' = verdict
      /\ UNCHANGED <<active, todo, kept, working, events, given>>
      /\ passive' = passive \cup Pushed(temporalResolvents)
    BY DEF generateResolvents
<1>2. EventsOK /\ CandidateOK /\ nextId \in Nat /\ turn \in DOMAIN events
    BY <1>1 DEF SInv, SearchTypeOK, TypeOK, Control
<1>3. ASSUME NEW P, NEW F, Models(P, F)
      PROVE  Facts(P, F)'
    <2>1. Held \subseteq Conc(P, F) /\ verdict # "Unsatisfiable"
        BY <1>1, <1>3 DEF RightInv, Facts
    <2>2. LitsOf(active) \subseteq Conc(P, F)
        BY <2>1 DEF Held
    <2>3. Obeys(P, LitsOf(active))
        BY <1>3, <2>2 DEF Obeys, Conc, Models, Continues
    <2>4. Closed(P)
        BY <1>1, <2>3 DEF LoopInv
    <2>5. temporalResolvents \in Seq(Clauses)
          /\ \A i \in DOMAIN temporalResolvents : temporalResolvents[i] \in Conc(P, F)
        BY <1>2, <1>3, <2>4, ResolventParts, ResolventsHold
    <2>6. Held' \subseteq Conc(P, F)
        BY <1>1, <1>2, <2>1, <2>5, PushedRight
    <2> QED BY <1>1, <2>1, <2>6 DEF Facts
<1> QED BY <1>1, <1>3, RightStep

\* A step of saturate.
LEMMA SaturateRight ==
  ASSUME SInv, RightInv, SaturateStep
  PROVE  RightInv'
<1>1. Step /\ UNCHANGED <<stage, events, verdict, saved>>
    BY DEF SaturateStep, proverVars, loopVars
<1>2. TypeOK /\ Shape /\ Control
    BY DEF SInv, SearchTypeOK
<1>3. given' = given /\ stage # "reading"
    BY <1>1, <1>2, StepFrame, StepRuns DEF Control
<1>4. ASSUME NEW P, NEW F, Models(P, F)
      PROVE  Facts(P, F)'
    <2>1. Facts(P, F) /\ Continues(P, F)
        BY <1>4 DEF RightInv, Models
    <2>2. Held \subseteq Conc(P, F) => Held' \subseteq Conc(P, F)
        BY <1>1, <1>2, <2>1, StepConc
    <2> QED BY <1>1, <2>1, <2>2 DEF Facts
<1> QED BY <1>1, <1>3, <1>4, RightStep

\* A loop search leaves the prover's clauses as they were.
LEMMA LoopRight ==
  ASSUME SInv, RightInv, LoopSearch \/ LoopIteration \/ NextCandidate \/ LoopReturns
  PROVE  RightInv'
<1>1. events' = events /\ given' = given /\ verdict' = verdict
      /\ stage' \in {"candidate", "iterated", "found", "eventualities"}
    BY DEF LoopSearch, LoopIteration, NextCandidate, LoopReturns, callerVars, vars
<1>2. ASSUME NEW P, NEW F, Models(P, F)
      PROVE  Facts(P, F)'
    <2>1. Facts(P, F)
        BY <1>2 DEF RightInv
    <2>2. CASE LoopSearch
        <3>1. stage = "eventualities" /\ stage' = "candidate" /\ saved' = active
            BY <2>2 DEF LoopSearch
        <3> QED BY <1>1, <2>1, <3>1 DEF Facts, Held
    <2>3. CASE LoopIteration \/ NextCandidate
        <3>1. stage \in {"candidate", "iterated"} /\ stage' \in {"candidate", "iterated"} /\ saved' = saved
            BY <2>3 DEF LoopIteration, NextCandidate, Back, loopVars
        <3> QED BY <1>1, <2>1, <3>1 DEF Facts
    <2>4. CASE LoopReturns
        <3>1. /\ stage = "iterated" /\ stage' \in {"found", "eventualities"} /\ pc = "idle"
              /\ active' = saved /\ passive' = {} /\ UNCHANGED <<todo, kept, working>>
            BY <2>4 DEF LoopReturns, Back
        <3>2. todo = {} /\ kept = {} /\ working = {}
            BY <3>1 DEF SInv, Shape
        <3>3. Held' = LitsOf(saved)
            BY <3>1, <3>2 DEF Held, LitsOf
        <3> QED BY <1>1, <2>1, <3>1, <3>3 DEF Facts
    <2> QED BY <2>2, <2>3, <2>4
<1> QED BY <1>1, <1>2, RightStep

\* The rest of the rounds, and the answer.
LEMMA RoundRight ==
  ASSUME SInv, LoopInv, RightInv, StartRound \/ NothingNew \/ Contradiction \/ NextEventuality
  PROVE  RightInv'
<1>1. /\ UNCHANGED <<active, passive, todo, kept, working, events, given>>
      /\ stage \notin {"reading", "candidate", "iterated"} /\ stage' \in {"eventualities", "done"}
    BY DEF StartRound, NothingNew, Contradiction, NextEventuality, Return, Back, vars,
           searchVars, callerVars
<1>2. Held' = Held
    BY <1>1 DEF Held
<1>3. ASSUME NEW P, NEW F, Models(P, F)
      PROVE  Facts(P, F)'
    <2>1. Held \subseteq Conc(P, F) /\ verdict # "Unsatisfiable" /\ Continues(P, F)
        BY <1>1, <1>3 DEF RightInv, Facts, Models
    <2>2. ~ success
        <3>1. success => {} \in Held
            BY DEF LoopInv, Refuted, Held
        <3> QED BY <2>1, <3>1, NotEmpty
    <2>3. verdict' # "Unsatisfiable"
        BY <2>1, <2>2 DEF StartRound, NothingNew, Contradiction, NextEventuality, Return
    <2> QED BY <1>1, <1>2, <2>1, <2>3 DEF Facts
<1> QED BY <1>1, <1>3, RightStep

\* Every step keeps it.
LEMMA RightNext ==
  ASSUME SInv, LoopInv, RightInv, [SearchNext]_allVars
  PROVE  RightInv'
<1>1. CASE UNCHANGED allVars
    <2>1. UNCHANGED <<active, passive, todo, kept, working, events, given, stage, saved, verdict>>
        BY <1>1 DEF allVars, vars, searchVars, callerVars, proverVars, loopVars
    <2>2. Held' = Held
        BY <2>1 DEF Held
    <2>3. \A P, F : Models(P, F)' => Models(P, F)
        BY <2>1, ModelsSame
    <2>4. \A P, F : Facts(P, F) => Facts(P, F)'
        BY <2>1, <2>2 DEF Facts
    <2> QED BY <2>1, <2>2, <2>3, <2>4 DEF RightInv
<1>2. CASE ProverStep
    BY <1>2, StartRight, AugmentRight, RoundRight, LoopRight, ResolventsRight, SaturateRight
       DEF ProverStep
<1> QED BY <1>1, <1>2, ReadingRight DEF SearchNext, Finished

-----------------------------------------------------------------------------
(***************************************************************************)
(* A problem that has a model has one in the sense of Models: the moments  *)
(* of the model of the problem, where the symbol made for an eventuality   *)
(* literal is true as long as a clause for it is owed.                     *)
(***************************************************************************)
withNames(n) == n[1] \cup {makeLiteral(events[i].eventuality).prop : i \in n[2]}

\* A moment with the names: the symbols of the problem are as they were, and
\* the name of an eventuality literal is true where it is owed.
LEMMA NamedMoment ==
  ASSUME EventsOK, NEW n \in Moments(Symbols, events)
  PROVE  /\ n[1] \subseteq Symbols /\ n[2] \subseteq DOMAIN events
         /\ withNames(n) \in Valuations
         /\ \A s \in Symbols : s \in withNames(n) <=> s \in n[1]
         /\ \A l \in EventualityLiterals :
              makeLiteral(l).prop \in withNames(n) <=> \E i \in n[2] : events[i].eventuality = l
<1>1. n[1] \subseteq Symbols /\ n[2] \subseteq DOMAIN events
    BY DEF Moments
<1>2. \A i \in n[2] : events[i].eventuality \in EventualityLiterals
    BY <1>1 DEF EventualityLiterals
<1>3. \A l \in EventualityLiterals : makeLiteral(l).prop \in Prop \ Symbols
    BY NewSymbols
<1>4. withNames(n) \in Valuations
    BY <1>1, <1>2, <1>3, SearchAssumption DEF withNames, Valuations
<1>5. \A s \in Symbols : s \in withNames(n) <=> s \in n[1]
    BY <1>2, <1>3 DEF withNames
<1>6. ASSUME NEW l \in EventualityLiterals
      PROVE  makeLiteral(l).prop \in withNames(n) <=> \E i \in n[2] : events[i].eventuality = l
    <2>1. ASSUME makeLiteral(l).prop \in withNames(n)
          PROVE  \E i \in n[2] : events[i].eventuality = l
        <3>1. makeLiteral(l).prop \notin n[1]
            BY <1>1, <1>3
        <3>2. PICK i \in n[2] : makeLiteral(l).prop = makeLiteral(events[i].eventuality).prop
            BY <2>1, <3>1 DEF withNames
        <3>3. events[i].eventuality = l
            BY <1>2, <3>2, NewSymbols
        <3> QED BY <3>3
    <2>2. ASSUME NEW i \in n[2], events[i].eventuality = l
          PROVE  makeLiteral(l).prop \in withNames(n)
        BY <2>2 DEF withNames
    <2> QED BY <2>1, <2>2
<1> QED BY <1>1, <1>4, <1>5, <1>6

\* So the literals of the problem are true there as they were.
LEMMA NamedTruth ==
  ASSUME EventsOK, NEW n \in Moments(Symbols, events), NEW m \in Moments(Symbols, events),
         NEW l, l.prop \in Symbols
  PROVE  /\ TrueAt(l, withNames(n)) = TrueAt(l, n[1])
         /\ HoldsLit(l, withNames(n), withNames(m)) = HoldsLit(l, n[1], m[1])
<1>1. /\ l.prop \in withNames(n) <=> l.prop \in n[1]
      /\ l.prop \in withNames(m) <=> l.prop \in m[1]
    BY NamedMoment
<1>2. (l.prop \in withNames(n)) = (l.prop \in n[1]) /\ (l.prop \in withNames(m)) = (l.prop \in m[1])
    BY <1>1
<1> QED BY <1>2 DEF TrueAt, HoldsLit

\* And so are its clauses.
LEMMA NamedClause ==
  ASSUME EventsOK, NEW n \in Moments(Symbols, events), NEW m \in Moments(Symbols, events),
         NEW c, \A l \in c : l.prop \in Symbols
  PROVE  HoldsAt(c, withNames(n), withNames(m)) <=> HoldsAt(c, n[1], m[1])
BY NamedTruth DEF HoldsAt

\* The pairs of consecutive moments, and the first moments, of a part W of the
\* problem's moments.
passed(W) == {<<withNames(e[1]), withNames(e[2])>> :
                e \in Moves(Symbols, given, events) \cap (W \X W)}
firstOf(W) == {withNames(n) : n \in {m \in W : Begins(given, events, m)}}

\* A pair passed comes from a step of the problem.
LEMMA PassedFrom ==
  ASSUME NEW W, NEW p \in passed(W)
  PROVE  \E n, m \in W : /\ <<n, m>> \in Moves(Symbols, given, events)
                         /\ p[1] = withNames(n) /\ p[2] = withNames(m)
<1>1. PICK e \in Moves(Symbols, given, events) \cap (W \X W) :
        p = <<withNames(e[1]), withNames(e[2])>>
    BY DEF passed
<1>2. e[1] \in W /\ e[2] \in W /\ e = <<e[1], e[2]>>
    BY <1>1
<1> QED BY <1>1, <1>2

\* And the other way round.
LEMMA PassedBy ==
  ASSUME NEW W, NEW n \in W, NEW m \in W, <<n, m>> \in Moves(Symbols, given, events)
  PROVE  <<withNames(n), withNames(m)>> \in passed(W)
<1> DEFINE e == <<n, m>>
<1>1. e \in Moves(Symbols, given, events) \cap (W \X W) /\ e[1] = n /\ e[2] = m
    OBVIOUS
<1> HIDE DEF e
<1> QED BY <1>1 DEF passed

\* What a step of the problem is.
LEMMA MoveParts ==
  ASSUME NEW n, NEW m, <<n, m>> \in Moves(Symbols, given, events)
  PROVE  /\ n \in Moments(Symbols, events) /\ m \in Moments(Symbols, events)
         /\ \A c \in given : IsInitial(c) \/ HoldsAt(c, n[1], m[1])
         /\ m[2] = Owed(events, m[1], n[2])
<1> DEFINE e == <<n, m>>
<1>1. e \in Moves(Symbols, given, events) /\ e[1] = n /\ e[2] = m
    OBVIOUS
<1> HIDE DEF e
<1>2. /\ e[1] \in Moments(Symbols, events) /\ e[2] \in Moments(Symbols, events)
      /\ \A c \in given : IsInitial(c) \/ HoldsAt(c, e[1][1], e[2][1])
      /\ e[2][2] = Owed(events, e[2][1], e[1][2])
    BY <1>1 DEF Moves
<1> QED BY <1>1, <1>2

\* The name of an eventuality literal is true where it is owed and passed on
\* until the literal holds, and every clause that is not met is owed.
LEMMA NamedDebts ==
  ASSUME EventsOK, NEW n \in Moments(Symbols, events), NEW m,
         <<n, m>> \in Moves(Symbols, given, events)
  PROVE  /\ \A l \in EventualityLiterals :
              makeLiteral(l).prop \in withNames(n) =>
                TrueAt(l, withNames(m)) \/ makeLiteral(l).prop \in withNames(m)
         /\ \A i \in DOMAIN events :
              \/ \E l \in events[i].present : TrueAt(l, withNames(n))
              \/ TrueAt(events[i].eventuality, withNames(n))
              \/ makeLiteral(events[i].eventuality).prop \in withNames(n)
<1>1. /\ m \in Moments(Symbols, events) /\ m[2] = Owed(events, m[1], n[2])
      /\ Owed(events, n[1], {}) \subseteq n[2]
    BY MoveParts DEF Moments
<1>2. ASSUME NEW i \in DOMAIN events
      PROVE  /\ events[i].eventuality \in EventualityLiterals
             /\ \A l \in events[i].present \cup {events[i].eventuality} :
                  l.prop \in Symbols /\ l.attr = "universal"
             /\ \A v : HoldsLit(events[i].eventuality, v, v) = TrueAt(events[i].eventuality, v)
             /\ \A v : HoldsAt(events[i].present, v, v) =
                         \E l \in events[i].present : TrueAt(l, v)
    <2>1. events[i] \in Eventualities
        BY DEF EventsOK
    <2>2. \A l \in events[i].present \cup {events[i].eventuality} :
            l.prop \in Symbols /\ l.attr = "universal"
        BY <2>1, EventualityType
    <2>3. \A l \in events[i].present \cup {events[i].eventuality} : \A v : HoldsLit(l, v, v) = TrueAt(l, v)
        BY <2>2 DEF HoldsLit, TrueAt
    <2> QED BY <2>2, <2>3 DEF EventualityLiterals, HoldsAt
<1>3. ASSUME NEW l \in EventualityLiterals, makeLiteral(l).prop \in withNames(n),
             ~ TrueAt(l, withNames(m))
      PROVE  makeLiteral(l).prop \in withNames(m)
    <2>1. PICK i \in n[2] : events[i].eventuality = l
        BY <1>3, NamedMoment
    <2>2. i \in DOMAIN events
        BY NamedMoment
    <2>3. ~ TrueAt(events[i].eventuality, m[1])
        BY <1>1, <1>2, <1>3, <2>1, <2>2, NamedTruth
    <2>4. i \in Owed(events, m[1], n[2])
        BY <1>2, <2>1, <2>2, <2>3 DEF Owed
    <2> QED BY <1>1, <2>1, <2>4, NamedMoment
<1>4. ASSUME NEW i \in DOMAIN events,
             ~ \E l \in events[i].present : TrueAt(l, withNames(n)),
             ~ TrueAt(events[i].eventuality, withNames(n))
      PROVE  makeLiteral(events[i].eventuality).prop \in withNames(n)
    <2>1. ~ TrueAt(events[i].eventuality, n[1])
        BY <1>2, <1>4, NamedTruth
    <2>2. ~ \E l \in events[i].present : TrueAt(l, n[1])
        BY <1>2, <1>4, NamedTruth
    <2>3. i \in Owed(events, n[1], {})
        BY <1>2, <2>1, <2>2 DEF Owed
    <2> QED BY <1>1, <1>2, <2>3, NamedMoment
<1> QED BY <1>3, <1>4

\* The clauses given hold along the moments passed, where nothing is owed for
\* ever.
LEMMA PassedModel ==
  ASSUME SInv, given \subseteq Inputs, NEW W, W \subseteq Moments(Symbols, events),
         \E n \in W : Begins(given, events, n),
         Runs(Moves(Symbols, given, events), events, W)
  PROVE  Models(passed(W), firstOf(W))
<1> DEFINE T == Moves(Symbols, given, events)
           P == passed(W)
           F == firstOf(W)
<1>1. EventsOK /\ given \subseteq Clauses
    BY SaturationAssumption DEF SInv
<1>2. \A c \in given : \A l \in c : l.prop \in Symbols
    BY SearchAssumption
<1>3. \A n \in W : \E m \in W : <<n, m>> \in T
    BY DEF Runs
<1>4. \A p \in P : \E n, m \in W : <<n, m>> \in T /\ p[1] = withNames(n) /\ p[2] = withNames(m)
    BY PassedFrom
<1>5. \A n, m \in W : <<n, m>> \in T => <<withNames(n), withNames(m)>> \in P
    BY PassedBy
<1>6. \A v \in F : \E n \in W : v = withNames(n) /\ Begins(given, events, n)
    BY DEF firstOf
<1>7. \A n \in W : Begins(given, events, n) => withNames(n) \in F
    BY DEF firstOf
<1>8. P \subseteq Valuations \X Valuations
    <2> SUFFICES ASSUME NEW e \in T \cap (W \X W)
                 PROVE  <<withNames(e[1]), withNames(e[2])>> \in Valuations \X Valuations
        BY DEF passed
    <2>1. e[1] \in Moments(Symbols, events) /\ e[2] \in Moments(Symbols, events)
        OBVIOUS
    <2> QED BY <1>1, <2>1, NamedMoment
<1> HIDE DEF T, P, F
<1>9. Continues(P, F)
    <2>1. ASSUME NEW p \in P
          PROVE  \E w : <<p[2], w>> \in P
        <3>1. PICK m \in W : p[2] = withNames(m)
            BY <1>4
        <3>2. PICK k \in W : <<m, k>> \in T
            BY <1>3
        <3> QED BY <1>5, <3>1, <3>2
    <2>2. ASSUME NEW v \in F
          PROVE  \E w : <<v, w>> \in P
        <3>1. PICK n \in W : v = withNames(n)
            BY <1>6
        <3>2. PICK k \in W : <<n, k>> \in T
            BY <1>3
        <3> QED BY <1>5, <3>1, <3>2
    <2>3. F \subseteq Valuations
        BY <1>1, <1>6, NamedMoment
    <2>4. F # {}
        BY <1>7
    <2> QED BY <1>8, <2>1, <2>2, <2>3, <2>4 DEF Continues, Continuing
<1>10. given \subseteq Conc(P, F)
    <2> SUFFICES ASSUME NEW c \in given PROVE c \in Conc(P, F)
        OBVIOUS
    <2>1. CASE IsInitial(c)
        <3>1. ASSUME NEW v \in F PROVE HoldsAt(c, v, v)
            <4>1. PICK n \in W : v = withNames(n) /\ Begins(given, events, n)
                BY <1>6
            <4>2. HoldsAt(c, n[1], n[1])
                BY <2>1, <4>1 DEF Begins
            <4> QED BY <1>1, <1>2, <4>1, <4>2, NamedClause
        <3> QED BY <1>1, <2>1, <3>1 DEF Conc
    <2>2. CASE ~ IsInitial(c)
        <3>1. ASSUME NEW p \in P PROVE HoldsAt(c, p[1], p[2])
            <4>1. PICK n \in W, m \in W : /\ <<n, m>> \in T
                                          /\ p[1] = withNames(n) /\ p[2] = withNames(m)
                BY <1>4
            <4>2. HoldsAt(c, n[1], m[1])
                BY <2>2, <4>1, MoveParts DEF T
            <4> QED BY <1>1, <1>2, <4>1, <4>2, NamedClause
        <3> QED BY <1>1, <2>2, <3>1 DEF Conc
    <2> QED BY <2>1, <2>2
<1>11. ASSUME NEW l \in EventualityLiterals
       PROVE  augmentedStep(l) \in Conc(P, F)
    <2> DEFINE w == makeLiteral(l)
    <2>1. l \in Literals /\ w \in Literals /\ negate(w) \in Literals
        BY <1>1, FewEventualities, NewSymbols DEF negate, Literals
    <2>2. {negate(w)} \in Clauses /\ {l, w} \in Clauses
        BY <2>1 DEF Clauses
    <2>3. ASSUME NEW p \in P
          PROVE  (\E k \in {negate(w)} : TrueAt(k, p[1])) \/ (\E k \in {l, w} : TrueAt(k, p[2]))
        <3>1. PICK n \in W, m \in W : /\ <<n, m>> \in T
                                      /\ p[1] = withNames(n) /\ p[2] = withNames(m)
            BY <1>4
        <3>2. w.prop \in p[1] => TrueAt(l, p[2]) \/ w.prop \in p[2]
            BY <1>1, <3>1, NamedDebts DEF T
        <3> QED BY <1>1, <3>2, NewLiteralTrue
    <2> HIDE DEF w
    <2>4. make_sclause({negate(w)}, {l, w}) \in Conc(P, F)
        BY <2>2, <2>3, StepHolds
    <2> QED BY <2>4 DEF augmentedStep, w
<1>12. ASSUME NEW i \in DOMAIN events
       PROVE  augmentedNow(i) \in Conc(P, F)
    <2> DEFINE l == events[i].eventuality
               w == makeLiteral(l)
               c == events[i].present \cup {l, w}
    <2>1. events[i] \in Eventualities /\ l \in EventualityLiterals
        BY <1>1 DEF EventsOK, EventualityLiterals
    <2>2. c \in Clauses
        BY <1>1, <2>1, EventualityType, NewSymbols DEF Clauses
    <2>3. ASSUME NEW p \in P
          PROVE  \E k \in c : TrueAt(k, p[1])
        <3>1. PICK n \in W, m \in W : /\ <<n, m>> \in T
                                      /\ p[1] = withNames(n) /\ p[2] = withNames(m)
            BY <1>4
        <3>2. \/ \E k \in events[i].present : TrueAt(k, p[1])
              \/ TrueAt(l, p[1]) \/ w.prop \in p[1]
            BY <1>1, <3>1, NamedDebts DEF T
        <3>3. TrueAt(w, p[1]) <=> w.prop \in p[1]
            BY <1>1, <2>1, NewLiteralTrue
        <3> QED BY <3>2, <3>3
    <2> HIDE DEF c
    <2>4. make_uclause(c) \in Conc(P, F)
        BY <2>2, <2>3, UniversalHolds
    <2> QED BY <2>4 DEF augmentedNow, c
<1>13. ASSUME NEW l \in EventualityLiterals
       PROVE  NoDebt(P, l, makeLiteral(l).prop)
    <2> DEFINE w == makeLiteral(l).prop
    <2> SUFFICES ASSUME NEW Y,
                        \A p \in P : p[1] \in Y => p[2] \in Y /\ ~ HoldsLit(l, p[2], p[2]),
                        NEW p \in P, p[1] \in Y, w \in p[1]
                 PROVE  FALSE
        BY DEF NoDebt
    <2>1. PICK n \in W, m \in W : <<n, m>> \in T /\ p[1] = withNames(n)
        BY <1>4
    <2>2. PICK i \in n[2] : events[i].eventuality = l
        BY <1>1, <2>1, NamedMoment
    <2>3. i \in DOMAIN events
        BY <1>1, NamedMoment
    <2> DEFINE X == {k \in W : i \in k[2] /\ withNames(k) \in Y}
    <2>4. X \in SUBSET {k \in W : i \in k[2]} /\ n \in X
        BY <2>1, <2>2
    <2>5. PICK j \in X, k \in W \ X : <<j, k>> \in T
        BY <2>3, <2>4 DEF Runs, T
    <2>6. <<withNames(j), withNames(k)>> \in P
        BY <1>5, <2>5
    <2> DEFINE q == <<withNames(j), withNames(k)>>
    <2>7. q \in P /\ q[1] = withNames(j) /\ q[2] = withNames(k) /\ withNames(j) \in Y
        BY <2>5, <2>6
    <2> HIDE DEF q
    <2>8. withNames(k) \in Y /\ ~ HoldsLit(l, withNames(k), withNames(k))
        BY <2>7
    <2>9. j \in Moments(Symbols, events) /\ k \in Moments(Symbols, events)
          /\ k[2] = Owed(events, k[1], j[2])
        BY <2>5, MoveParts DEF T
    <2>10. l.prop \in Symbols
        BY <1>1, <2>2, <2>3, EventualityType DEF EventsOK
    <2>11. ~ HoldsLit(events[i].eventuality, k[1], k[1])
        BY <1>1, <2>2, <2>8, <2>9, <2>10, NamedTruth
    <2>12. i \in k[2]
        BY <2>3, <2>5, <2>9, <2>11 DEF Owed
    <2> QED BY <2>5, <2>8, <2>12
<1> QED BY <1>9, <1>10, <1>11, <1>12, <1>13 DEF Models, P, F

\* A problem that has a model has one in the sense of Models.
LEMMA ProblemModel ==
  ASSUME SInv, given \subseteq Inputs, Problem
  PROVE  \E P, F : Models(P, F)
<1>1. PICK W \in SUBSET Moments(Symbols, events) :
        /\ \E n \in W : Begins(given, events, n)
        /\ Runs(Moves(Symbols, given, events), events, W)
    BY DEF Problem, SatisfiableProblem
<1> QED BY <1>1, PassedModel

\* The prover answers Unsatisfiable only of a problem that has no model: every
\* clause it adds, by augmentation, by inference or by temporal resolution upon
\* a loop it found, holds in every model, so the empty clause never appears in
\* a problem that has one.
THEOREM UnsatisfiableRight == SearchSpec => []UnsatisfiableIsRight
<1>1. SearchInit => SInv /\ LoopInv /\ RightInv
    <2> SUFFICES ASSUME SearchInit PROVE SInv /\ LoopInv /\ RightInv
        OBVIOUS
    <2>1. SInv /\ LoopInv
        BY InitSInv DEF SearchInit, Init, LoopInv, Refuted
    <2>2. given = {} /\ Held = {} /\ stage = "reading" /\ verdict = "none"
        BY DEF SearchInit, Init, Held, LitsOf
    <2> QED BY <2>1, <2>2 DEF RightInv, Facts
<1>2. SInv /\ LoopInv /\ RightInv /\ [SearchNext]_allVars => (SInv /\ LoopInv /\ RightInv)'
    BY SInvNext, LoopInvNext, RightNext
<1>3. SInv /\ RightInv => UnsatisfiableIsRight
    BY ProblemModel DEF RightInv, Facts, UnsatisfiableIsRight
<1> QED BY <1>1, <1>2, <1>3, PTL DEF SearchSpec

-----------------------------------------------------------------------------
(***************************************************************************)
(* A model in the sense of Models is one of the problem.  A moment of the  *)
(* problem is seen where the symbols of the problem are as they are there  *)
(* and whatever is owed has its name true.                                 *)
(***************************************************************************)
seen(v) == v \cap Symbols

nameOf(i) == makeLiteral(events[i].eventuality).prop

\* What can be owed at v.
MayOwe(v, O) ==
  /\ Owed(events, seen(v), {}) \subseteq O
  /\ O \subseteq Owed(events, seen(v), DOMAIN events)
  /\ \A i \in O : nameOf(i) \in v

seenIn(P) ==
  {n \in Moments(Symbols, events) : \E p \in P : n[1] = seen(p[1]) /\ MayOwe(p[1], n[2])}

\* The literals of the problem are true where they are seen to be.
LEMMA SeenTruth ==
  ASSUME NEW v, NEW w, NEW l, l.prop \in Symbols
  PROVE  /\ TrueAt(l, seen(v)) = TrueAt(l, v)
         /\ HoldsLit(l, seen(v), seen(w)) = HoldsLit(l, v, w)
<1>1. /\ l.prop \in seen(v) <=> l.prop \in v
      /\ l.prop \in seen(w) <=> l.prop \in w
    BY DEF seen
<1>2. (l.prop \in seen(v)) = (l.prop \in v) /\ (l.prop \in seen(w)) = (l.prop \in w)
    BY <1>1
<1> QED BY <1>2 DEF TrueAt, HoldsLit

\* And so are its clauses.
LEMMA SeenClause ==
  ASSUME NEW v, NEW w, NEW c, \A l \in c : l.prop \in Symbols
  PROVE  HoldsAt(c, seen(v), seen(w)) <=> HoldsAt(c, v, w)
BY SeenTruth DEF HoldsAt

\* What is owed at a moment seen: the eventuality literal is false, and the
\* clause is, or it was owed before.
LEMMA SeenOwed ==
  ASSUME EventsOK, NEW v, NEW O, NEW i
  PROVE  i \in Owed(events, seen(v), O) <=>
           /\ i \in DOMAIN events
           /\ ~ TrueAt(events[i].eventuality, v)
           /\ i \in O \/ ~ \E l \in events[i].present : TrueAt(l, v)
<1> SUFFICES ASSUME i \in DOMAIN events
             PROVE  i \in Owed(events, seen(v), O) <=>
                      /\ ~ TrueAt(events[i].eventuality, v)
                      /\ i \in O \/ ~ \E l \in events[i].present : TrueAt(l, v)
    BY DEF Owed
<1>1. events[i] \in Eventualities
    BY DEF EventsOK
<1>2. \A l \in events[i].present \cup {events[i].eventuality} :
        l.prop \in Symbols /\ l.attr = "universal"
    BY <1>1, EventualityType
<1>3. \A l \in events[i].present \cup {events[i].eventuality} :
        HoldsLit(l, seen(v), seen(v)) = TrueAt(l, v)
    <2> SUFFICES ASSUME NEW l \in events[i].present \cup {events[i].eventuality}
                 PROVE  HoldsLit(l, seen(v), seen(v)) = TrueAt(l, v)
        OBVIOUS
    <2>1. HoldsLit(l, seen(v), seen(v)) = TrueAt(l, seen(v))
        BY HoldsAtMoment DEF moment
    <2> QED BY <1>2, <2>1, SeenTruth
<1>4. HoldsLit(events[i].eventuality, seen(v), seen(v)) <=> TrueAt(events[i].eventuality, v)
    BY <1>3
<1>5. HoldsAt(events[i].present, seen(v), seen(v)) <=> \E l \in events[i].present : TrueAt(l, v)
    BY <1>3 DEF HoldsAt
<1> QED BY <1>4, <1>5 DEF Owed

\* Along a pair of a model what is owed has its name true: a clause that is
\* not met, and one that was owed and is not paid.
LEMMA NamesTrue ==
  ASSUME EventsOK, NEW P, NEW F, Models(P, F), NEW p \in P, NEW i \in DOMAIN events
  PROVE  /\ i \in Owed(events, seen(p[1]), {}) => nameOf(i) \in p[1]
         /\ nameOf(i) \in p[1] /\ ~ TrueAt(events[i].eventuality, p[2]) => nameOf(i) \in p[2]
<1> DEFINE l == events[i].eventuality
           x == makeLiteral(l)
<1>1. l \in EventualityLiterals /\ x \in Literals /\ l \in Literals /\ events[i].present \in Clauses
    BY NewSymbols, EventualityType DEF EventualityLiterals, EventsOK
<1>2. \A y : (TrueAt(x, y) <=> nameOf(i) \in y) /\ (TrueAt(negate(x), y) <=> nameOf(i) \notin y)
    BY <1>1, NewLiteralTrue DEF nameOf
<1>3. augmentedNow(i) \in Conc(P, F) /\ augmentedStep(l) \in Conc(P, F)
    BY <1>1 DEF Models
<1> HIDE DEF l, x
<1>4. \E k \in events[i].present \cup {l, x} : TrueAt(k, p[1])
    <2>1. events[i].present \cup {l, x} \in Clauses
        BY <1>1 DEF Clauses
    <2>2. make_uclause(events[i].present \cup {l, x}) \in Conc(P, F)
        BY <1>3 DEF augmentedNow, l, x
    <2> QED BY <2>1, <2>2, UniversalHolds
<1>5. (\E k \in {negate(x)} : TrueAt(k, p[1])) \/ (\E k \in {l, x} : TrueAt(k, p[2]))
    <2>1. {negate(x)} \in Clauses /\ {l, x} \in Clauses
        BY <1>1 DEF Clauses, negate, Literals
    <2>2. make_sclause({negate(x)}, {l, x}) \in Conc(P, F)
        BY <1>3 DEF augmentedStep, x
    <2> QED BY <2>1, <2>2, StepHolds
<1>6. i \in Owed(events, seen(p[1]), {}) => nameOf(i) \in p[1]
    BY <1>2, <1>4, SeenOwed DEF l
<1>7. nameOf(i) \in p[1] /\ ~ TrueAt(events[i].eventuality, p[2]) => nameOf(i) \in p[2]
    BY <1>2, <1>5 DEF l
<1> QED BY <1>6, <1>7

\* A pair of a model, with something owed at its first moment, is a step of
\* the problem.
LEMMA SeenMove ==
  ASSUME EventsOK, given \subseteq Inputs, NEW P, NEW F, Models(P, F), NEW p \in P,
         NEW O, MayOwe(p[1], O)
  PROVE  LET U == Owed(events, seen(p[2]), O)
             n == <<seen(p[1]), O>>
             m == <<seen(p[2]), U>>
         IN  /\ MayOwe(p[2], U) /\ n \in seenIn(P) /\ m \in seenIn(P)
             /\ <<n, m>> \in Moves(Symbols, given, events)
<1> DEFINE U == Owed(events, seen(p[2]), O)
           n == <<seen(p[1]), O>>
           m == <<seen(p[2]), U>>
<1>1. PICK q \in P : q[1] = p[2]
    <2>1. PICK w : <<p[2], w>> \in P
        BY DEF Models, Continues, Continuing
    <2> QED BY <2>1
<1>2. O \subseteq DOMAIN events /\ U \subseteq DOMAIN events
    BY DEF MayOwe, Owed
<1>3. MayOwe(p[2], U)
    <2>1. ASSUME NEW i \in Owed(events, seen(p[2]), {}) PROVE i \in U
        BY <2>1, SeenOwed
    <2>2. ASSUME NEW i \in U PROVE i \in Owed(events, seen(p[2]), DOMAIN events)
        BY <2>2, SeenOwed
    <2>3. ASSUME NEW i \in U PROVE nameOf(i) \in p[2]
        <3>1. /\ i \in DOMAIN events /\ ~ TrueAt(events[i].eventuality, p[2])
              /\ i \in O \/ ~ \E l \in events[i].present : TrueAt(l, p[2])
            BY <2>3, SeenOwed
        <3>2. CASE i \in O
            <4>1. nameOf(i) \in p[1]
                BY <3>2 DEF MayOwe
            <4> QED BY <3>1, <4>1, NamesTrue
        <3>3. CASE ~ \E l \in events[i].present : TrueAt(l, p[2])
            <4>1. i \in Owed(events, seen(q[1]), {})
                BY <1>1, <3>1, <3>3, SeenOwed
            <4> QED BY <1>1, <3>1, <4>1, NamesTrue
        <3> QED BY <3>1, <3>2, <3>3
    <2> QED BY <2>1, <2>2, <2>3 DEF MayOwe
<1>4. n \in Moments(Symbols, events) /\ m \in Moments(Symbols, events)
    <2>1. seen(p[1]) \in SUBSET Symbols /\ seen(p[2]) \in SUBSET Symbols
        BY DEF seen
    <2>2. n \in (SUBSET Symbols) \X SUBSET DOMAIN events /\ m \in (SUBSET Symbols) \X SUBSET DOMAIN events
          /\ n[1] = seen(p[1]) /\ n[2] = O /\ m[1] = seen(p[2]) /\ m[2] = U
        BY <1>2, <2>1
    <2> HIDE DEF n, m, U
    <2> QED BY <1>3, <2>2 DEF Moments, MayOwe
<1>5. n[1] = seen(p[1]) /\ n[2] = O /\ m[1] = seen(p[2]) /\ m[2] = U
    OBVIOUS
<1> HIDE DEF n, m, U
<1>6. n \in seenIn(P) /\ m \in seenIn(P)
    BY <1>1, <1>3, <1>4, <1>5 DEF seenIn
<1>7. ASSUME NEW c \in given, ~ IsInitial(c)
      PROVE  HoldsAt(c, n[1], m[1])
    <2>1. HoldsAt(c, p[1], p[2])
        BY <1>7 DEF Models, Conc
    <2>2. \A l \in c : l.prop \in Symbols
        BY SearchAssumption
    <2> QED BY <1>5, <2>1, <2>2, SeenClause
<1> DEFINE e == <<n, m>>
<1>8. e \in Moments(Symbols, events) \X Moments(Symbols, events) /\ e[1] = n /\ e[2] = m
    BY <1>4
<1> HIDE DEF e
<1>9. e \in Moves(Symbols, given, events)
    <2>1. e[2][2] = Owed(events, e[2][1], e[1][2])
        BY <1>5, <1>8 DEF U
    <2>2. \A c \in given : IsInitial(c) \/ HoldsAt(c, e[1][1], e[2][1])
        BY <1>7, <1>8
    <2> QED BY <1>8, <2>1, <2>2 DEF Moves
<1> QED BY <1>3, <1>6, <1>9 DEF e, n, m, U

\* A first moment of a model begins a run of the problem.
LEMMA SeenBegins ==
  ASSUME EventsOK, given \subseteq Inputs, NEW P, NEW F, Models(P, F)
  PROVE  \E n \in seenIn(P) : Begins(given, events, n)
<1>1. PICK v \in F : TRUE
    BY DEF Models, Continues
<1>2. PICK w : <<v, w>> \in P
    BY DEF Models, Continues
<1> DEFINE p == <<v, w>>
           O == Owed(events, seen(p[1]), {})
           n == <<seen(p[1]), O>>
<1>3. p \in P /\ p[1] = v
    BY <1>2
<1> HIDE DEF p
<1>4. MayOwe(p[1], O)
    <2>1. \A i \in O : i \in Owed(events, seen(p[1]), DOMAIN events)
        BY SeenOwed
    <2>2. \A i \in O : nameOf(i) \in p[1]
        BY <1>3, SeenOwed, NamesTrue
    <2> QED BY <2>1, <2>2 DEF MayOwe
<1>5. n \in seenIn(P)
    BY <1>3, <1>4, SeenMove
<1>6. ASSUME NEW c \in given, IsInitial(c)
      PROVE  HoldsAt(c, seen(v), seen(v))
    <2>1. HoldsAt(c, v, v)
        BY <1>6 DEF Models, Conc
    <2>2. \A l \in c : l.prop \in Symbols
        BY SearchAssumption
    <2> QED BY <2>1, <2>2, SeenClause
<1>7. n[1] = seen(v) /\ n[2] = Owed(events, n[1], {})
    BY <1>3
<1> HIDE DEF n
<1> QED BY <1>5, <1>6, <1>7 DEF Begins

\* The moments seen lie on runs that pay whatever they owe.
LEMMA SeenRuns ==
  ASSUME EventsOK, given \subseteq Inputs, NEW P, NEW F, Models(P, F)
  PROVE  Runs(Moves(Symbols, given, events), events, seenIn(P))
<1> DEFINE T == Moves(Symbols, given, events)
<1>1. ASSUME NEW n \in seenIn(P)
      PROVE  \E p \in P : n = <<seen(p[1]), n[2]>> /\ MayOwe(p[1], n[2])
    <2>1. PICK p \in P : n[1] = seen(p[1]) /\ MayOwe(p[1], n[2])
        BY DEF seenIn
    <2>2. n = <<n[1], n[2]>>
        BY DEF seenIn, Moments
    <2> QED BY <2>1, <2>2
<1>2. ASSUME NEW n \in seenIn(P)
      PROVE  \E m \in seenIn(P) : <<n, m>> \in T
    <2>1. PICK p \in P : n = <<seen(p[1]), n[2]>> /\ MayOwe(p[1], n[2])
        BY <1>1
    <2> QED BY <2>1, SeenMove
<1>3. ASSUME NEW i \in DOMAIN events, NEW X \in SUBSET {m \in seenIn(P) : i \in m[2]}, X # {},
             ~ \E m \in X, n \in seenIn(P) \ X : <<m, n>> \in T
      PROVE  FALSE
    <2> DEFINE l == events[i].eventuality
               Y == {v \in Valuations : \E n \in X : n[1] = seen(v) /\ MayOwe(v, n[2])}
    <2>1. ASSUME NEW p \in P, p[1] \in Y
          PROVE  p[2] \in Y /\ ~ HoldsLit(l, p[2], p[2])
        <3>1. PICK n \in X : n[1] = seen(p[1]) /\ MayOwe(p[1], n[2])
            BY <2>1
        <3>2. n = <<n[1], n[2]>> /\ n \in seenIn(P)
            BY DEF seenIn, Moments
        <3> DEFINE U == Owed(events, seen(p[2]), n[2])
                   m == <<seen(p[2]), U>>
        <3>3. MayOwe(p[2], U) /\ m \in seenIn(P) /\ <<n, m>> \in T
            BY <3>1, <3>2, SeenMove
        <3>4. m \in X /\ m[1] = seen(p[2]) /\ m[2] = U
            BY <1>3, <3>3
        <3>5. i \in U
            BY <3>4
        <3>6. ~ TrueAt(l, p[2])
            BY <3>5, SeenOwed
        <3>7. p[2] \in Valuations
            BY DEF Models, Continues, Continuing
        <3>8. events[i] \in Eventualities
            BY DEF EventsOK
        <3>9. HoldsLit(l, p[2], p[2]) = TrueAt(l, p[2])
            BY HoldsAtMoment DEF moment
        <3> QED BY <3>3, <3>4, <3>6, <3>7, <3>9
    <2> HIDE DEF Y
    <2>2. \A p \in P : p[1] \in Y => makeLiteral(l).prop \notin p[1]
        <3>1. l \in EventualityLiterals
            BY DEF EventualityLiterals
        <3>2. NoDebt(P, l, makeLiteral(l).prop)
            BY <3>1 DEF Models
        <3> QED BY <2>1, <3>2 DEF NoDebt
    <2>3. PICK n \in X : TRUE
        BY <1>3
    <2>4. n \in seenIn(P) /\ i \in n[2]
        OBVIOUS
    <2>5. PICK p \in P : n = <<seen(p[1]), n[2]>> /\ MayOwe(p[1], n[2])
        BY <1>1, <2>4
    <2>6. nameOf(i) \in p[1]
        BY <2>4, <2>5 DEF MayOwe
    <2>7. p[1] \in Valuations /\ n[1] = seen(p[1])
        BY <2>5 DEF Models, Continues, Continuing
    <2>8. p[1] \in Y
        BY <2>5, <2>7 DEF Y
    <2> QED BY <2>2, <2>6, <2>8 DEF nameOf
<1> QED BY <1>2, <1>3 DEF Runs

\* A problem that has a model in the sense of Models has one.
LEMMA ModelProblem ==
  ASSUME EventsOK, given \subseteq Inputs, NEW P, NEW F, Models(P, F)
  PROVE  Problem
<1>1. seenIn(P) \in SUBSET Moments(Symbols, events)
    BY DEF seenIn
<1>2. \E n \in seenIn(P) : Begins(given, events, n)
    BY SeenBegins
<1>3. Runs(Moves(Symbols, given, events), events, seenIn(P))
    BY SeenRuns
<1> HIDE DEF seenIn
<1> QED BY <1>1, <1>2, <1>3 DEF Problem, SatisfiableProblem

-----------------------------------------------------------------------------
(***************************************************************************)
(* The runs of a set of clauses, and what it says of them.                 *)
(***************************************************************************)
runsOf(S) ==
  {e \in Transitions(S) : e[1] \in Alive(Transitions(S)) /\ e[2] \in Alive(Transitions(S))}

\* A clause is in H, or in what covers it, unless it is a tautology.
Kept(m, H, c) == isCorrect(m, c) => CoveredBy(m, H, c)

\* Y cannot be left, and l is never true after a moment of Y.
Never(P, l, Y) == \A p \in P : p[1] \in Y => p[2] \in Y /\ ~ HoldsLit(l, p[2], p[2])

\* The candidate L leaves no such moment out.
HasAll(P, l, L) ==
  \A Y : Never(P, l, Y) => \A p \in P : p[1] \in Y => L = <<>> \/ FalsifiedAt(L, p[1])

\* One can always go on along the runs.
LEMMA RunsContinue ==
  ASSUME NEW S
  PROVE  /\ Continuing(runsOf(S))
         /\ Starts(S) # {} => Continues(runsOf(S), Starts(S))
         /\ \A v \in Alive(Transitions(S)) : \E w : <<v, w>> \in runsOf(S)
<1>1. ASSUME NEW v \in Alive(Transitions(S))
      PROVE  \E w : <<v, w>> \in runsOf(S)
    <2>1. PICK w \in Alive(Transitions(S)) : <<v, w>> \in Transitions(S)
        BY AliveStep
    <2> DEFINE e == <<v, w>>
    <2>2. e \in Transitions(S) /\ e[1] = v /\ e[2] = w
        BY <2>1
    <2> HIDE DEF e
    <2>3. e \in runsOf(S)
        BY <2>2 DEF runsOf
    <2> QED BY <2>3 DEF e
<1>2. Continuing(runsOf(S))
    <2>1. runsOf(S) \subseteq Valuations \X Valuations
        BY DEF runsOf, Transitions
    <2>2. \A p \in runsOf(S) : p[2] \in Alive(Transitions(S))
        BY DEF runsOf
    <2> QED BY <1>1, <2>1, <2>2 DEF Continuing
<1>3. Starts(S) \subseteq Alive(Transitions(S)) /\ Alive(Transitions(S)) \subseteq Valuations
    BY StartsAlive DEF Alive
<1> QED BY <1>1, <1>2, <1>3 DEF Continues

\* What is entailed holds along the runs.
LEMMA EntailedThere ==
  ASSUME NEW S, NEW d \in Clauses, d # {}, Entails(S, d)
  PROVE  d \in Conc(runsOf(S), Starts(S))
BY DEF Entails, Conc, runsOf

\* A tautology holds at every pair of moments.
LEMMA TautologyHolds ==
  ASSUME NEW m, NEW c \in Clauses, OneKind(c), ~ isCorrect(m, c), NEW v, NEW w
  PROVE  HoldsAt(c, v, w)
<1>1. PICK k \in c, l \in c : k.prop = l.prop /\ k.neg # l.neg /\ areEqual(m, k.attr, l.attr)
    BY DEF isCorrect
<1>2. k.attr = l.attr
    <2>1. k.attr \in AttributesOf(c) /\ l.attr \in AttributesOf(c)
        BY DEF AttributesOf
    <2>2. ~ ({k.attr, l.attr} = {"universal", "step_now"})
        BY <2>1 DEF OneKind
    <2> QED BY <1>1, <2>2 DEF areEqual
<1>3. k \in Literals /\ l \in Literals
    BY DEF Clauses
<1> DEFINE x == moment(k.attr, v, w)
<1>4. HoldsLit(k, v, w) = TrueAt(k, x) /\ HoldsLit(l, v, w) = TrueAt(l, x)
    BY <1>2, HoldsAtMoment
<1>5. k.neg \in BOOLEAN /\ l.neg \in BOOLEAN
    BY <1>3 DEF Literals
<1>6. (TrueAt(k, x) <=> (k.neg <=> k.prop \notin x)) /\ (TrueAt(l, x) <=> (l.neg <=> l.prop \notin x))
    BY <1>3, SignTrue
<1>7. TrueAt(k, x) \/ TrueAt(l, x)
    BY <1>1, <1>5, <1>6
<1> QED BY <1>4, <1>7 DEF HoldsAt

\* So what is kept is entailed.
LEMMA KeptEntailed ==
  ASSUME NEW m \in Modes, NEW S, Proper(S), NEW d \in Clauses, OneKind(d), d # {}, Kept(m, S, d)
  PROVE  Entails(S, d)
<1>1. CASE isCorrect(m, d)
    <2>1. PICK c \in S : Covers(m, c, d)
        BY <1>1 DEF Kept, CoveredBy
    <2>2. c \in Clauses /\ OneKind(c) /\ c # {}
        BY DEF Proper
    <2> QED BY <2>1, <2>2, Membership, CoversEntails
<1>2. CASE ~ isCorrect(m, d)
    <2>1. \A v, w : HoldsAt(d, v, w)
        BY <1>2, TautologyHolds
    <2> QED BY <2>1 DEF Entails
<1> QED BY <1>1, <1>2

\* What the prover adds to the problem are clauses.
LEMMA AddedTypes ==
  ASSUME EventsOK
  PROVE  /\ \A l \in EventualityLiterals :
              augmentedStep(l) \in Clauses /\ OneKind(augmentedStep(l)) /\ augmentedStep(l) # {}
         /\ \A i \in DOMAIN events :
              augmentedNow(i) \in Clauses /\ OneKind(augmentedNow(i)) /\ augmentedNow(i) # {}
         /\ CandidateOK /\ turn \in DOMAIN events =>
              \A d \in loopClauses :
                d \in Clauses /\ resolventStep(d) \in Clauses /\ OneKind(resolventStep(d))
                              /\ resolventStep(d) # {}
<1>1. ASSUME NEW l \in EventualityLiterals
      PROVE  l \in Literals /\ makeLiteral(l) \in Literals /\ negate(makeLiteral(l)) \in Literals
    <2>1. l \in Literals /\ makeLiteral(l) \in Literals
        BY FewEventualities, NewSymbols
    <2> QED BY <2>1 DEF negate, Literals
<1>2. ASSUME NEW l \in EventualityLiterals
      PROVE  augmentedStep(l) \in Clauses /\ OneKind(augmentedStep(l)) /\ augmentedStep(l) # {}
    <2>1. {negate(makeLiteral(l))} \in Clauses /\ {l, makeLiteral(l)} \in Clauses
        BY <1>1 DEF Clauses
    <2> QED BY <2>1, BuiltClauses DEF augmentedStep
<1>3. ASSUME NEW i \in DOMAIN events
      PROVE  /\ augmentedNow(i) \in Clauses /\ OneKind(augmentedNow(i)) /\ augmentedNow(i) # {}
             /\ events[i].eventuality \in EventualityLiterals
    <2>1. events[i].present \in Clauses /\ events[i].eventuality \in EventualityLiterals
        BY EventualityType DEF EventsOK, EventualityLiterals
    <2>2. events[i].present \cup {events[i].eventuality, makeLiteral(events[i].eventuality)} \in Clauses
        BY <1>1, <2>1 DEF Clauses
    <2> QED BY <2>1, <2>2, BuiltClauses DEF augmentedNow
<1>4. ASSUME CandidateOK, turn \in DOMAIN events, NEW d \in loopClauses
      PROVE  /\ d \in Clauses /\ resolventStep(d) \in Clauses /\ OneKind(resolventStep(d))
             /\ resolventStep(d) # {}
    <2> DEFINE l == events[turn].eventuality
    <2>1. l \in EventualityLiterals
        BY <1>3, <1>4
    <2>2. d \in Clauses
        BY <1>4 DEF CandidateOK, loopClauses, Clauses
    <2>3. {negate(makeLiteral(l))} \in Clauses /\ d \cup {l} \in Clauses
        BY <1>1, <2>1, <2>2 DEF Clauses
    <2> QED BY <2>2, <2>3, BuiltClauses DEF resolventStep
<1> QED BY <1>2, <1>3, <1>4

\* A saturated set that keeps the problem and what augmentation adds to it,
\* and along whose runs nothing is owed for ever, proves that the problem has
\* a model.
LEMMA SaturatedProblem ==
  ASSUME EventsOK, given \subseteq Inputs, NEW S, Proper(S), Resolved("normal", S),
         \A d \in given : CoveredBy("normal", S, d),
         \A l \in EventualityLiterals : Kept("normal", S, augmentedStep(l)),
         \A i \in DOMAIN events : Kept("normal", S, augmentedNow(i)),
         \A i \in DOMAIN events :
           NoDebt(runsOf(S), events[i].eventuality, makeLiteral(events[i].eventuality).prop)
  PROVE  Problem
<1> DEFINE P == runsOf(S)
           F == Starts(S)
<1>1. Continues(P, F)
    BY SaturatedModel, RunsContinue DEF Satisfiable
<1>2. \A d \in given : d \in Clauses /\ OneKind(d) /\ d # {}
    BY SaturationAssumption
<1>3. "normal" \in Modes
    BY DEF Modes
<1>4. ASSUME NEW d \in Clauses, OneKind(d), d # {}, Kept("normal", S, d)
      PROVE  d \in Conc(P, F)
    BY <1>3, <1>4, KeptEntailed, EntailedThere
<1> HIDE DEF P, F
<1>5. given \subseteq Conc(P, F)
    BY <1>2, <1>4 DEF Kept
<1>6. /\ \A l \in EventualityLiterals : augmentedStep(l) \in Conc(P, F)
      /\ \A i \in DOMAIN events : augmentedNow(i) \in Conc(P, F)
    BY <1>4, AddedTypes
<1>7. \A l \in EventualityLiterals : NoDebt(P, l, makeLiteral(l).prop)
    BY DEF EventualityLiterals, P
<1>8. Models(P, F)
    BY <1>1, <1>5, <1>6, <1>7 DEF Models
<1> QED BY <1>8, ModelProblem

\* Where the temporal resolvents of a loop that leaves nothing out are kept,
\* its eventuality is not owed for ever.
LEMMA DebtSettled ==
  ASSUME EventsOK, CandidateOK, turn \in DOMAIN events, NEW S, Proper(S),
         HasAll(runsOf(S), events[turn].eventuality, loop),
         \A d \in loopClauses : Kept("normal", S, resolventStep(d))
  PROVE  NoDebt(runsOf(S), events[turn].eventuality,
                makeLiteral(events[turn].eventuality).prop)
<1> DEFINE P == runsOf(S)
           l == events[turn].eventuality
           x == makeLiteral(l)
<1>1. l \in EventualityLiterals /\ x \in Literals /\ l \in Literals
    BY NewSymbols, EventualityType DEF EventualityLiterals, EventsOK
<1>2. negate(x) \in Literals
    BY <1>1 DEF negate, Literals
<1> SUFFICES ASSUME NEW Y, \A p \in P : p[1] \in Y => p[2] \in Y /\ ~ HoldsLit(l, p[2], p[2]),
                    NEW p \in P, p[1] \in Y, x.prop \in p[1]
             PROVE  FALSE
    BY DEF NoDebt
<1>3. p[2] \in Y /\ ~ TrueAt(l, p[2])
    BY HoldsAtMoment DEF moment
<1>4. PICK w : <<p[2], w>> \in P
    BY RunsContinue DEF Continuing
<1>5. loop = <<>> \/ FalsifiedAt(loop, p[2])
    <2> DEFINE q == <<p[2], w>>
    <2>1. q \in P /\ q[1] = p[2]
        BY <1>4
    <2> HIDE DEF q
    <2>2. Never(P, l, Y)
        BY DEF Never
    <2> QED BY <1>3, <2>1, <2>2 DEF HasAll
<1>6. PICK d \in loopClauses : ~ HoldsAt(d, p[2], p[2])
    BY <1>5 DEF loopClauses, FalsifiedAt, HoldsAt
<1>7. /\ d \in Clauses /\ resolventStep(d) \in Clauses /\ OneKind(resolventStep(d))
      /\ resolventStep(d) # {}
    BY AddedTypes
<1>8. resolventStep(d) \in Conc(P, Starts(S))
    BY <1>7, KeptEntailed, EntailedThere DEF Modes
<1>9. {negate(x)} \in Clauses /\ d \cup {l} \in Clauses
    BY <1>1, <1>2, <1>7 DEF Clauses
<1>10. (\E k \in {negate(x)} : TrueAt(k, p[1])) \/ (\E k \in d \cup {l} : TrueAt(k, p[2]))
    <2>1. make_sclause({negate(x)}, d \cup {l}) \in Conc(P, Starts(S))
        BY <1>8 DEF resolventStep
    <2> HIDE DEF P, l, x
    <2> QED BY <1>9, <2>1, StepHolds
<1>11. ~ TrueAt(negate(x), p[1])
    BY <1>1, NewLiteralTrue
<1>12. \A k \in d : ~ TrueAt(k, p[2])
    BY <1>6, HoldsThere
<1> QED BY <1>3, <1>10, <1>11, <1>12

\* What an iteration of the loop search leaves: a moment from which every run
\* leads at once where a clause of the candidate and the eventuality literal
\* are false falsifies a clause of the next candidate.
LEMMA IterationComplete ==
  ASSUME EventsOK, CandidateOK, turn \in DOMAIN events, loop # <<>>,
         NEW S, Proper(S), \A c \in S : isCorrect("normal", c), Resolved("normal", S),
         NEW R, \A x \in R : \E c \in S : Copied(c, x),
         \A c \in S : leadingAttribute(c) = "initial" \/ \E x \in R : Copied(c, x),
         NEW H, Proper(H), \A c \in H : StepKind(c),
         \A c, d \in H :
           Complementary(c, d) =>
             \A r \in resolveMaximals("loopSearch", c, d) :
               {c, d} \subseteq R \/ CoveredBy("loopSearch", H, r),
         \A x \in R : CoveredBy("loopSearch", H, x),
         \A i \in DOMAIN loop : Kept("loopSearch", H, stepClauses[i]),
         NEW p \in runsOf(S),
         \A q \in runsOf(S) : q[1] = p[1] => Target(loop, events[turn].eventuality, q[2])
  PROVE  \E c \in H : leadingAttribute(c) = "step_now" /\ ~ HoldsAt(c, p[1], p[1])
<1> DEFINE l == events[turn].eventuality
           v == p[1]
           T == Transitions(S)
<1> SUFFICES ASSUME \A c \in H : leadingAttribute(c) = "step_now" => HoldsAt(c, v, v)
             PROVE  FALSE
    OBVIOUS
<1>1. "normal" \in Modes /\ "loopSearch" \in Modes
    BY DEF Modes
<1>2. v \in Valuations /\ v \in Alive(T) /\ PresentHolds(S, v)
    <2>1. v \in Alive(T)
        BY DEF runsOf
    <2> QED BY <2>1, AlivePresent
<1> HIDE DEF v
<1>3. \A c \in H : c \in Clauses /\ OneKind(c) /\ c # {} /\ IsFiniteSet(c)
    BY DEF Proper
<1>4. \A x \in R : x \in Clauses /\ StepKind(x)
    BY CopyParts DEF Proper
<1>5. PresentHolds(H, v)
    <2> SUFFICES ASSUME NEW c \in Present(H) PROVE \E k \in c : TrueAt(k, v)
        BY DEF PresentHolds
    <2>1. c \in H /\ leadingAttribute(c) # "step_next"
        BY DEF Present
    <2>2. leadingAttribute(c) = "step_now"
        BY <1>3, <2>1, LeadingKind DEF StepKind, Attributes
    <2>3. HoldsAt(c, v, v)
        BY <2>1, <2>2
    <2> QED BY <2>3, HoldsThere
<1>6. ResolvedAt("loopSearch", H, v)
    <2> SUFFICES ASSUME NEW c \in H, NEW d \in H, Complementary(c, d),
                        NEW r \in resolveMaximals("loopSearch", c, d)
                 PROVE  CoveredBy("loopSearch", H, r) \/ \E k \in NowPart(r) : TrueAt(k, v)
        BY DEF ResolvedAt
    <2>1. CASE ~ ({c, d} \subseteq R)
        BY <2>1
    <2>2. CASE c \in R /\ d \in R
        <3>1. CoveredBy("loopSearch", R, r) \/ \E k \in NowPart(r) : TrueAt(k, v)
            BY <1>2, <2>2, CopiesCovered
        <3>2. r = Merged(c, d) /\ areCompatible("loopSearch", leadingAttribute(c), leadingAttribute(d))
            BY DEF resolveMaximals
        <3>3. r \in Clauses
            BY <1>1, <1>3, <3>2, MergedOneKind
        <3>4. ASSUME NEW x \in R, Covers("loopSearch", x, r)
              PROVE  CoveredBy("loopSearch", H, r)
            <4>1. PICK e \in H : Covers("loopSearch", e, x)
                BY DEF CoveredBy
            <4>2. Covers("loopSearch", e, r)
                BY <1>1, <1>3, <1>4, <3>3, <3>4, <4>1, CoversTransitive
            <4> QED BY <4>2 DEF CoveredBy
        <3> QED BY <3>1, <3>4 DEF CoveredBy
    <2> QED BY <2>1, <2>2
<1>7. PICK w \in Valuations : <<v, w>> \in Transitions(H)
    BY <1>1, <1>2, <1>5, <1>6, HasSuccessor
<1>8. ASSUME NEW c, CoveredBy("loopSearch", H, c)
      PROVE  HoldsAt(c, v, w)
    <2>1. PICK e \in H : Covers("loopSearch", e, c)
        BY <1>8 DEF CoveredBy
    <2>2. e \subseteq c
        BY <2>1, LoopCovers
    <2>3. ~ IsInitial(e)
        BY DEF IsInitial, AttributesOf, StepKind
    <2> DEFINE q == <<v, w>>
    <2>4. q \in Transitions(H) /\ q[1] = v /\ q[2] = w
        BY <1>7
    <2> HIDE DEF q
    <2>5. HoldsAt(e, v, w)
        BY <2>3, <2>4 DEF Transitions
    <2> QED BY <2>2, <2>5 DEF HoldsAt
<1>9. \A x \in R : HoldsAt(x, v, w)
    BY <1>8
<1>10. ASSUME NEW c \in S, leadingAttribute(c) # "initial"
       PROVE  /\ HoldsAt(c, v, w)
              /\ leadingAttribute(c) # "step_next" => \E k \in c : TrueAt(k, w)
    <2>1. c \in Clauses /\ OneKind(c) /\ c # {}
        BY DEF Proper
    <2>2. PICK x \in R : Copied(c, x)
        BY <1>10
    <2>3. CASE leadingAttribute(c) = "step_next"
        BY <1>9, <2>2, <2>3 DEF Copied
    <2>4. CASE leadingAttribute(c) # "step_next"
        <3>1. x = Retag(c, "step_next")
            BY <2>2, <2>4 DEF Copied
        <3>2. PICK k \in c : HoldsLit(setAttribute(k, "step_next"), v, w)
            BY <1>9, <3>1 DEF HoldsAt, Retag
        <3>3. k \in Literals
            BY <2>1 DEF Clauses
        <3>4. setAttribute(k, "step_next").attr = "step_next"
              /\ Key(setAttribute(k, "step_next")) = Key(k)
            BY <3>3, RetagLiteral DEF Attributes
        <3>5. TrueAt(k, w)
            BY <3>2, <3>4, HoldsAtMoment, SameKeyTrue DEF moment
        <3>6. c \in Present(S)
            BY <1>10, <2>1, <2>4, KindOfLead DEF Present
        <3>7. PICK j \in c : TrueAt(j, v)
            BY <1>2, <3>6 DEF PresentHolds
        <3>8. j.attr # "step_next"
            BY <2>1, <2>4, LeadingKind
        <3>9. HoldsLit(j, v, w)
            BY <3>7, <3>8, HoldsAtMoment DEF moment
        <3> QED BY <3>5, <3>9 DEF HoldsAt
    <2> QED BY <2>3, <2>4
<1>11. PresentHolds(S, w)
    <2> SUFFICES ASSUME NEW c \in Present(S) PROVE \E k \in c : TrueAt(k, w)
        BY DEF PresentHolds
    <2>1. c \in S /\ leadingAttribute(c) # "step_next" /\ ~ IsInitial(c)
        BY DEF Present
    <2>2. leadingAttribute(c) # "initial"
        BY <2>1, KindOfLead DEF Proper
    <2> QED BY <1>10, <2>1, <2>2
<1>12. w \in Alive(T)
    BY <1>11, AlivePresent
<1> DEFINE q == <<v, w>>
<1>13. q \in Valuations \X Valuations /\ q[1] = v /\ q[2] = w
    BY <1>2
<1> HIDE DEF q
<1>14. q \in runsOf(S)
    <2>1. \A c \in S : ~ IsInitial(c) => HoldsAt(c, v, w)
        BY <1>10, KindOfLead DEF Proper
    <2> QED BY <1>2, <1>12, <1>13, <2>1 DEF runsOf, Transitions
<1>15. Target(loop, l, w)
    BY <1>13, <1>14 DEF v
<1>16. FalsifiedAt(loop, w) /\ ~ HoldsLit(l, w, w)
    BY <1>15 DEF Target
<1>17. PICK i \in DOMAIN loop : ~ HoldsAt(loop[i], w, w)
    BY <1>16 DEF FalsifiedAt
<1>18. stepClauses[i] = Retag(loop[i] \cup {l}, "step_next") /\ OneKind(stepClauses[i])
       /\ stepClauses[i] \in Clauses
    BY StepClausesParts
<1>19. HoldsAt(stepClauses[i], v, w)
    BY <1>8, <1>18, TautologyHolds DEF Kept
<1>20. PICK k \in loop[i] \cup {l} : HoldsLit(setAttribute(k, "step_next"), v, w)
    BY <1>18, <1>19 DEF HoldsAt, Retag
<1>21. k \in Literals
    BY EventualityType DEF CandidateOK, EventsOK, Clauses
<1>22. TrueAt(k, w)
    <2>1. setAttribute(k, "step_next").attr = "step_next"
          /\ Key(setAttribute(k, "step_next")) = Key(k)
        BY <1>21, RetagLiteral DEF Attributes
    <2> QED BY <1>20, <2>1, HoldsAtMoment, SameKeyTrue DEF moment
<1>23. ~ TrueAt(l, w)
    BY <1>16, HoldsAtMoment DEF moment
<1> QED BY <1>17, <1>20, <1>22, <1>23, HoldsThere

-----------------------------------------------------------------------------
(***************************************************************************)
(* What the prover's own set keeps.  During a loop search it rests in      *)
(* saved.                                                                  *)
(***************************************************************************)
inLoopSearch == stage \in {"candidate", "iterated"}

ownSet  == IF inLoopSearch THEN saved ELSE active
ownHeld == IF inLoopSearch THEN LitsOf(saved) ELSE Held

AddedKept(H) ==
  /\ \A l \in EventualityLiterals : Kept("normal", H, augmentedStep(l))
  /\ \A i \in DOMAIN events : Kept("normal", H, augmentedNow(i))

ResolventStepsKept(H) == \A d \in loopClauses : Kept("normal", H, resolventStep(d))

\* The prover's set covers what was given, what augmentation added, the step
\* clauses of the temporal resolvents added last, and what its clauses yield.
OwnInv ==
  /\ \A c \in ownHeld : isCorrect("normal", c)
  /\ PairsKept("normal", ownSet, ownHeld, {})
  /\ \A c \in given : CoveredBy("normal", ownHeld, c)
  /\ stage \notin {"reading", "step", "done"} => AddedKept(ownHeld)
  /\ stage = "resolved" => ResolventStepsKept(ownHeld)

\* When saturate has returned without a contradiction nothing is passive.
Quiet ==
  /\ stage \in {"step", "augmented", "iterated", "resolved"} /\ pc = "idle" /\ ~ success =>
       passive = {}
  /\ stage \in {"eventualities", "found"} => passive = {}

\* What a loop search has: copies of the prover's clauses, and in an
\* iteration what they and the clauses of the candidate yield.
SearchingInv ==
  /\ inLoopSearch =>
       /\ loop # <<>>
       /\ \A x \in LitsOf(base) : \E c \in LitsOf(saved) : Copied(c, x)
       /\ \A c \in LitsOf(saved) :
            leadingAttribute(c) = "initial" \/ \E x \in LitsOf(base) : Copied(c, x)
  /\ stage = "iterated" =>
       /\ PairsKept("loopSearch", active, Held, LitsOf(base))
       /\ \A x \in LitsOf(base) : CoveredBy("loopSearch", Held, x)
       /\ \A i \in DOMAIN loop : Kept("loopSearch", Held, stepClauses[i])

\* With the control at the caller and nothing passive, all that is held is
\* active.
LEMMA IdleHeld ==
  ASSUME Shape, pc = "idle", passive = {}
  PROVE  Held = LitsOf(active)
<1>1. todo = {} /\ kept = {} /\ working = {}
    BY DEF Shape
<1> QED BY <1>1 DEF Held, LitsOf

\* What is active can be held by a clause set.
LEMMA ActivatedProper ==
  ASSUME NEW A, Activated(A)
  PROVE  Proper(LitsOf(A))
<1>1. IsFiniteSet(LitsOf(A))
    <2> DEFINE litsOf == [e \in A |-> e.lits]
    <2>1. litsOf \in Surjection(A, LitsOf(A))
        BY DEF Surjection, LitsOf
    <2> HIDE DEF litsOf
    <2> QED BY <2>1, FS_Surjection DEF Activated
<1>2. \A c \in LitsOf(A) : c \in Clauses /\ OneKind(c) /\ c # {}
    BY DEF Activated, Entries, LitsOf
<1> QED BY <1>1, <1>2, LiteralsFinite DEF Proper

\* Of two clauses activated one is the older, so their resolvent is covered.
LEMMA AllPairs ==
  ASSUME NEW m, NEW A, Activated(A), NEW H, NEW X, PairsKept(m, A, H, X)
  PROVE  \A c, d \in LitsOf(A) :
           Complementary(c, d) =>
             \A r \in resolveMaximals(m, c, d) : {c, d} \subseteq X \/ CoveredBy(m, H, r)
<1> SUFFICES ASSUME NEW c \in LitsOf(A), NEW d \in LitsOf(A), Complementary(c, d),
                    NEW r \in resolveMaximals(m, c, d), ~ ({c, d} \subseteq X)
             PROVE  CoveredBy(m, H, r)
    OBVIOUS
<1>1. PICK e \in A : c = e.lits
    BY DEF LitsOf
<1>2. PICK f \in A : d = f.lits
    BY DEF LitsOf
<1>3. /\ c \in Clauses /\ IsFiniteSet(c) /\ c # {} /\ OneKind(c)
      /\ d \in Clauses /\ IsFiniteSet(d) /\ d # {} /\ OneKind(d)
    BY ActivatedProper DEF Proper
<1>4. Complementary(d, c) /\ c # d /\ r \in resolveMaximals(m, d, c)
    BY <1>3, ResolveSymmetric
<1>5. e.at \in Nat /\ f.at \in Nat /\ e.at # f.at
    BY <1>1, <1>2, <1>4 DEF Activated, Entries
<1>6. CASE e.at < f.at
    BY <1>1, <1>2, <1>6 DEF PairsKept
<1>7. CASE f.at < e.at
    BY <1>1, <1>2, <1>4, <1>7 DEF PairsKept
<1> QED BY <1>5, <1>6, <1>7

\* At rest the prover's set is saturated.
LEMMA OwnSaturated ==
  ASSUME SInv, OwnInv, inLoopSearch \/ (pc = "idle" /\ passive = {})
  PROVE  /\ ownHeld = LitsOf(ownSet) /\ Proper(ownHeld)
         /\ Resolved("normal", ownHeld)
<1>1. ownHeld = LitsOf(ownSet)
    BY IdleHeld DEF SInv, ownHeld, ownSet
<1>2. Activated(ownSet)
    BY DEF SInv, SetsOK, ownSet
<1>3. Resolved("normal", ownHeld)
    <2>1. \A c, d \in ownHeld :
            Complementary(c, d) =>
              \A r \in resolveMaximals("normal", c, d) :
                {c, d} \subseteq {} \/ CoveredBy("normal", ownHeld, r)
        BY <1>1, <1>2, AllPairs DEF OwnInv
    <2> QED BY <2>1 DEF Resolved
<1> QED BY <1>1, <1>2, <1>3, ActivatedProper

\* Coverage goes on: what is kept stays kept.
LEMMA KeptOn ==
  ASSUME NEW m, NEW H, NEW K, NEW c \in Clauses, Kept(m, H, c),
         \A d \in Clauses : CoveredBy(m, H, d) => CoveredBy(m, K, d)
  PROVE  Kept(m, K, c)
BY DEF Kept

\* More clauses cover more.
LEMMA CoveredMore ==
  ASSUME NEW m, NEW H, NEW K, H \subseteq K, NEW c, CoveredBy(m, H, c)
  PROVE  CoveredBy(m, K, c)
BY DEF CoveredBy

\* A step after reading at which the prover's set keeps its forms and covers
\* what it covered.
LEMMA OwnStep ==
  ASSUME SInv, OwnInv, events' = events, given' = given, stage # "done",
         \A c \in ownHeld' : isCorrect("normal", c),
         PairsKept("normal", ownSet', ownHeld', {}),
         \A c \in Clauses : CoveredBy("normal", ownHeld, c) => CoveredBy("normal", ownHeld', c),
         stage \in {"reading", "step"} /\ stage' \notin {"reading", "step", "done"} =>
           AddedKept(ownHeld'),
         stage' = "resolved" =>
           /\ loop' = loop /\ turn' = turn
           /\ stage = "resolved" \/ ResolventStepsKept(ownHeld')
  PROVE  OwnInv'
<1>1. EventualityLiterals' = EventualityLiterals /\ \A l : makeLiteral(l)' = makeLiteral(l)
    BY NamesSame
<1>2. \A l : augmentedStep(l)' = augmentedStep(l)
    BY <1>1 DEF augmentedStep
<1>3. \A i : augmentedNow(i)' = augmentedNow(i)
    BY <1>1 DEF augmentedNow
<1>4. TypeOK /\ EventsOK /\ CandidateOK
    BY DEF SInv, SearchTypeOK
<1>5. \A c \in given' : CoveredBy("normal", ownHeld', c)
    BY <1>4 DEF OwnInv, TypeOK
<1>6. ASSUME stage' \notin {"reading", "step", "done"}
      PROVE  AddedKept(ownHeld')
    <2>1. CASE stage \in {"reading", "step"}
        BY <1>6, <2>1
    <2>2. CASE stage \notin {"reading", "step"}
        <3>1. AddedKept(ownHeld)
            BY <2>2 DEF OwnInv
        <3>2. /\ \A l \in EventualityLiterals : augmentedStep(l) \in Clauses
              /\ \A i \in DOMAIN events : augmentedNow(i) \in Clauses
            BY <1>4, AddedTypes
        <3> QED BY <3>1, <3>2, KeptOn DEF AddedKept
    <2> QED BY <2>1, <2>2
<1>7. AddedKept(ownHeld') => AddedKept(ownHeld)'
    BY <1>1, <1>2, <1>3 DEF AddedKept, Kept
<1>8. ASSUME stage' = "resolved"
      PROVE  ResolventStepsKept(ownHeld')
    <2>1. CASE stage = "resolved"
        <3>1. ResolventStepsKept(ownHeld) /\ turn \in DOMAIN events
            BY <2>1 DEF OwnInv, SInv, Control
        <3>2. \A d \in loopClauses : resolventStep(d) \in Clauses
            BY <1>4, <3>1, AddedTypes
        <3> QED BY <3>1, <3>2, KeptOn DEF ResolventStepsKept
    <2> QED BY <1>8, <2>1
<1>9. ASSUME stage' = "resolved", ResolventStepsKept(ownHeld')
      PROVE  ResolventStepsKept(ownHeld)'
    <2>1. loop' = loop /\ turn' = turn
        BY <1>9
    <2>2. loopClauses' = loopClauses
        BY <2>1 DEF loopClauses
    <2>3. \A d : resolventStep(d)' = resolventStep(d)
        BY <1>1, <2>1 DEF resolventStep
    <2> QED BY <1>9, <2>2, <2>3 DEF ResolventStepsKept, Kept
<1> QED BY <1>5, <1>6, <1>7, <1>8, <1>9 DEF OwnInv

-----------------------------------------------------------------------------
\* What is pushed is held, unless it is a tautology.
LEMMA PushedLits ==
  ASSUME nextId \in Nat, NEW seq \in Seq(Clauses)
  PROVE  /\ \A i \in DOMAIN seq : isCorrect(mode, seq[i]) => seq[i] \in LitsOf(Pushed(seq))
         /\ \A c \in LitsOf(Pushed(seq)) : isCorrect(mode, c)
<1>1. ASSUME NEW i \in DOMAIN seq, isCorrect(mode, seq[i])
      PROVE  seq[i] \in LitsOf(Pushed(seq))
    <2> DEFINE e == [id |-> nextId + i - 1, lits |-> seq[i]]
    <2>1. e \in Pushed(seq) /\ e.lits = seq[i]
        BY <1>1 DEF Pushed
    <2> HIDE DEF e
    <2> QED BY <2>1 DEF LitsOf
<1>2. \A c \in LitsOf(Pushed(seq)) : isCorrect(mode, c)
    BY PushedType DEF LitsOf
<1> QED BY <1>1, <1>2

\* Augmentation leaves none of its clauses out.
LEMMA AugmentationAll ==
  ASSUME EventsOK
  PROVE  /\ \A l \in EventualityLiterals :
              \E i \in DOMAIN augmentation : augmentation[i] = augmentedStep(l)
         /\ \A j \in DOMAIN events :
              \E i \in DOMAIN augmentation : augmentation[i] = augmentedNow(j)
<1> DEFINE one == [i \in DOMAIN sortedEventualities |-> augmentedStep(sortedEventualities[i])]
           two == [i \in DOMAIN events |-> augmentedNow(i)]
<1>1. augmentation = one \o two
    BY DEF augmentation, augmentedStep, augmentedNow
<1>2. sortedEventualities \in Seq(EventualityLiterals)
    BY SortedEventualities
<1>3. \A l \in EventualityLiterals : augmentedStep(l) \in Clauses
    BY AddedTypes
<1>4. \A i \in DOMAIN events : augmentedNow(i) \in Clauses
    BY AddedTypes
<1>5. one \in Seq(Clauses) /\ two \in Seq(Clauses)
    <2>1. one \in [1..Len(sortedEventualities) -> Clauses] /\ Len(sortedEventualities) \in Nat
        BY <1>2, <1>3
    <2>2. two \in [1..Len(events) -> Clauses] /\ Len(events) \in Nat
        BY <1>4 DEF EventsOK
    <2> QED BY <2>1, <2>2
<1>6. /\ \A i \in DOMAIN one : one[i] = augmentedStep(sortedEventualities[i])
      /\ \A i \in DOMAIN two : two[i] = augmentedNow(i)
      /\ DOMAIN one = DOMAIN sortedEventualities /\ DOMAIN two = DOMAIN events
    OBVIOUS
<1> HIDE DEF one, two
<1>7. /\ \A i \in DOMAIN one : i \in DOMAIN augmentation /\ augmentation[i] = one[i]
      /\ \A i \in DOMAIN two : Len(one) + i \in DOMAIN augmentation
                               /\ augmentation[Len(one) + i] = two[i]
    BY <1>1, <1>5
<1>8. ASSUME NEW l \in EventualityLiterals
      PROVE  \E i \in DOMAIN augmentation : augmentation[i] = augmentedStep(l)
    <2>1. PICK i \in DOMAIN sortedEventualities : sortedEventualities[i] = l
        BY SortedEventualities
    <2> QED BY <1>6, <1>7, <2>1
<1>9. \A j \in DOMAIN events : \E i \in DOMAIN augmentation : augmentation[i] = augmentedNow(j)
    BY <1>6, <1>7
<1> QED BY <1>8, <1>9

\* Temporal resolution makes a step clause of every clause of the loop.
LEMMA ResolventsAll ==
  ASSUME CandidateOK, NEW d \in loopClauses
  PROVE  \E i \in DOMAIN temporalResolvents : temporalResolvents[i] = resolventStep(d)
<1> DEFINE L == IF loop = <<>> THEN <<{}>> ELSE loop
<1>1. L \in Seq(Clauses) /\ Len(L) \in Nat /\ DOMAIN L = 1..Len(L)
    <2>1. {} \in Clauses
        BY DEF Clauses
    <2>2. <<{}>> \in Seq(Clauses) /\ loop \in Seq(Clauses)
        BY <2>1 DEF CandidateOK
    <2>3. L \in Seq(Clauses)
        BY <2>2
    <2> HIDE DEF L
    <2> QED BY <2>3
<1>2. PICK j \in DOMAIN L : L[j] = d
    <2>1. CASE loop = <<>>
        <3>1. L = <<{}>> /\ d = {}
            BY <2>1 DEF loopClauses
        <3>2. 1 \in DOMAIN L /\ L[1] = {}
            BY <3>1
        <3> QED BY <3>1, <3>2
    <2>2. CASE loop # <<>>
        BY <2>2 DEF loopClauses
    <2> QED BY <2>1, <2>2
<1>3. temporalResolvents =
        [i \in 1..(2 * Len(L)) |->
           IF i % 2 = 1 THEN resolventStep(L[(i + 1) \div 2])
           ELSE make_uclause(L[i \div 2] \cup {events[turn].eventuality} \cup events[turn].present)]
    BY DEF temporalResolvents, resolventStep
<1> HIDE DEF L
<1>4. ASSUME NEW n \in Nat, NEW k \in 1..n
      PROVE  /\ 2 * k - 1 \in 1..(2 * n)
             /\ (2 * k - 1) % 2 = 1 /\ ((2 * k - 1) + 1) \div 2 = k
    OBVIOUS
<1>5. 2 * j - 1 \in 1..(2 * Len(L)) /\ (2 * j - 1) % 2 = 1 /\ ((2 * j - 1) + 1) \div 2 = j
    BY <1>1, <1>4
<1> DEFINE i == 2 * j - 1
<1>6. i \in 1..(2 * Len(L)) /\ i % 2 = 1 /\ (i + 1) \div 2 = j
    BY <1>5
<1> HIDE DEF i
<1>7. i \in DOMAIN temporalResolvents /\ temporalResolvents[i] = resolventStep(L[j])
    BY <1>3, <1>6
<1> QED BY <1>2, <1>7

-----------------------------------------------------------------------------
(***************************************************************************)
(* The steps of the prover keep its own set.                               *)
(***************************************************************************)
\* Reading.
LEMMA ReadingOwn ==
  ASSUME SInv, OwnInv,
         \/ \E lits \in Inputs : AddClause(lits)
         \/ \E e \in Eventualities : AddEventuality(e)
  PROVE  OwnInv'
<1>1. /\ stage = "reading" /\ stage' = "reading" /\ active' = active /\ mode = "normal"
      /\ UNCHANGED <<todo, kept, working>>
    BY DEF AddClause, AddEventuality, proverVars, Push, searchVars, SInv, Control
<1>2. ownSet = active /\ ownSet' = active /\ ownHeld = Held /\ ownHeld' = Held'
    BY <1>1 DEF ownSet, ownHeld, inLoopSearch
<1>3. /\ Held \subseteq Held' /\ \A c \in Held' : c \in Held \/ isCorrect("normal", c)
      /\ \A c \in given' : c \in given \/ c \in Held'
    <2>1. CASE \E lits \in Inputs : AddClause(lits)
        <3>1. PICK lits \in Inputs : AddClause(lits)
            BY <2>1
        <3> DEFINE e == [id |-> nextId, lits |-> lits]
        <3>2. e.lits = lits
            OBVIOUS
        <3>3. \/ isCorrect("normal", lits) /\ passive' = passive \cup {e} /\ given' = given \cup {lits}
              \/ UNCHANGED <<passive, given>>
            BY <1>1, <3>1 DEF AddClause, Push
        <3> HIDE DEF e
        <3>4. CASE isCorrect("normal", lits) /\ passive' = passive \cup {e} /\ given' = given \cup {lits}
            <4>1. Held' = Held \cup {lits}
                BY <1>1, <3>2, <3>4 DEF Held, LitsOf
            <4> QED BY <3>4, <4>1
        <3>5. CASE UNCHANGED <<passive, given>>
            <4>1. Held' = Held
                BY <1>1, <3>5 DEF Held
            <4> QED BY <3>5, <4>1
        <3> QED BY <3>3, <3>4, <3>5
    <2>2. CASE \E e \in Eventualities : AddEventuality(e)
        <3>1. UNCHANGED <<active, passive, given>>
            BY <2>2 DEF AddEventuality, searchVars, callerVars
        <3>2. Held' = Held
            BY <1>1, <3>1 DEF Held
        <3> QED BY <3>1, <3>2
    <2> QED BY <2>1, <2>2
<1>4. PairsKept("normal", ownSet', ownHeld', {})
    BY <1>2, <1>3, CoveredMore DEF OwnInv, PairsKept
<1>5. \A c \in given' : CoveredBy("normal", ownHeld', c)
    <2>1. \A c \in Held' : CoveredBy("normal", Held', c)
        BY CoversSubset DEF CoveredBy
    <2> QED BY <1>2, <1>3, <2>1, CoveredMore DEF OwnInv
<1> QED BY <1>1, <1>2, <1>3, <1>4, <1>5 DEF OwnInv

\* A step that leaves the prover's set as it is.
LEMMA RestOwn ==
  ASSUME SInv, OwnInv, events' = events, given' = given, stage # "done",
         ownSet' = ownSet, ownHeld' = ownHeld,
         stage \in {"reading", "step"} => stage' \in {"reading", "step", "done"},
         stage' = "resolved" => stage = "resolved" /\ loop' = loop /\ turn' = turn
  PROVE  OwnInv'
BY OwnStep DEF OwnInv

\* The caller's steps that add no clause.
LEMMA CallerOwn ==
  ASSUME SInv, OwnInv, Quiet,
         \/ StartSearch \/ StartRound \/ NothingNew \/ Contradiction \/ NextCandidate
         \/ NextEventuality \/ LoopSearch \/ LoopIteration \/ LoopReturns
  PROVE  OwnInv'
<1>1. Shape /\ stage = "eventualities" => pc = "idle"
    BY DEF SInv, Control
<1>2. CASE \/ StartSearch \/ StartRound \/ NothingNew \/ Contradiction \/ NextCandidate
           \/ NextEventuality
    <2>1. /\ UNCHANGED <<active, passive, todo, kept, working, saved, events, given>>
          /\ \/ stage = "reading" /\ stage' = "step"
             \/ stage \in {"augmented", "resolved", "eventualities"} /\ stage' = "eventualities"
             \/ stage \in {"step", "augmented", "resolved", "eventualities"} /\ stage' = "done"
             \/ stage = "iterated" /\ stage' = "candidate"
        BY <1>2 DEF StartSearch, StartRound, NothingNew, Contradiction, NextCandidate,
                    NextEventuality, Return, Back, vars, searchVars, callerVars, loopVars
    <2>2. Held' = Held
        BY <2>1 DEF Held
    <2>3. ownSet' = ownSet /\ ownHeld' = ownHeld
        BY <2>1, <2>2 DEF ownSet, ownHeld, inLoopSearch
    <2> QED BY <2>1, <2>3, RestOwn
<1>3. CASE LoopSearch
    <2>1. /\ stage = "eventualities" /\ stage' = "candidate" /\ saved' = active
          /\ UNCHANGED <<events, given>>
        BY <1>3 DEF LoopSearch
    <2>2. Held = LitsOf(active)
        BY <1>1, <2>1, IdleHeld DEF Quiet, SInv, Control
    <2>3. ownSet' = ownSet /\ ownHeld' = ownHeld
        BY <2>1, <2>2 DEF ownSet, ownHeld, inLoopSearch
    <2> QED BY <2>1, <2>3, RestOwn
<1>4. CASE LoopIteration
    <2>1. stage = "candidate" /\ stage' = "iterated" /\ UNCHANGED <<saved, events, given>>
        BY <1>4 DEF LoopIteration, loopVars, callerVars
    <2>2. ownSet' = ownSet /\ ownHeld' = ownHeld
        BY <2>1 DEF ownSet, ownHeld, inLoopSearch
    <2> QED BY <2>1, <2>2, RestOwn
<1>5. CASE LoopReturns
    <2>1. /\ stage = "iterated" /\ stage' \in {"found", "eventualities"} /\ pc = "idle"
          /\ active' = saved /\ passive' = {} /\ UNCHANGED <<todo, kept, working, events, given>>
        BY <1>5 DEF LoopReturns, Back
    <2>2. todo = {} /\ kept = {} /\ working = {}
        BY <1>1, <2>1 DEF Shape, SInv
    <2>3. Held' = LitsOf(saved)
        BY <2>1, <2>2 DEF Held, LitsOf
    <2>4. ownSet' = ownSet /\ ownHeld' = ownHeld
        BY <2>1, <2>3 DEF ownSet, ownHeld, inLoopSearch
    <2> QED BY <2>1, <2>4, RestOwn
<1> QED BY <1>2, <1>3, <1>4, <1>5

\* Clauses pushed on the prover's set.
LEMMA PushedOwn ==
  ASSUME SInv, ~ inLoopSearch, NEW seq \in Seq(Clauses),
         \A c \in Held : isCorrect("normal", c), PairsKept("normal", active, Held, {}),
         UNCHANGED <<active, todo, kept, working>>, passive' = passive \cup Pushed(seq)
  PROVE  /\ \A c \in Held' : isCorrect("normal", c)
         /\ PairsKept("normal", active', Held', {})
         /\ \A c \in Clauses : CoveredBy("normal", Held, c) => CoveredBy("normal", Held', c)
         /\ \A i \in DOMAIN seq : Kept("normal", Held', seq[i])
<1>1. mode = "normal" /\ nextId \in Nat
    BY DEF inLoopSearch, SInv, Control, SearchTypeOK, TypeOK
<1>2. LitsOf(passive') = LitsOf(passive) \cup LitsOf(Pushed(seq))
    BY DEF LitsOf
<1>3. Held' = Held \cup LitsOf(Pushed(seq))
    BY <1>2 DEF Held
<1>4. \A c \in LitsOf(Pushed(seq)) : isCorrect("normal", c)
    BY <1>1, PushedLits
<1>5. \A i \in DOMAIN seq : isCorrect("normal", seq[i]) => seq[i] \in Held'
    BY <1>1, <1>3, PushedLits
<1>6. \A c \in Held' : CoveredBy("normal", Held', c)
    BY CoversSubset DEF CoveredBy
<1>7. \A i \in DOMAIN seq : Kept("normal", Held', seq[i])
    BY <1>5, <1>6 DEF Kept
<1>8. \A c : CoveredBy("normal", Held, c) => CoveredBy("normal", Held', c)
    BY <1>3, CoveredMore
<1>9. PairsKept("normal", active', Held', {})
    BY <1>8 DEF PairsKept
<1> QED BY <1>3, <1>4, <1>7, <1>8, <1>9

\* Augmentation and temporal resolution.
LEMMA AddedOwn ==
  ASSUME SInv, OwnInv, Augment \/ generateResolvents
  PROVE  OwnInv'
<1>1. /\ UNCHANGED <<active, todo, kept, working, events, given, loop, turn>>
      /\ \/ stage = "step" /\ stage' = "augmented" /\ passive' = passive \cup Pushed(augmentation)
         \/ /\ stage = "found" /\ stage' = "resolved" /\ passive' = passive \cup Pushed(temporalResolvents)
    BY DEF Augment, generateResolvents, Back, callerVars, loopVars
<1>2. ownSet = active /\ ownHeld = Held /\ ownSet' = active' /\ ownHeld' = Held' /\ ~ inLoopSearch
    BY <1>1 DEF ownSet, ownHeld, inLoopSearch
<1>3. (\A c \in Held : isCorrect("normal", c)) /\ PairsKept("normal", active, Held, {})
    BY <1>2 DEF OwnInv
<1>4. EventsOK /\ CandidateOK
    BY DEF SInv
<1>5. CASE stage = "step"
    <2>1. augmentation \in Seq(Clauses)
        BY <1>4, AugmentationParts
    <2>2. /\ \A c \in Held' : isCorrect("normal", c)
          /\ PairsKept("normal", active', Held', {})
          /\ \A c \in Clauses : CoveredBy("normal", Held, c) => CoveredBy("normal", Held', c)
          /\ \A i \in DOMAIN augmentation : Kept("normal", Held', augmentation[i])
        BY <1>1, <1>2, <1>3, <1>5, <2>1, PushedOwn
    <2>3. AddedKept(Held')
        BY <1>4, <2>2, AugmentationAll DEF AddedKept
    <2> QED BY <1>1, <1>2, <1>5, <2>2, <2>3, OwnStep
<1>6. CASE stage = "found"
    <2>1. turn \in DOMAIN events
        BY <1>6 DEF SInv, Control
    <2>2. temporalResolvents \in Seq(Clauses)
        BY <1>4, <2>1, ResolventParts
    <2>3. /\ \A c \in Held' : isCorrect("normal", c)
          /\ PairsKept("normal", active', Held', {})
          /\ \A c \in Clauses : CoveredBy("normal", Held, c) => CoveredBy("normal", Held', c)
          /\ \A i \in DOMAIN temporalResolvents : Kept("normal", Held', temporalResolvents[i])
        BY <1>1, <1>2, <1>3, <1>6, <2>2, PushedOwn
    <2>4. ResolventStepsKept(Held')
        BY <1>4, <2>3, ResolventsAll DEF ResolventStepsKept
    <2> QED BY <1>1, <1>2, <1>6, <2>3, <2>4, OwnStep
<1> QED BY <1>1, <1>5, <1>6

\* A step of saturate.
LEMMA SaturateOwn ==
  ASSUME SInv, OwnInv, SaturateStep
  PROVE  OwnInv'
<1>1. Step /\ UNCHANGED <<stage, events, loop, turn, saved>>
    BY DEF SaturateStep, proverVars, loopVars
<1>2. TypeOK /\ Shape /\ UNCHANGED <<mode, given>>
    BY <1>1, StepFrame DEF SInv, SearchTypeOK
<1>3. stage # "done" /\ inLoopSearch' = inLoopSearch
    BY <1>1, <1>2, StepRuns DEF SInv, Control, inLoopSearch
<1>4. CASE inLoopSearch
    <2>1. ownSet' = ownSet /\ ownHeld' = ownHeld
        BY <1>1, <1>3, <1>4 DEF ownSet, ownHeld
    <2> QED BY <1>1, <1>2, <1>3, <2>1, RestOwn
<1>5. CASE ~ inLoopSearch
    <2>1. mode = "normal" /\ mode' = "normal"
        BY <1>2, <1>5 DEF SInv, Control, inLoopSearch
    <2>2. ownSet = active /\ ownHeld = Held /\ ownSet' = active' /\ ownHeld' = Held'
        BY <1>3, <1>5 DEF ownSet, ownHeld
    <2>3. \A c \in Clauses : CoveredBy("normal", Held, c) => CoveredBy("normal", Held', c)
        BY <1>1, <1>2, <2>1, CoverageKept
    <2>4. PairsKept("normal", active', Held', {})
        BY <1>1, <1>2, <2>1, <2>2, PairsStep DEF OwnInv
    <2>5. AllFinite
        BY <1>2, HeldType, LiteralsFinite DEF AllFinite, Held
    <2>6. \A c \in Held' : isCorrect("normal", c)
        BY <1>1, <1>2, <2>2, <2>5, StepForms DEF OwnInv, Correct
    <2> QED BY <1>1, <1>2, <1>3, <2>2, <2>3, <2>4, <2>6, OwnStep
<1> QED BY <1>4, <1>5

\* Every step.
LEMMA OwnNext ==
  ASSUME SInv, OwnInv, Quiet, [SearchNext]_allVars
  PROVE  OwnInv'
<1>1. CASE UNCHANGED allVars
    <2>1. UNCHANGED <<active, passive, todo, kept, working, saved, events, given, stage, loop, turn>>
        BY <1>1 DEF allVars, vars, searchVars, callerVars, proverVars, loopVars
    <2>2. Held' = Held
        BY <2>1 DEF Held
    <2>3. ownSet' = ownSet /\ ownHeld' = ownHeld
        BY <2>1, <2>2 DEF ownSet, ownHeld, inLoopSearch
    <2>4. CASE stage # "done"
        BY <2>1, <2>3, <2>4, RestOwn
    <2>5. CASE stage = "done"
        BY <2>1, <2>3, <2>5 DEF OwnInv
    <2> QED BY <2>4, <2>5
<1>2. CASE ProverStep
    BY <1>2, CallerOwn, AddedOwn, SaturateOwn DEF ProverStep
<1>3. CASE Finished
    BY <1>1, <1>3 DEF Finished
<1> QED BY <1>1, <1>2, <1>3, ReadingOwn DEF SearchNext

-----------------------------------------------------------------------------
(***************************************************************************)
(* What saturate leaves when it returns, and what a loop search has.       *)
(***************************************************************************)
\* saturate returns when it has found a contradiction or Passive is empty.
LEMMA StepReturns ==
  ASSUME Step, pc' = "idle", ~ success'
  PROVE  passive' = {}
<1>1. ASSUME NEW c \in passive, SelectRedundant(c) PROVE FALSE
    BY <1>1 DEF SelectRedundant
<1>2. ASSUME NEW c \in passive, Activate(c) PROVE FALSE
    BY <1>2 DEF Activate
<1>3. ASSUME NEW p \in todo, Simplify(p) PROVE FALSE
    BY <1>3 DEF Simplify
<1>4. ASSUME NEW p \in kept, Insert(p) PROVE FALSE
    BY <1>4 DEF Insert
<1>5. ASSUME NEW p \in working, NEW l \in untried, SimplifyByFS(p, l) PROVE FALSE
    BY <1>5 DEF SimplifyByFS
<1>6. CASE EndFSR
    BY <1>6 DEF EndFSR
<1>7. CASE EndIteration
    BY <1>7 DEF EndIteration, resultVars
<1>8. CASE EndSaturate
    BY <1>8 DEF EndSaturate, searchVars
<1> QED BY <1>1, <1>2, <1>3, <1>4, <1>5, <1>6, <1>7, <1>8 DEF Step

\* Every step keeps what holds when saturate has returned.
LEMMA QuietNext ==
  ASSUME SInv, Quiet, [SearchNext]_allVars
  PROVE  Quiet'
<1>1. CASE \/ \E lits \in Inputs : AddClause(lits)
           \/ \E e \in Eventualities : AddEventuality(e)
    <2>1. stage' = "reading"
        BY <1>1 DEF AddClause, AddEventuality, proverVars
    <2> QED BY <2>1 DEF Quiet
<1>2. CASE StartSearch \/ Augment \/ LoopIteration \/ generateResolvents
    <2>1. pc' = "select" /\ stage' \in {"step", "augmented", "iterated", "resolved"}
        BY <1>2 DEF StartSearch, Augment, LoopIteration, generateResolvents, CallSaturate
    <2> QED BY <2>1 DEF Quiet
<1>3. CASE StartRound \/ NextEventuality
    <2>1. /\ stage' = "eventualities" /\ passive' = passive
          /\ \/ stage \in {"augmented", "resolved"} /\ pc = "idle" /\ ~ success
             \/ stage = "eventualities"
        BY <1>3 DEF StartRound, NextEventuality, Back, vars, searchVars
    <2> QED BY <2>1 DEF Quiet
<1>4. CASE NothingNew \/ Contradiction \/ LoopSearch \/ NextCandidate
    <2>1. stage' \in {"done", "candidate"}
        BY <1>4 DEF NothingNew, Contradiction, LoopSearch, NextCandidate, Return
    <2> QED BY <2>1 DEF Quiet
<1>5. CASE LoopReturns
    BY <1>5 DEF LoopReturns, Quiet
<1>6. CASE SaturateStep
    <2>1. Step /\ stage' = stage
        BY <1>6 DEF SaturateStep, proverVars
    <2>2. pc # "idle"
        BY <2>1, StepRuns DEF SInv, SearchTypeOK
    <2>3. stage \notin {"eventualities", "found"}
        BY <2>2 DEF SInv, Control
    <2> QED BY <2>1, <2>3, StepReturns DEF Quiet
<1>7. CASE UNCHANGED allVars
    BY <1>7 DEF allVars, vars, searchVars, resultVars, proverVars, Quiet
<1> QED BY <1>1, <1>2, <1>3, <1>4, <1>5, <1>6, <1>7 DEF SearchNext, ProverStep, Finished

\* An iteration begins.
LEMMA IterationSearches ==
  ASSUME SInv, SearchingInv, LoopIteration
  PROVE  SearchingInv'
<1>1. /\ stage = "candidate" /\ stage' = "iterated" /\ pc = "idle" /\ mode = "loopSearch"
      /\ active' = base /\ passive' = Pushed(stepClauses)
      /\ UNCHANGED <<todo, kept, working, loop, base, saved, events, turn>>
    BY DEF LoopIteration, SInv, Control, loopVars
<1>2. nextId \in Nat /\ EventsOK /\ CandidateOK /\ turn \in DOMAIN events
    BY <1>1 DEF SInv, SearchTypeOK, TypeOK, Control
<1>3. stepClauses \in Seq(Clauses) /\ DOMAIN stepClauses = DOMAIN loop
    BY <1>2, StepClausesParts
<1>4. LitsOf(base) \subseteq Held' /\ LitsOf(Pushed(stepClauses)) \subseteq Held'
    BY <1>1 DEF Held
<1>5. \A c \in Held' : CoveredBy("loopSearch", Held', c)
    BY CoversSubset DEF CoveredBy
<1>6. \A i \in DOMAIN loop : Kept("loopSearch", Held', stepClauses[i])
    BY <1>1, <1>2, <1>3, <1>4, <1>5, PushedLits DEF Kept
<1>7. stepClauses' = stepClauses
    BY <1>1 DEF stepClauses
<1>8. PairsKept("loopSearch", active', Held', LitsOf(base))
    BY <1>1 DEF PairsKept, LitsOf
<1>9. \A i \in DOMAIN loop' : Kept("loopSearch", Held', stepClauses'[i])
    BY <1>1, <1>6, <1>7
<1>10. /\ loop # <<>>
       /\ \A x \in LitsOf(base) : \E c \in LitsOf(saved) : Copied(c, x)
       /\ \A c \in LitsOf(saved) :
            leadingAttribute(c) = "initial" \/ \E x \in LitsOf(base) : Copied(c, x)
    BY <1>1 DEF SearchingInv, inLoopSearch
<1>11. loop' # <<>> /\ LitsOf(base') = LitsOf(base) /\ LitsOf(saved') = LitsOf(saved)
    BY <1>1, <1>10
<1> QED BY <1>4, <1>5, <1>8, <1>9, <1>10, <1>11 DEF SearchingInv

\* A step of saturate in an iteration.
LEMMA SaturateSearches ==
  ASSUME SInv, SearchingInv, SaturateStep
  PROVE  SearchingInv'
<1>1. Step /\ UNCHANGED <<stage, events, turn, loop, saved, base>>
    BY DEF SaturateStep, proverVars, loopVars
<1>2. TypeOK /\ Shape /\ EventsOK /\ CandidateOK /\ UNCHANGED mode
    BY <1>1, StepFrame DEF SInv, SearchTypeOK
<1>3. inLoopSearch' = inLoopSearch /\ LitsOf(base)' = LitsOf(base) /\ LitsOf(saved)' = LitsOf(saved)
      /\ stepClauses' = stepClauses
    BY <1>1 DEF inLoopSearch, stepClauses
<1>4. ASSUME stage = "iterated"
      PROVE  /\ PairsKept("loopSearch", active', Held', LitsOf(base))
             /\ \A x \in LitsOf(base) : CoveredBy("loopSearch", Held', x)
             /\ \A i \in DOMAIN loop : Kept("loopSearch", Held', stepClauses[i])
    <2>1. mode = "loopSearch" /\ mode' = "loopSearch" /\ turn \in DOMAIN events
        BY <1>2, <1>4 DEF SInv, Control
    <2>2. \A c \in Clauses : CoveredBy("loopSearch", Held, c) => CoveredBy("loopSearch", Held', c)
        BY <1>1, <1>2, <2>1, CoverageKept
    <2>3. PairsKept("loopSearch", active', Held', LitsOf(base))
        BY <1>1, <1>2, <1>4, <2>1, PairsStep DEF SearchingInv
    <2>4. LitsOf(base) \subseteq Clauses
        BY DEF SInv, SearchTypeOK, Entries, LitsOf
    <2>5. \A i \in DOMAIN loop : stepClauses[i] \in Clauses
        BY <1>2, <2>1, StepClausesParts
    <2>6. \A i \in DOMAIN loop : Kept("loopSearch", Held', stepClauses[i])
        BY <1>4, <2>2, <2>5, KeptOn DEF SearchingInv
    <2> QED BY <1>4, <2>2, <2>3, <2>4, <2>6 DEF SearchingInv
<1>5. inLoopSearch => loop # <<>>
          /\ (\A x \in LitsOf(base) : \E c \in LitsOf(saved) : Copied(c, x))
          /\ (\A c \in LitsOf(saved) :
                leadingAttribute(c) = "initial" \/ \E x \in LitsOf(base) : Copied(c, x))
    BY DEF SearchingInv
<1> QED BY <1>1, <1>3, <1>4, <1>5 DEF SearchingInv

\* Every step keeps what a loop search has.
LEMMA SearchingNext ==
  ASSUME SInv, SearchingInv, [SearchNext]_allVars
  PROVE  SearchingInv'
<1>1. CASE LoopSearch
    <2>1. /\ stage' = "candidate" /\ saved' = active /\ base' = getForLoop /\ loop' = <<{}>>
        BY <1>1 DEF LoopSearch
    <2>2. loop' # <<>>
        BY <2>1
    <2>3. LitsOf(saved') = LitsOf(active) /\ LitsOf(base') = LitsOf(getForLoop)
        BY <2>1
    <2>4. TypeOK /\ Shape
        BY DEF SInv, SearchTypeOK
    <2> QED BY <2>1, <2>2, <2>3, <2>4, CopiesMade DEF SearchingInv
<1>2. CASE NextCandidate
    <2>1. /\ stage = "iterated" /\ stage' = "candidate" /\ loop' # <<>> /\ UNCHANGED <<saved, base>>
        BY <1>2 DEF NextCandidate, Back
    <2> QED BY <2>1 DEF SearchingInv, inLoopSearch
<1>3. CASE \/ \E lits \in Inputs : AddClause(lits)
           \/ \E e \in Eventualities : AddEventuality(e)
           \/ StartSearch \/ Augment \/ StartRound \/ NothingNew \/ Contradiction
           \/ LoopReturns \/ generateResolvents \/ NextEventuality
    <2>1. stage' \notin {"candidate", "iterated"}
        BY <1>3 DEF AddClause, AddEventuality, StartSearch, Augment, StartRound, NothingNew,
                    Contradiction, LoopReturns, generateResolvents, NextEventuality, Return,
                    proverVars
    <2> QED BY <2>1 DEF SearchingInv, inLoopSearch
<1>4. CASE UNCHANGED allVars
    <2>1. UNCHANGED <<active, passive, todo, kept, working, saved, base, loop, events, turn, stage>>
        BY <1>4 DEF allVars, vars, searchVars, proverVars, loopVars
    <2>2. Held' = Held /\ stepClauses' = stepClauses /\ inLoopSearch' = inLoopSearch
        BY <2>1 DEF Held, stepClauses, inLoopSearch
    <2> QED BY <2>1, <2>2 DEF SearchingInv
<1> QED BY <1>1, <1>2, <1>3, <1>4, IterationSearches, SaturateSearches
        DEF SearchNext, ProverStep, Finished

-----------------------------------------------------------------------------
(***************************************************************************)
(* The rounds.                                                             *)
(***************************************************************************)
ownRuns == runsOf(LitsOf(ownSet))

\* The prover is at an eventuality clause, and nothing has become active
\* since its loop search began.
searching == inLoopSearch \/ stage = "found" \/ (stage = "resolved" /\ clock = since)

\* The eventualities of the clauses before the n-th are not owed for ever.
Settled(P, n) ==
  \A i \in DOMAIN events : i < n => NoDebt(P, events[i].eventuality, nameOf(i))

RoundInv ==
  /\ stage = "resolved" => since <= clock
  /\ stage \in {"found", "resolved"} => loopFound
  /\ searching => HasAll(ownRuns, events[turn].eventuality, loop)
  /\ (searching \/ stage = "eventualities") /\ ~ somethingNew /\ ~ unreported =>
       Settled(ownRuns, turn)
  /\ verdict = "Satisfiable" /\ ~ unreported => Problem
  /\ stage = "eventualities" /\ turn > 1 /\ ~ loopFound =>
       \A Y : Never(ownRuns, events[turn - 1].eventuality, Y) =>
                \A p \in ownRuns : p[1] \notin Y

ExactInv == OwnInv /\ Quiet /\ SearchingInv /\ RoundInv

\* Names do not depend on anything but the problem.
LEMMA SettledSame ==
  ASSUME events' = events, NEW P, NEW n, Settled(P, n)
  PROVE  \A i \in DOMAIN events' : i < n => NoDebt(P, events'[i].eventuality, nameOf(i)')
<1>1. \A i : nameOf(i)' = nameOf(i)
    BY NamesSame DEF nameOf
<1> QED BY <1>1 DEF Settled

\* What the first candidates, and a loop in true, leave out: nothing.
LEMMA AllMoments ==
  ASSUME NEW P, NEW l
  PROVE  HasAll(P, l, <<{}>>) /\ HasAll(P, l, <<>>)
<1>1. \A v : FalsifiedAt(<<{}>>, v)
    BY DEF FalsifiedAt, HoldsAt
<1> QED BY <1>1 DEF HasAll

\* What an iteration leaves when it returns: of the moments of the runs, the
\* next candidate names those from which every run leads at once to a moment
\* of the candidate without the eventuality literal.
LEMMA IterationLeaves ==
  ASSUME SInv, LoopInv, ExactInv, Back("iterated"), ~ success, NEW p \in ownRuns
  PROVE  FalsifiedAt(nextFalse, p[1]) <=>
           \A q \in ownRuns : q[1] = p[1] => Target(loop, events[turn].eventuality, q[2])
<1> DEFINE S == LitsOf(saved)
           R == LitsOf(base)
           H == LitsOf(active)
<1>1. stage = "iterated" /\ pc = "idle" /\ inLoopSearch
    BY DEF Back, inLoopSearch
<1>2. TypeOK /\ Shape /\ EventsOK /\ CandidateOK /\ turn \in DOMAIN events
      /\ Activated(active) /\ Activated(saved)
    BY <1>1 DEF SInv, SearchTypeOK, SetsOK, Control
<1>3. passive = {} /\ Held = H
    BY <1>1, <1>2, IdleHeld DEF ExactInv, Quiet
<1>4. Proper(S) /\ Resolved("normal", S) /\ \A c \in S : isCorrect("normal", c)
    BY <1>1, OwnSaturated DEF ExactInv, OwnInv, ownHeld
<1>5. /\ loop # <<>>
      /\ \A x \in R : \E c \in S : Copied(c, x)
      /\ \A c \in S : leadingAttribute(c) = "initial" \/ \E x \in R : Copied(c, x)
      /\ PairsKept("loopSearch", active, H, R)
      /\ \A x \in R : CoveredBy("loopSearch", H, x)
      /\ \A i \in DOMAIN loop : Kept("loopSearch", H, stepClauses[i])
    BY <1>1, <1>3 DEF ExactInv, SearchingInv
<1>6. Proper(H) /\ \A c \in H : StepKind(c)
    BY <1>1, <1>2, <1>3, ActivatedProper DEF LoopInv, IterationOK
<1>7. \A c, d \in H :
        Complementary(c, d) =>
          \A r \in resolveMaximals("loopSearch", c, d) :
            {c, d} \subseteq R \/ CoveredBy("loopSearch", H, r)
    BY <1>2, <1>5, AllPairs
<1>8. ownRuns = runsOf(S)
    BY <1>1 DEF ownRuns, ownSet
<1>9. ASSUME FalsifiedAt(nextFalse, p[1]), NEW q \in ownRuns, q[1] = p[1]
      PROVE  Target(loop, events[turn].eventuality, q[2])
    <2>1. PICK i \in DOMAIN nextFalse : ~ HoldsAt(nextFalse[i], p[1], p[1])
        BY <1>9 DEF FalsifiedAt
    <2>2. /\ \A k \in nextFalse[i] : k.attr = "step_now"
          /\ \E e \in active : nextFalse[i] = e.lits
        BY <1>2, NextFalseParts
    <2>3. nextFalse[i] \in Held
        BY <2>2 DEF Held, LitsOf
    <2>4. ~ HoldsAt(nextFalse[i], q[1], q[2])
        <3>1. \A k \in nextFalse[i] : HoldsLit(k, p[1], p[1]) = HoldsLit(k, p[1], q[2])
            BY <2>2 DEF HoldsLit
        <3> QED BY <1>9, <2>1, <3>1 DEF HoldsAt
    <2>5. Obeys(ownRuns, S)
        <3>1. Continuing(ownRuns)
            BY <1>8, RunsContinue
        <3>2. \A c \in S : ~ IsInitial(c) => \A e \in ownRuns : HoldsAt(c, e[1], e[2])
            BY <1>8 DEF runsOf, Transitions
        <3> QED BY <3>1, <3>2 DEF Obeys
    <2> QED BY <1>1, <2>3, <2>4, <2>5 DEF LoopInv, IterationOK
<1> HIDE DEF S, R, H
<1>10. ASSUME \A q \in ownRuns : q[1] = p[1] => Target(loop, events[turn].eventuality, q[2])
       PROVE  FalsifiedAt(nextFalse, p[1])
    <2>1. PICK c \in H : leadingAttribute(c) = "step_now" /\ ~ HoldsAt(c, p[1], p[1])
        BY <1>2, <1>4, <1>5, <1>6, <1>7, <1>8, <1>10, IterationComplete
    <2>2. PICK e \in active : e.lits = c
        BY DEF H, LitsOf
    <2>3. PICK i \in DOMAIN nextFalse : nextFalse[i] = c
        BY <1>2, <2>1, <2>2, NextFalseParts
    <2> QED BY <2>1, <2>3 DEF FalsifiedAt
<1> QED BY <1>9, <1>10

\* So the next candidate leaves out no moment at which the eventuality could
\* be owed for ever, if the candidate does not.
LEMMA IterationHasAll ==
  ASSUME SInv, LoopInv, ExactInv, Back("iterated"), ~ success,
         NEW Y, Never(ownRuns, events[turn].eventuality, Y),
         NEW p \in ownRuns, p[1] \in Y
  PROVE  FalsifiedAt(nextFalse, p[1])
<1>1. stage = "iterated" /\ inLoopSearch
    BY DEF Back, inLoopSearch
<1>2. loop # <<>> /\ HasAll(ownRuns, events[turn].eventuality, loop)
    BY <1>1 DEF ExactInv, SearchingInv, RoundInv, searching
<1>3. ASSUME NEW q \in ownRuns, q[1] = p[1]
      PROVE  Target(loop, events[turn].eventuality, q[2])
    <2>1. q[2] \in Y /\ ~ HoldsLit(events[turn].eventuality, q[2], q[2])
        BY <1>3 DEF Never
    <2>2. PICK w : <<q[2], w>> \in ownRuns
        BY RunsContinue DEF Continuing, ownRuns
    <2> DEFINE r == <<q[2], w>>
    <2>3. r \in ownRuns /\ r[1] = q[2]
        BY <2>2
    <2> HIDE DEF r
    <2> QED BY <1>2, <2>1, <2>3 DEF HasAll, Target
<1> QED BY <1>3, IterationLeaves

\* A step at which nothing changes that the rounds depend on.
LEMMA RoundRest ==
  ASSUME RoundInv,
         UNCHANGED <<events, given, verdict, somethingNew, unreported, loop, turn, loopFound>>,
         stage' = "resolved" => since' <= clock',
         stage' \in {"found", "resolved"} => stage \in {"found", "resolved"},
         searching' => searching /\ ownSet' = ownSet,
         stage' = "eventualities" => stage = "eventualities" /\ ownSet' = ownSet
  PROVE  RoundInv'
<1>1. Problem' = Problem
    BY DEF Problem
<1>2. ownSet' = ownSet => ownRuns' = ownRuns
    BY DEF ownRuns
<1>3. searching' => HasAll(ownRuns', events'[turn'].eventuality, loop')
    BY <1>2 DEF RoundInv
<1>4. ASSUME searching' \/ stage' = "eventualities", ~ somethingNew', ~ unreported'
      PROVE  Settled(ownRuns, turn)'
    <2>1. Settled(ownRuns, turn) /\ ownRuns' = ownRuns /\ turn' = turn
        BY <1>2, <1>4 DEF RoundInv
    <2> QED BY <2>1, SettledSame DEF Settled
<1>5. ASSUME stage' = "eventualities", turn' > 1, ~ loopFound',
             NEW Y, Never(ownRuns', events'[turn' - 1].eventuality, Y), NEW p \in ownRuns'
      PROVE  p[1] \notin Y
    BY <1>2, <1>5 DEF RoundInv
<1>6. stage' \in {"found", "resolved"} => loopFound'
    BY DEF RoundInv
<1>7. verdict' = "Satisfiable" /\ ~ unreported' => Problem'
    BY <1>1 DEF RoundInv
<1> QED BY <1>3, <1>4, <1>5, <1>6, <1>7 DEF RoundInv

\* Activation is the only step of saturate that changes Active.
LEMMA StepClock ==
  ASSUME Step, clock \in Nat, clock' = clock
  PROVE  active' = active
<1>1. ASSUME NEW c \in passive, SelectRedundant(c) PROVE active' = active
    BY <1>1 DEF SelectRedundant
<1>2. ASSUME NEW c \in passive, Activate(c) PROVE active' = active
    <2>1. clock' = clock + 1
        BY <1>2 DEF Activate
    <2> QED BY <2>1
<1>3. ASSUME NEW p \in todo, Simplify(p) PROVE active' = active
    BY <1>3 DEF Simplify
<1>4. ASSUME NEW p \in kept, Insert(p) PROVE active' = active
    BY <1>4 DEF Insert
<1>5. ASSUME NEW p \in working, NEW l \in untried, SimplifyByFS(p, l) PROVE active' = active
    BY <1>5 DEF SimplifyByFS
<1>6. CASE EndFSR
    BY <1>6 DEF EndFSR
<1>7. CASE EndIteration
    BY <1>7 DEF EndIteration, searchVars
<1>8. CASE EndSaturate
    BY <1>8 DEF EndSaturate, searchVars
<1> QED BY <1>1, <1>2, <1>3, <1>4, <1>5, <1>6, <1>7, <1>8 DEF Step

\* A step of saturate in a round.
LEMMA SaturateRounds ==
  ASSUME SInv, RoundInv, SaturateStep
  PROVE  RoundInv'
<1>1. /\ Step
      /\ UNCHANGED <<stage, events, turn, somethingNew, verdict, since, unreported, saved, loop, loopFound>>
    BY DEF SaturateStep, proverVars, loopVars
<1>2. TypeOK /\ Shape /\ Activated(active) /\ since \in Nat /\ clock \in Nat
    BY DEF SInv, SearchTypeOK, SetsOK, TypeOK
<1>3. clock' \in Nat /\ clock <= clock' /\ given' = given
    BY <1>1, <1>2, StepActivated, StepFrame
<1>4. pc # "idle"
    BY <1>1, <1>2, StepRuns
<1>5. stage \notin {"found", "eventualities"}
    BY <1>4 DEF SInv, Control
<1>6. stage' = "resolved" => since' <= clock'
    BY <1>1, <1>2, <1>3 DEF RoundInv
<1>7. ASSUME searching'
      PROVE  searching /\ ownSet' = ownSet
    <2>1. CASE inLoopSearch
        BY <1>1, <2>1 DEF searching, ownSet, inLoopSearch
    <2>2. CASE ~ inLoopSearch
        <3>1. stage = "resolved" /\ clock' = since
            BY <1>1, <1>5, <1>7, <2>2 DEF searching, inLoopSearch
        <3>2. clock = since /\ clock' = clock
            BY <1>2, <1>3, <3>1 DEF RoundInv
        <3>3. active' = active
            BY <1>1, <1>2, <3>2, StepClock
        <3> QED BY <1>1, <3>1, <3>2, <3>3 DEF searching, ownSet, inLoopSearch
    <2> QED BY <2>1, <2>2
<1> QED BY <1>1, <1>3, <1>5, <1>6, <1>7, RoundRest

\* A loop search begins, and each of its iterations.
LEMMA BeginRounds ==
  ASSUME SInv, RoundInv, LoopSearch \/ LoopIteration
  PROVE  RoundInv'
<1>1. CASE LoopIteration
    <2>1. /\ stage = "candidate" /\ stage' = "iterated"
          /\ UNCHANGED <<events, given, verdict, somethingNew, unreported, loop, turn, loopFound, saved>>
        BY <1>1 DEF LoopIteration, callerVars, loopVars
    <2>2. searching /\ ownSet' = ownSet
        BY <2>1 DEF searching, inLoopSearch, ownSet
    <2> QED BY <2>1, <2>2, RoundRest
<1>2. CASE LoopSearch
    <2>1. /\ stage = "eventualities" /\ stage' = "candidate" /\ saved' = active /\ loop' = <<{}>>
          /\ UNCHANGED <<events, given, verdict, somethingNew, unreported, turn>>
        BY <1>2 DEF LoopSearch
    <2>2. ownSet' = ownSet /\ ownRuns' = ownRuns
        BY <2>1 DEF ownSet, inLoopSearch, ownRuns
    <2>3. HasAll(ownRuns', events'[turn'].eventuality, loop')
        BY <2>1, AllMoments
    <2>4. ASSUME ~ somethingNew', ~ unreported'
          PROVE  Settled(ownRuns, turn)'
        <3>1. Settled(ownRuns, turn)
            BY <2>1, <2>4 DEF RoundInv
        <3> QED BY <2>1, <2>2, <3>1, SettledSame DEF Settled
    <2>5. verdict' # "Satisfiable"
        BY <2>1 DEF SInv, Control
    <2> QED BY <2>1, <2>3, <2>4, <2>5 DEF RoundInv
<1> QED BY <1>1, <1>2

\* The next candidate.
LEMMA CandidateRounds ==
  ASSUME SInv, LoopInv, ExactInv, NextCandidate
  PROVE  RoundInv'
<1>1. /\ Back("iterated") /\ ~ success /\ stage = "iterated" /\ stage' = "candidate"
      /\ loop' = nextFalse
      /\ UNCHANGED <<events, given, verdict, somethingNew, unreported, turn, saved>>
    BY DEF NextCandidate, Back, vars, callerVars
<1>2. ownSet' = ownSet /\ ownRuns' = ownRuns /\ searching
    BY <1>1 DEF ownSet, inLoopSearch, ownRuns, searching
<1>3. HasAll(ownRuns', events'[turn'].eventuality, loop')
    BY <1>1, <1>2, IterationHasAll DEF HasAll
<1>4. ASSUME ~ somethingNew', ~ unreported'
      PROVE  Settled(ownRuns, turn)'
    <2>1. Settled(ownRuns, turn)
        BY <1>1, <1>2, <1>4 DEF ExactInv, RoundInv
    <2> QED BY <1>1, <1>2, <2>1, SettledSame DEF Settled
<1>5. verdict' # "Satisfiable"
    BY <1>1 DEF SInv, Control
<1> QED BY <1>1, <1>3, <1>4, <1>5 DEF RoundInv

\* The loop search returns: a loop that leaves nothing out, or none, and then
\* the eventuality is not owed for ever.
LEMMA LoopReturnsRounds ==
  ASSUME SInv, LoopInv, ExactInv, LoopReturns
  PROVE  RoundInv'
<1> DEFINE l == events[turn].eventuality
<1>1. /\ Back("iterated") /\ stage = "iterated" /\ active' = saved
      /\ UNCHANGED <<events, given, verdict, somethingNew, unreported>>
      /\ stage' = IF loopFound' THEN "found" ELSE "eventualities"
      /\ turn' = IF loopFound' THEN turn ELSE turn + 1
      /\ \/ success /\ loop' = <<>> /\ loopFound' = TRUE
         \/ ~ success /\ nextFalse = <<>> /\ loopFound' = FALSE
         \/ ~ success /\ loop' = nextFalse /\ loopFound' = TRUE
    BY DEF LoopReturns, Back
<1>2. ownSet' = ownSet /\ ownRuns' = ownRuns /\ searching
    BY <1>1 DEF ownSet, inLoopSearch, ownRuns, searching
<1>3. verdict' # "Satisfiable"
    BY <1>1 DEF SInv, Control
<1>4. EventsOK /\ turn \in DOMAIN events
    BY <1>1 DEF SInv, Control
<1>5. ASSUME ~ somethingNew, ~ unreported
      PROVE  Settled(ownRuns, turn)
    BY <1>2, <1>5 DEF ExactInv, RoundInv
<1>6. CASE loopFound' = TRUE
    <2>1. stage' = "found" /\ turn' = turn
        BY <1>1, <1>6
    <2>2. HasAll(ownRuns, l, loop')
        <3>1. CASE success /\ loop' = <<>>
            BY <3>1, AllMoments
        <3>2. CASE ~ success /\ loop' = nextFalse
            BY <1>1, <3>2, IterationHasAll DEF HasAll
        <3> QED BY <1>1, <1>6, <3>1, <3>2
    <2>3. ASSUME ~ somethingNew', ~ unreported'
          PROVE  Settled(ownRuns, turn)'
        <3>1. Settled(ownRuns, turn)
            BY <1>1, <1>5, <2>3
        <3> QED BY <1>1, <1>2, <2>1, <3>1, SettledSame DEF Settled
    <2>4. HasAll(ownRuns', events'[turn'].eventuality, loop')
        BY <1>1, <1>2, <2>1, <2>2
    <2> QED BY <1>3, <1>6, <2>1, <2>3, <2>4 DEF RoundInv
<1>7. CASE loopFound' = FALSE
    <2>1. stage' = "eventualities" /\ turn' = turn + 1 /\ ~ success /\ nextFalse = <<>>
        BY <1>1, <1>7
    <2>2. ASSUME NEW Y, Never(ownRuns, l, Y), NEW p \in ownRuns, p[1] \in Y
          PROVE  FALSE
        <3>1. FalsifiedAt(nextFalse, p[1])
            BY <1>1, <2>1, <2>2, IterationHasAll
        <3> QED BY <2>1, <3>1 DEF FalsifiedAt
    <2>3. NoDebt(ownRuns, l, nameOf(turn))
        BY <2>2 DEF NoDebt, Never
    <2>4. turn \in Nat /\ DOMAIN events = 1..Len(events) /\ Len(events) \in Nat
        BY <1>4 DEF EventsOK
    <2>5. ASSUME ~ somethingNew', ~ unreported'
          PROVE  Settled(ownRuns, turn)'
        <3>1. Settled(ownRuns, turn)
            BY <1>1, <1>5, <2>5
        <3>2. \A i \in DOMAIN events : i < turn + 1 => i < turn \/ i = turn
            BY <2>4
        <3>3. Settled(ownRuns, turn + 1)
            BY <2>3, <3>1, <3>2 DEF Settled
        <3> QED BY <1>1, <1>2, <2>1, <3>3, SettledSame DEF Settled
    <2>6. turn' - 1 = turn
        BY <2>1, <2>4
    <2>7. \A Y : Never(ownRuns', events'[turn' - 1].eventuality, Y) => \A p \in ownRuns' : p[1] \notin Y
        BY <1>1, <1>2, <2>2, <2>6
    <2>8. ~ searching'
        BY <2>1 DEF searching, inLoopSearch
    <2> QED BY <1>3, <1>7, <2>1, <2>5, <2>7, <2>8 DEF RoundInv
<1> QED BY <1>1, <1>6, <1>7

\* Temporal resolvents are added.
LEMMA ResolventsRound ==
  ASSUME SInv, RoundInv, generateResolvents
  PROVE  RoundInv'
<1>1. /\ stage = "found" /\ stage' = "resolved" /\ since' = clock /\ clock' = clock
      /\ UNCHANGED <<active, events, given, verdict, somethingNew, unreported, loop, turn, loopFound>>
    BY DEF generateResolvents, loopVars
<1>2. ownSet' = ownSet /\ searching /\ clock \in Nat
    BY <1>1 DEF ownSet, inLoopSearch, searching, SInv, SearchTypeOK, TypeOK
<1> QED BY <1>1, <1>2, RoundRest

\* After the saturation with them: if nothing became active the eventuality
\* is not owed for ever.
LEMMA EventualityRounds ==
  ASSUME SInv, ExactInv, NextEventuality
  PROVE  RoundInv'
<1>1. /\ stage = "resolved" /\ pc = "idle" /\ ~ success /\ stage' = "eventualities"
      /\ somethingNew' = (somethingNew \/ anythingNew)
      /\ turn' = IF anythingNew /\ DFS THEN Len(events) + 1 ELSE turn + 1
      /\ unreported' = (unreported \/ (~ anythingNew /\ clock > since))
      /\ UNCHANGED <<active, events, given, verdict, loopFound>>
    BY DEF NextEventuality, Back, vars, searchVars, callerVars, loopVars
<1>2. verdict' # "Satisfiable" /\ loopFound' /\ ~ searching'
    BY <1>1 DEF SInv, Control, ExactInv, RoundInv, searching, inLoopSearch
<1>3. ASSUME ~ somethingNew', ~ unreported'
      PROVE  Settled(ownRuns, turn)'
    <2>1. ~ somethingNew /\ ~ anythingNew /\ ~ unreported /\ ~ (clock > since)
        BY <1>1, <1>3
    <2>2. clock \in Nat /\ since \in Nat /\ since <= clock
        BY <1>1 DEF SInv, SearchTypeOK, TypeOK, ExactInv, RoundInv
    <2>3. clock = since
        BY <2>1, <2>2
    <2>4. searching
        BY <1>1, <2>3 DEF searching
    <2>5. Settled(ownRuns, turn) /\ HasAll(ownRuns, events[turn].eventuality, loop)
        BY <2>1, <2>4 DEF ExactInv, RoundInv
    <2>6. EventsOK /\ CandidateOK /\ turn \in DOMAIN events
        BY <1>1 DEF SInv, Control
    <2>7. passive = {}
        BY <1>1 DEF ExactInv, Quiet
    <2>8. ownHeld = LitsOf(ownSet) /\ Proper(ownHeld) /\ ResolventStepsKept(ownHeld)
        BY <1>1, <2>7, OwnSaturated DEF ExactInv, OwnInv
    <2>9. NoDebt(ownRuns, events[turn].eventuality, nameOf(turn))
        BY <2>5, <2>6, <2>8, DebtSettled DEF ResolventStepsKept, ownRuns, nameOf
    <2>10. turn' = turn + 1 /\ ownRuns' = ownRuns
        BY <1>1, <2>1 DEF ownRuns, ownSet, inLoopSearch
    <2>11. \A i \in DOMAIN events : i < turn + 1 => i < turn \/ i = turn
        BY <2>6 DEF EventsOK
    <2>12. Settled(ownRuns, turn + 1)
        BY <2>5, <2>9, <2>11 DEF Settled
    <2> QED BY <1>1, <2>10, <2>12, SettledSame DEF Settled
<1> QED BY <1>1, <1>2, <1>3 DEF RoundInv

\* The answer Satisfiable.
LEMMA NothingNewRight ==
  ASSUME SInv, RightInv, ExactInv, NothingNew
  PROVE  RoundInv'
<1>1. /\ stage = "eventualities" /\ turn > Len(events) /\ ~ somethingNew
      /\ stage' = "done" /\ UNCHANGED <<events, given, unreported>>
    BY DEF NothingNew, Return, vars, callerVars
<1>2. EventsOK /\ pc = "idle" /\ passive = {} /\ turn \in 1..(Len(events) + 1)
    BY <1>1 DEF SInv, Control, ExactInv, Quiet
<1>3. ASSUME ~ unreported
      PROVE  Problem
    <2>1. Settled(ownRuns, turn)
        BY <1>1, <1>3 DEF ExactInv, RoundInv
    <2>2. \A i \in DOMAIN events : i < turn
        BY <1>1, <1>2 DEF EventsOK
    <2>3. \A i \in DOMAIN events :
            NoDebt(ownRuns, events[i].eventuality, makeLiteral(events[i].eventuality).prop)
        BY <2>1, <2>2 DEF Settled, nameOf
    <2>4. /\ ownHeld = LitsOf(ownSet) /\ Proper(ownHeld) /\ Resolved("normal", ownHeld)
        BY <1>2, OwnSaturated DEF ExactInv
    <2>5. /\ \A d \in given : CoveredBy("normal", ownHeld, d)
          /\ AddedKept(ownHeld)
        BY <1>1 DEF ExactInv, OwnInv
    <2>6. given \subseteq Inputs
        BY DEF RightInv
    <2> QED BY <1>2, <2>3, <2>4, <2>5, <2>6, SaturatedProblem DEF AddedKept, ownRuns
<1>4. Problem' = Problem
    BY <1>1 DEF Problem
<1>5. ~ searching'
    BY <1>1 DEF searching, inLoopSearch
<1> QED BY <1>1, <1>3, <1>4, <1>5 DEF RoundInv

\* What comes before the rounds, a contradiction, and the start of a round.
LEMMA OtherRounds ==
  ASSUME SInv, RoundInv,
         \/ \E lits \in Inputs : AddClause(lits)
         \/ \E e \in Eventualities : AddEventuality(e)
         \/ StartSearch \/ Augment \/ Contradiction \/ StartRound \/ UNCHANGED allVars
  PROVE  RoundInv'
<1>1. CASE \/ \E lits \in Inputs : AddClause(lits)
           \/ \E e \in Eventualities : AddEventuality(e)
           \/ StartSearch \/ Augment
    <2>1. stage' \in {"reading", "step", "augmented"} /\ stage # "done" /\ verdict' = verdict
        BY <1>1 DEF AddClause, AddEventuality, StartSearch, Augment, Back, proverVars
    <2>2. verdict' = "none" /\ ~ searching'
        BY <2>1 DEF SInv, Control, searching, inLoopSearch
    <2> QED BY <2>1, <2>2 DEF RoundInv
<1>2. CASE Contradiction
    <2>1. stage' = "done" /\ verdict' = "Unsatisfiable"
        BY <1>2 DEF Contradiction, Return
    <2>2. ~ searching'
        BY <2>1 DEF searching, inLoopSearch
    <2> QED BY <2>1, <2>2 DEF RoundInv
<1>3. CASE StartRound
    <2>1. stage' = "eventualities" /\ turn' = 1 /\ verdict' = verdict /\ stage # "done" /\ events' = events
        BY <1>3 DEF StartRound, Back
    <2>2. verdict' = "none" /\ ~ searching'
        BY <2>1 DEF SInv, Control, searching, inLoopSearch
    <2>3. Settled(ownRuns, turn)'
        <3>1. \A i \in DOMAIN events : ~ (i < 1)
            BY DEF SInv, EventsOK
        <3> QED BY <2>1, <3>1 DEF Settled
    <2> QED BY <2>1, <2>2, <2>3 DEF RoundInv
<1>4. CASE UNCHANGED allVars
    <2>1. UNCHANGED <<events, given, verdict, somethingNew, unreported, loop, turn, loopFound,
                      stage, since, clock, active, saved>>
        BY <1>4 DEF allVars, vars, searchVars, callerVars, proverVars, loopVars
    <2>2. searching' = searching /\ ownSet' = ownSet
        BY <2>1 DEF searching, ownSet, inLoopSearch
    <2> QED BY <2>1, <2>2, RoundRest DEF RoundInv
<1> QED BY <1>1, <1>2, <1>3, <1>4

\* Every step keeps it.
LEMMA ExactNext ==
  ASSUME SInv, LoopInv, RightInv, ExactInv, [SearchNext]_allVars
  PROVE  ExactInv'
<1>1. OwnInv' /\ Quiet' /\ SearchingInv'
    BY OwnNext, QuietNext, SearchingNext DEF ExactInv
<1>2. RoundInv'
    <2>1. RoundInv
        BY DEF ExactInv
    <2> QED BY <2>1, SaturateRounds, BeginRounds, CandidateRounds, LoopReturnsRounds, ResolventsRound,
               EventualityRounds, NothingNewRight, OtherRounds
            DEF SearchNext, ProverStep, Finished
<1> QED BY <1>1, <1>2 DEF ExactInv

\* It holds.
LEMMA ExactInvariance == SearchSpec => [](SInv /\ LoopInv /\ RightInv /\ ExactInv)
<1>1. SearchInit => SInv
    BY InitSInv
<1>2. SearchInit => LoopInv
    BY DEF SearchInit, Init, LoopInv, Refuted
<1>3. SearchInit => RightInv
    <2> SUFFICES ASSUME SearchInit PROVE RightInv
        OBVIOUS
    <2>1. Held = {} /\ given = {} /\ stage = "reading" /\ verdict = "none"
        BY DEF SearchInit, Init, Held, LitsOf
    <2> QED BY <2>1 DEF RightInv, Facts
<1>4. SearchInit => ExactInv
    <2> SUFFICES ASSUME SearchInit PROVE ExactInv
        OBVIOUS
    <2>1. Held = {} /\ given = {} /\ active = {} /\ stage = "reading" /\ verdict = "none"
        BY DEF SearchInit, Init, Held, LitsOf
    <2>2. ~ inLoopSearch /\ ~ searching /\ ownSet = {} /\ ownHeld = {}
        BY <2>1 DEF inLoopSearch, searching, ownSet, ownHeld
    <2> QED BY <2>1, <2>2 DEF ExactInv, OwnInv, Quiet, SearchingInv, RoundInv, PairsKept
<1>5. SInv /\ LoopInv /\ RightInv /\ ExactInv /\ [SearchNext]_allVars
        => SInv' /\ LoopInv' /\ RightInv' /\ ExactInv'
    BY SInvNext, LoopInvNext, RightNext, ExactNext
<1> QED BY <1>1, <1>2, <1>3, <1>4, <1>5, PTL DEF SearchSpec

-----------------------------------------------------------------------------
(***************************************************************************)
(* The candidates of one loop search.                                      *)
(***************************************************************************)
\* Every run from v leads at once to a moment of the candidate without the
\* eventuality literal.
AllLead(v) == \A q \in ownRuns : q[1] = v => Target(loop, events[turn].eventuality, q[2])

\* Of the moments of the runs, the candidate has all those.
ShrinkInv == inLoopSearch => \A p \in ownRuns : AllLead(p[1]) => FalsifiedAt(loop, p[1])

\* Every step keeps that.
LEMMA ShrinkNext ==
  ASSUME SInv, LoopInv, ExactInv, ShrinkInv, [SearchNext]_allVars
  PROVE  ShrinkInv'
<1>1. CASE LoopSearch
    <2>1. loop' = <<{}>>
        BY <1>1 DEF LoopSearch
    <2>2. \A v : FalsifiedAt(loop', v)
        BY <2>1 DEF FalsifiedAt, HoldsAt
    <2> QED BY <2>2 DEF ShrinkInv
<1>2. CASE LoopIteration \/ SaturateStep \/ UNCHANGED allVars
    <2>1. UNCHANGED <<events, turn, loop, saved>> /\ (inLoopSearch' => inLoopSearch)
        BY <1>2 DEF LoopIteration, SaturateStep, proverVars, loopVars, allVars, inLoopSearch
    <2>2. inLoopSearch' => ownRuns' = ownRuns
        BY <2>1 DEF ownRuns, ownSet
    <2> QED BY <2>1, <2>2 DEF ShrinkInv, AllLead
<1>3. CASE NextCandidate
    <2>1. /\ Back("iterated") /\ ~ success /\ stage = "iterated" /\ stage' = "candidate"
          /\ loop' = nextFalse /\ UNCHANGED <<events, turn, saved>>
        BY <1>3 DEF NextCandidate, Back
    <2>2. inLoopSearch /\ ownRuns' = ownRuns
        BY <2>1 DEF inLoopSearch, ownRuns, ownSet
    <2>3. ASSUME NEW p \in ownRuns, NEW q \in ownRuns, q[1] = p[1],
                 Target(nextFalse, events[turn].eventuality, q[2])
          PROVE  Target(loop, events[turn].eventuality, q[2])
        <3>1. PICK w : <<q[2], w>> \in ownRuns
            BY RunsContinue DEF Continuing, ownRuns
        <3> DEFINE r == <<q[2], w>>
        <3>2. r \in ownRuns /\ r[1] = q[2]
            BY <3>1
        <3> HIDE DEF r
        <3>3. FalsifiedAt(nextFalse, r[1])
            BY <2>3, <3>2 DEF Target
        <3>4. AllLead(r[1])
            BY <2>1, <3>2, <3>3, IterationLeaves DEF AllLead
        <3>5. FalsifiedAt(loop, q[2])
            BY <2>2, <3>2, <3>4 DEF ShrinkInv
        <3> QED BY <2>3, <3>5 DEF Target
    <2>4. ASSUME NEW p \in ownRuns,
                 \A q \in ownRuns : q[1] = p[1] => Target(nextFalse, events[turn].eventuality, q[2])
          PROVE  FalsifiedAt(nextFalse, p[1])
        <3>1. \A q \in ownRuns : q[1] = p[1] => Target(loop, events[turn].eventuality, q[2])
            BY <2>3, <2>4
        <3> QED BY <2>1, <3>1, IterationLeaves
    <2> QED BY <2>1, <2>2, <2>4 DEF ShrinkInv, AllLead
<1>4. CASE \/ \E lits \in Inputs : AddClause(lits)
           \/ \E e \in Eventualities : AddEventuality(e)
           \/ StartSearch \/ Augment \/ StartRound \/ NothingNew \/ Contradiction
           \/ LoopReturns \/ generateResolvents \/ NextEventuality
    <2>1. ~ inLoopSearch'
        BY <1>4 DEF AddClause, AddEventuality, StartSearch, Augment, StartRound, NothingNew,
                    Contradiction, LoopReturns, generateResolvents, NextEventuality, Return,
                    proverVars, inLoopSearch
    <2> QED BY <2>1 DEF ShrinkInv
<1> QED BY <1>1, <1>2, <1>3, <1>4 DEF SearchNext, ProverStep, Finished

\* From one candidate to the next: a moment of the runs of the prover's
\* clauses is in the next candidate exactly if every run from it leads at once
\* to a moment of the candidate at which the eventuality literal is false, and
\* then it is in the candidate too.
THEOREM CandidatesShrink ==
  SearchSpec =>
    [][stage = "iterated" /\ stage' = "candidate" =>
         \A v \in Alive(Transitions(LitsOf(saved))) :
           /\ InLoop(v)' <=>
                \A q \in runsOf(LitsOf(saved)) :
                  q[1] = v => InLoop(q[2]) /\ ~ HoldsLit(events[turn].eventuality, q[2], q[2])
           /\ InLoop(v)' => InLoop(v)]_allVars
<1> DEFINE Shrinking ==
      stage = "iterated" /\ stage' = "candidate" =>
         \A v \in Alive(Transitions(LitsOf(saved))) :
           /\ InLoop(v)' <=>
                \A q \in runsOf(LitsOf(saved)) :
                  q[1] = v => InLoop(q[2]) /\ ~ HoldsLit(events[turn].eventuality, q[2], q[2])
           /\ InLoop(v)' => InLoop(v)
<1>1. ASSUME SInv, LoopInv, ExactInv, ShrinkInv, [SearchNext]_allVars
      PROVE  Shrinking
    <2> SUFFICES ASSUME stage = "iterated", stage' = "candidate",
                        NEW v \in Alive(Transitions(LitsOf(saved)))
                 PROVE  /\ InLoop(v)' <=>
                             \A q \in runsOf(LitsOf(saved)) :
                               q[1] = v => InLoop(q[2])
                                           /\ ~ HoldsLit(events[turn].eventuality, q[2], q[2])
                        /\ InLoop(v)' => InLoop(v)
        OBVIOUS
    <2>1. NextCandidate
        BY <1>1 DEF SearchNext, ProverStep, Finished, AddClause, AddEventuality, StartSearch,
                    Augment, StartRound, NothingNew, Contradiction, LoopSearch, LoopIteration,
                    LoopReturns, generateResolvents, NextEventuality, SaturateStep, Return, Back,
                    proverVars, allVars
    <2>2. Back("iterated") /\ ~ success /\ loop' = nextFalse /\ nextFalse # <<>>
        BY <2>1 DEF NextCandidate
    <2>3. inLoopSearch /\ ownRuns = runsOf(LitsOf(saved)) /\ loop # <<>>
        BY <1>1 DEF inLoopSearch, ownRuns, ownSet, ExactInv, SearchingInv
    <2>4. \A x : (InLoop(x)' <=> FalsifiedAt(nextFalse, x)) /\ (InLoop(x) <=> FalsifiedAt(loop, x))
        BY <2>2, <2>3 DEF InLoop, FalsifiedAt
    <2>5. PICK w : <<v, w>> \in ownRuns
        BY <2>3, RunsContinue
    <2> DEFINE p == <<v, w>>
    <2>6. p \in ownRuns /\ p[1] = v
        BY <2>5
    <2> HIDE DEF p
    <2>7. InLoop(v)' <=> AllLead(v)
        BY <1>1, <2>2, <2>4, <2>6, IterationLeaves DEF AllLead
    <2>8. AllLead(v) <=> \A q \in runsOf(LitsOf(saved)) :
                            q[1] = v => InLoop(q[2])
                                        /\ ~ HoldsLit(events[turn].eventuality, q[2], q[2])
        BY <2>3, <2>4 DEF AllLead, Target
    <2>9. AllLead(v) => InLoop(v)
        BY <1>1, <2>3, <2>4, <2>6 DEF ShrinkInv
    <2> QED BY <2>7, <2>8, <2>9
<1>2. SearchInit => ShrinkInv
    BY DEF SearchInit, ShrinkInv, inLoopSearch
<1>3. SInv /\ LoopInv /\ ExactInv /\ ShrinkInv /\ [SearchNext]_allVars => ShrinkInv'
    BY ShrinkNext
<1>4. SInv /\ LoopInv /\ ExactInv /\ ShrinkInv /\ [SearchNext]_allVars => Shrinking
    BY <1>1
<1> HIDE DEF Shrinking
<1>5. SearchSpec => [][Shrinking]_allVars
    BY <1>2, <1>3, <1>4, ExactInvariance, PTL DEF SearchSpec
<1> QED BY <1>5 DEF Shrinking

-----------------------------------------------------------------------------
\* The prover answers Satisfiable only of a problem that has a model, unless
\* in its last round a temporal resolvent became active and saturate did not
\* say so: the saturated set that it stops with keeps the problem, and along
\* the runs of its clauses every eventuality that is owed is paid, since loop
\* search left no moment out at which it could be owed for ever.
THEOREM SatisfiableRight == SearchSpec => []SatisfiableIfReported
<1>1. ExactInv => SatisfiableIfReported
    BY DEF ExactInv, RoundInv, SatisfiableIfReported
<1> QED BY <1>1, ExactInvariance, PTL

\* Loop search leaves nothing out: of the moments that the runs of the
\* prover's clauses pass, every set that they cannot leave and in which the
\* eventuality literal is false from the second moment on lies in the loop it
\* found, and when it has found none there is no such set.
THEOREM LoopHasAll ==
  SearchSpec =>
    [](LET P == runsOf(LitsOf(active))
       IN  /\ stage = "found" => HasAll(P, events[turn].eventuality, loop)
           /\ stage = "eventualities" /\ turn > 1 /\ ~ loopFound =>
                \A Y : Never(P, events[turn - 1].eventuality, Y) => \A p \in P : p[1] \notin Y)
<1> DEFINE All ==
      LET P == runsOf(LitsOf(active))
      IN  /\ stage = "found" => HasAll(P, events[turn].eventuality, loop)
          /\ stage = "eventualities" /\ turn > 1 /\ ~ loopFound =>
               \A Y : Never(P, events[turn - 1].eventuality, Y) => \A p \in P : p[1] \notin Y
<1>1. ExactInv => All
    BY DEF ExactInv, RoundInv, searching, ownRuns, ownSet, inLoopSearch
<1> HIDE DEF All
<1>2. SearchSpec => []All
    BY <1>1, ExactInvariance, PTL
<1> QED BY <1>2 DEF All

-----------------------------------------------------------------------------
(***************************************************************************)
(* The reference for loop search: what the repetitions in Persistent and   *)
(* NeverAfter come to.                                                     *)
(***************************************************************************)
\* What holds of 0, and of n + 1 whenever of n, holds up to m.
LEMMA CountUp ==
  ASSUME NEW m \in Nat, NEW S, 0 \in S, \A n \in 0 .. m - 1 : n \in S => n + 1 \in S
  PROVE  \A n \in 0 .. m : n \in S
<1> DEFINE T == {n \in 0 .. m : n \notin S}
<1>1. CASE T # {}
    <2>1. T \in SUBSET Nat
        OBVIOUS
    <2>2. PICK n \in T : \A k \in T : n <= k
        BY <1>1, <2>1, NatMinimum
    <2>3. n \in 0 .. m /\ n # 0 /\ n \notin S
        BY <2>2
    <2>4. n - 1 \in 0 .. m - 1 /\ (n - 1) + 1 = n /\ n - 1 \in 0 .. m /\ ~ (n <= n - 1)
        BY <2>3
    <2>5. n - 1 \in S
        BY <2>2, <2>4
    <2> QED BY <2>3, <2>4, <2>5
<1> QED BY <1>1

\* step takes elements away, and no more from a set than from parts of it.
TakesAway(V, step) ==
  /\ step \in [SUBSET V -> SUBSET V]
  /\ \A W \in SUBSET V : step[W] \subseteq W
  /\ \A X, W \in SUBSET V : X \subseteq W /\ X \subseteq step[X] => X \subseteq step[W]

\* f lists what is left of V after 0, 1 and so on up to m steps.
Repeats(f, V, step, m) ==
  /\ f = [n \in 0 .. m |-> IF n = 0 THEN V ELSE step[f[n - 1]]]
  /\ \A n \in 0 .. m : f[n] \in SUBSET V

\* R is the largest part of V that a step leaves as it is.
LargestLeft(R, V, step) ==
  /\ R \in SUBSET V /\ step[R] = R
  /\ \A X \in SUBSET V : X \subseteq step[X] => X \subseteq R

\* A step can be repeated m times.
LEMMA Repeating ==
  ASSUME NEW V, NEW step \in [SUBSET V -> SUBSET V], NEW m \in Nat
  PROVE  \E f : Repeats(f, V, step, m)
<1> DEFINE Good(f, k) == Repeats(f, V, step, k)
           S == {k \in 0 .. m : \E f : Good(f, k)}
<1>1. 0 \in S
    <2> DEFINE f == [n \in 0 .. 0 |-> V]
    <2>1. f = [n \in 0 .. 0 |-> IF n = 0 THEN V ELSE step[f[n - 1]]]
        OBVIOUS
    <2> HIDE DEF f
    <2>2. Good(f, 0)
        BY <2>1 DEF Repeats
    <2> QED BY <2>2
<1>2. ASSUME NEW k \in 0 .. m - 1, k \in S
      PROVE  k + 1 \in S
    <2>1. PICK f : Good(f, k)
        BY <1>2
    <2> DEFINE g == [n \in 0 .. k + 1 |-> IF n = k + 1 THEN step[f[k]] ELSE f[n]]
    <2>2. ASSUME NEW n \in 0 .. k + 1
          PROVE  g[n] = IF n = 0 THEN V ELSE step[g[n - 1]]
        <3>1. CASE n = 0
            BY <2>1, <3>1 DEF Repeats
        <3>2. CASE n = k + 1
            <4>1. n # 0 /\ n - 1 = k /\ k \in 0 .. k + 1 /\ k # k + 1
                BY <3>2
            <4> QED BY <3>2, <4>1
        <3>3. CASE n \in 1 .. k
            <4>1. n \in 0 .. k /\ n # 0 /\ n # k + 1 /\ n - 1 \in 0 .. k + 1 /\ n - 1 # k + 1
                BY <3>3
            <4>2. f[n] = step[f[n - 1]]
                BY <2>1, <4>1 DEF Repeats
            <4> QED BY <4>1, <4>2
        <3>4. n = 0 \/ n = k + 1 \/ n \in 1 .. k
            OBVIOUS
        <3> QED BY <3>1, <3>2, <3>3, <3>4
    <2>3. g = [n \in 0 .. k + 1 |-> g[n]]
        OBVIOUS
    <2>6. \A n \in 0 .. k + 1 : g[n] \in SUBSET V
        <3>1. \A n \in 0 .. k : n # k + 1
            OBVIOUS
        <3>2. \A n \in 0 .. k : g[n] \in SUBSET V
            BY <2>1, <3>1 DEF Repeats
        <3>3. g[k + 1] \in SUBSET V
            BY <2>1 DEF Repeats
        <3> HIDE DEF g
        <3>4. \A n \in 0 .. k + 1 : n \in 0 .. k \/ n = k + 1
            OBVIOUS
        <3> QED BY <3>2, <3>3, <3>4
    <2> HIDE DEF g
    <2>4. Good(g, k + 1)
        BY <2>2, <2>3, <2>6 DEF Repeats
    <2>5. k + 1 \in 0 .. m
        OBVIOUS
    <2> HIDE DEF Good
    <2> QED BY <2>4, <2>5
<1> HIDE DEF S
<1>3. m \in S
    BY <1>1, <1>2, CountUp
<1> QED BY <1>3 DEF S

\* When V is finite, as many steps as it has elements leave just that.
LEMMA RepeatedEnough ==
  ASSUME NEW V, IsFiniteSet(V), NEW step, TakesAway(V, step),
         NEW f, Repeats(f, V, step, Cardinality(V))
  PROVE  LargestLeft(f[Cardinality(V)], V, step)
<1> DEFINE m == Cardinality(V)
<1>1. m \in Nat
    BY FS_CardinalityType
<1>2. /\ step \in [SUBSET V -> SUBSET V]
      /\ \A W \in SUBSET V : step[W] \subseteq W
      /\ \A X, W \in SUBSET V : X \subseteq W /\ X \subseteq step[X] => X \subseteq step[W]
    BY DEF TakesAway
<1>3. /\ f[0] = V /\ \A n \in 0 .. m - 1 : f[n + 1] = step[f[n]]
      /\ \A n \in 0 .. m : f[n] \in SUBSET V
    <2>1. /\ \A n \in 0 .. m : f[n] = IF n = 0 THEN V ELSE step[f[n - 1]]
          /\ \A n \in 0 .. m : f[n] \in SUBSET V
        BY DEF Repeats
    <2> HIDE DEF m
    <2>2. \A n \in 0 .. m - 1 : n + 1 \in 0 .. m /\ n + 1 # 0 /\ (n + 1) - 1 = n
        BY <1>1
    <2> QED BY <1>1, <2>1, <2>2
<1>4. ASSUME NEW X \in SUBSET V, X \subseteq step[X]
      PROVE  X \subseteq f[m]
    <2> DEFINE S == {n \in 0 .. m : X \subseteq f[n]}
    <2> HIDE DEF m
    <2>1. 0 \in S
        BY <1>1, <1>3
    <2>2. ASSUME NEW n \in 0 .. m - 1, n \in S
          PROVE  n + 1 \in S
        <3>1. n \in 0 .. m /\ n + 1 \in 0 .. m
            BY <1>1
        <3> QED BY <1>2, <1>3, <1>4, <2>2, <3>1
    <2> HIDE DEF S
    <2>3. \A n \in 0 .. m : n \in S
        BY <1>1, <2>1, <2>2, CountUp
    <2> QED BY <1>1, <2>3 DEF S
<1>5. \A n \in 0 .. m : step[f[n]] = f[n] \/ Cardinality(f[n]) <= m - n
    <2> DEFINE S == {n \in 0 .. m : step[f[n]] = f[n] \/ Cardinality(f[n]) <= m - n}
    <2>1. 0 \in S
        BY <1>1, <1>3
    <2> HIDE DEF m
    <2>2. ASSUME NEW n \in 0 .. m - 1, n \in S
          PROVE  n + 1 \in S
        <3>1. n \in 0 .. m /\ n + 1 \in 0 .. m /\ n \in Nat
            BY <1>1
        <3>2. f[n + 1] = step[f[n]] /\ f[n] \in SUBSET V /\ f[n + 1] \in SUBSET V
            BY <1>3, <3>1
        <3>3. CASE step[f[n]] = f[n]
            BY <3>1, <3>2, <3>3
        <3>4. CASE step[f[n]] # f[n] /\ Cardinality(f[n]) <= m - n
            <4>1. f[n + 1] \subseteq f[n] /\ f[n + 1] # f[n] /\ IsFiniteSet(f[n])
                BY <1>2, <3>2, <3>4, FS_Subset
            <4>2. /\ Cardinality(f[n + 1]) <= Cardinality(f[n])
                  /\ Cardinality(f[n + 1]) # Cardinality(f[n])
                  /\ IsFiniteSet(f[n + 1])
                BY <4>1, FS_Subset
            <4>3. Cardinality(f[n + 1]) \in Nat /\ Cardinality(f[n]) \in Nat
                BY <4>1, <4>2, FS_CardinalityType
            <4>4. Cardinality(f[n + 1]) <= m - (n + 1)
                BY <1>1, <3>1, <3>4, <4>2, <4>3
            <4> QED BY <3>1, <4>4
        <3> QED BY <2>2, <3>3, <3>4
    <2> HIDE DEF S
    <2>3. \A n \in 0 .. m : n \in S
        BY <1>1, <2>1, <2>2, CountUp
    <2> QED BY <2>3 DEF S
<1> HIDE DEF m
<1>6. m \in 0 .. m /\ f[m] \in SUBSET V
    BY <1>1, <1>3
<1>7. step[f[m]] = f[m]
    <2>1. CASE Cardinality(f[m]) <= 0
        <3>1. IsFiniteSet(f[m])
            BY <1>6, FS_Subset
        <3>2. f[m] = {}
            BY <2>1, <3>1, FS_EmptySet, FS_CardinalityType
        <3> QED BY <1>2, <1>6, <3>2
    <2> QED BY <1>1, <1>5, <1>6, <2>1
<1> QED BY <1>4, <1>6, <1>7 DEF LargestLeft, m

\* The first reference computation gives the largest part of V from every
\* element of which T leads to an element of it.
LEMMA PersistentIs ==
  ASSUME NEW B, NEW T \in SUBSET (B \X B), NEW V, IsFiniteSet(V)
  PROVE  /\ Persistent(T, V) \in SUBSET V
         /\ \A v \in Persistent(T, V) : \E w \in Persistent(T, V) : <<v, w>> \in T
         /\ \A X \in SUBSET V : (\A v \in X : \E w \in X : <<v, w>> \in T) =>
              X \subseteq Persistent(T, V)
<1> DEFINE m == Cardinality(V)
           next(W) == {e[1] : e \in {e \in T : e[1] \in W /\ e[2] \in W}}
           step == [W \in SUBSET V |-> next(W)]
           left[n \in 0 .. Cardinality(V)] ==
             IF n = 0 THEN V
             ELSE LET W == left[n - 1]
                  IN  {e[1] : e \in {e \in T : e[1] \in W /\ e[2] \in W}}
<1>1. Persistent(T, V) = left[m]
    BY DEF Persistent
<1>2. left = CHOOSE f : f = [n \in 0 .. m |-> IF n = 0 THEN V ELSE next(f[n - 1])]
    OBVIOUS
<1>3. m \in Nat /\ m = Cardinality(V)
    BY FS_CardinalityType
<1> HIDE DEF left, m
<1>4. step \in [SUBSET V -> SUBSET V]
    OBVIOUS
<1>5. \A W \in SUBSET V : step[W] = next(W)
    OBVIOUS
<1> HIDE DEF next, step
<1>6. PICK g : Repeats(g, V, step, m)
    BY <1>3, <1>4, Repeating
<1>7. g = [n \in 0 .. m |-> IF n = 0 THEN V ELSE next(g[n - 1])]
    <2>1. \A n \in 0 .. m : n # 0 => n - 1 \in 0 .. m
        BY <1>3
    <2>2. \A n \in 0 .. m : n # 0 => step[g[n - 1]] = next(g[n - 1])
        BY <1>5, <1>6, <2>1 DEF Repeats
    <2> QED BY <1>6, <2>2 DEF Repeats
<1>8. left = [n \in 0 .. m |-> IF n = 0 THEN V ELSE next(left[n - 1])]
    BY <1>2, <1>7
<1>9. Repeats(left, V, step, m)
    <2> DEFINE S == {n \in 0 .. m : left[n] \in SUBSET V}
    <2>1. left[0] = V /\ \A n \in 0 .. m : n # 0 => left[n] = next(left[n - 1])
        BY <1>3, <1>8
    <2>2. 0 \in S
        BY <1>3, <2>1
    <2>3. ASSUME NEW n \in 0 .. m - 1, n \in S
          PROVE  n + 1 \in S
        <3>1. n + 1 \in 0 .. m /\ n + 1 # 0 /\ (n + 1) - 1 = n
            BY <1>3
        <3>2. left[n + 1] = step[left[n]]
            BY <1>5, <2>1, <2>3, <3>1
        <3> QED BY <1>4, <2>3, <3>1, <3>2
    <2> HIDE DEF S
    <2>4. \A n \in 0 .. m : n \in S
        BY <1>3, <2>2, <2>3, CountUp
    <2>5. \A n \in 0 .. m : n # 0 => n - 1 \in 0 .. m
        BY <1>3
    <2>6. \A n \in 0 .. m : n # 0 => next(left[n - 1]) = step[left[n - 1]]
        BY <1>5, <2>4, <2>5 DEF S
    <2>7. left = [n \in 0 .. m |-> IF n = 0 THEN V ELSE step[left[n - 1]]]
        BY <1>8, <2>6
    <2> QED BY <2>4, <2>7 DEF Repeats, S
<1> DEFINE R == Persistent(T, V)
<1>10. LargestLeft(R, V, step)
    <2>1. TakesAway(V, step)
        BY <1>4, <1>5 DEF TakesAway, next
    <2> QED BY <1>1, <1>3, <1>9, <2>1, RepeatedEnough
<1> HIDE DEF R
<1>11. ASSUME NEW v \in R
       PROVE  \E w \in R : <<v, w>> \in T
    <2>1. v \in next(R)
        BY <1>5, <1>10 DEF LargestLeft
    <2>2. PICK e \in T : e[1] = v /\ e[2] \in R
        BY <2>1 DEF next
    <2>3. e = <<v, e[2]>>
        BY <2>2
    <2> QED BY <2>2, <2>3
<1>12. ASSUME NEW X \in SUBSET V, \A v \in X : \E w \in X : <<v, w>> \in T
       PROVE  X \subseteq R
    <2>1. \A v \in X : v \in step[X]
        <3>1. ASSUME NEW v \in X PROVE v \in step[X]
            <4>1. PICK w \in X : <<v, w>> \in T
                BY <1>12
            <4>2. <<v, w>>[1] = v /\ <<v, w>>[2] = w
                OBVIOUS
            <4> QED BY <1>5, <4>1, <4>2 DEF next
        <3> QED BY <3>1
    <2> QED BY <1>10, <2>1 DEF LargestLeft
<1> QED BY <1>10, <1>11, <1>12 DEF R, LargestLeft

\* The second gives the largest part of V from which T leads, within V, only
\* to elements of it at which l is false.
LEMMA NeverAfterIs ==
  ASSUME NEW B, NEW T \in SUBSET (B \X B), NEW V, IsFiniteSet(V), NEW l
  PROVE  LET Stays(X) == \A v \in X, w \in V : <<v, w>> \in T => w \in X /\ ~ HoldsLit(l, w, w)
         IN  /\ NeverAfter(V, T, l) \in SUBSET V
             /\ Stays(NeverAfter(V, T, l))
             /\ \A X \in SUBSET V : Stays(X) => X \subseteq NeverAfter(V, T, l)
<1> DEFINE m == Cardinality(V)
           next(G) == G \ {e[1] : e \in {e \in T : e[2] \in V /\ (e[2] \in G => HoldsLit(l, e[2], e[2]))}}
           step == [W \in SUBSET V |-> next(W)]
           left[n \in 0 .. Cardinality(V)] ==
             IF n = 0 THEN V
             ELSE LET G == left[n - 1]
                  IN  G \ {e[1] : e \in {e \in T :
                             e[2] \in V /\ (e[2] \in G => HoldsLit(l, e[2], e[2]))}}
<1>1. NeverAfter(V, T, l) = left[m]
    BY DEF NeverAfter
<1>2. left = CHOOSE f : f = [n \in 0 .. m |-> IF n = 0 THEN V ELSE next(f[n - 1])]
    OBVIOUS
<1>3. m \in Nat /\ m = Cardinality(V)
    BY FS_CardinalityType
<1> HIDE DEF left, m
<1>4. step \in [SUBSET V -> SUBSET V]
    OBVIOUS
<1>5. \A W \in SUBSET V : step[W] = next(W)
    OBVIOUS
<1> HIDE DEF next, step
<1>6. PICK g : Repeats(g, V, step, m)
    BY <1>3, <1>4, Repeating
<1>7. g = [n \in 0 .. m |-> IF n = 0 THEN V ELSE next(g[n - 1])]
    <2>1. \A n \in 0 .. m : n # 0 => n - 1 \in 0 .. m
        BY <1>3
    <2>2. \A n \in 0 .. m : n # 0 => step[g[n - 1]] = next(g[n - 1])
        BY <1>5, <1>6, <2>1 DEF Repeats
    <2> QED BY <1>6, <2>2 DEF Repeats
<1>8. left = [n \in 0 .. m |-> IF n = 0 THEN V ELSE next(left[n - 1])]
    BY <1>2, <1>7
<1>9. Repeats(left, V, step, m)
    <2> DEFINE S == {n \in 0 .. m : left[n] \in SUBSET V}
    <2>1. left[0] = V /\ \A n \in 0 .. m : n # 0 => left[n] = next(left[n - 1])
        BY <1>3, <1>8
    <2>2. 0 \in S
        BY <1>3, <2>1
    <2>3. ASSUME NEW n \in 0 .. m - 1, n \in S
          PROVE  n + 1 \in S
        <3>1. n + 1 \in 0 .. m /\ n + 1 # 0 /\ (n + 1) - 1 = n
            BY <1>3
        <3>2. left[n + 1] = step[left[n]]
            BY <1>5, <2>1, <2>3, <3>1
        <3> QED BY <1>4, <2>3, <3>1, <3>2
    <2> HIDE DEF S
    <2>4. \A n \in 0 .. m : n \in S
        BY <1>3, <2>2, <2>3, CountUp
    <2>5. \A n \in 0 .. m : n # 0 => n - 1 \in 0 .. m
        BY <1>3
    <2>6. \A n \in 0 .. m : n # 0 => next(left[n - 1]) = step[left[n - 1]]
        BY <1>5, <2>4, <2>5 DEF S
    <2>7. left = [n \in 0 .. m |-> IF n = 0 THEN V ELSE step[left[n - 1]]]
        BY <1>8, <2>6
    <2> QED BY <2>4, <2>7 DEF Repeats, S
<1> DEFINE R == NeverAfter(V, T, l)
<1>10. LargestLeft(R, V, step)
    <2>1. TakesAway(V, step)
        BY <1>4, <1>5 DEF TakesAway, next
    <2> QED BY <1>1, <1>3, <1>9, <2>1, RepeatedEnough
<1> HIDE DEF R
<1>11. ASSUME NEW v \in R, NEW w \in V, <<v, w>> \in T
       PROVE  w \in R /\ ~ HoldsLit(l, w, w)
    <2> DEFINE e == <<v, w>>
    <2>1. e \in T /\ e[1] = v /\ e[2] = w
        BY <1>11
    <2> HIDE DEF e
    <2>2. v \in next(R)
        BY <1>5, <1>10 DEF LargestLeft
    <2> QED BY <2>1, <2>2 DEF next
<1>12. ASSUME NEW X \in SUBSET V,
              \A v \in X, w \in V : <<v, w>> \in T => w \in X /\ ~ HoldsLit(l, w, w)
       PROVE  X \subseteq R
    <2>1. ASSUME NEW v \in X
          PROVE  v \in step[X]
        <3>1. ASSUME NEW e \in T, e[2] \in V, e[1] = v
              PROVE  e[2] \in X /\ ~ HoldsLit(l, e[2], e[2])
            <4>1. e = <<v, e[2]>>
                BY <3>1
            <4> QED BY <1>12, <3>1, <4>1
        <3> QED BY <1>5, <3>1 DEF next
    <2> QED BY <1>10, <2>1 DEF LargestLeft
<1> QED BY <1>10, <1>11, <1>12 DEF R, LargestLeft

\* So the moments that the runs of a set of clauses can pass are those that
\* the reference starts from.
LEMMA PersistentAlive ==
  ASSUME NEW T \in SUBSET (Valuations \X Valuations), IsFiniteSet(Valuations)
  PROVE  Persistent(T, Valuations) = Alive(T)
<1>1. /\ Persistent(T, Valuations) \in SUBSET Valuations
      /\ \A v \in Persistent(T, Valuations) : \E w \in Persistent(T, Valuations) : <<v, w>> \in T
      /\ \A X \in SUBSET Valuations : (\A v \in X : \E w \in X : <<v, w>> \in T) =>
           X \subseteq Persistent(T, Valuations)
    BY PersistentIs
<1> QED BY <1>1 DEF Alive

\* What a found loop, and the lack of one, say of the moments that the runs of
\* the prover's clauses can pass.
LEMMA LoopFoundIs ==
  ASSUME SInv, LoopInv, ExactInv, NEW l,
         \/ stage = "found" /\ l = events[turn].eventuality
         \/ stage = "eventualities" /\ turn > 1 /\ ~ loopFound /\ l = events[turn - 1].eventuality
  PROVE  LoopAt(l)
<1> DEFINE S == LitsOf(active)
           T == Transitions(S)
           V == Alive(T)
           N == NeverAfter(V, T, l)
           P == runsOf(S)
<1>1. T \in SUBSET (Valuations \X Valuations)
    BY DEF Transitions
<1>2. IsFiniteSet(Valuations) /\ V \in SUBSET Valuations /\ IsFiniteSet(V)
    <2>1. IsFiniteSet(Valuations)
        BY LiteralsFinite, FS_SUBSET DEF Valuations
    <2>2. V \in SUBSET Valuations
        BY DEF Alive
    <2> QED BY <2>1, <2>2, FS_Subset
<1>3. Persistent(T, Valuations) = V
    BY <1>1, <1>2, PersistentAlive
<1>4. /\ N \in SUBSET V
      /\ \A v \in N, w \in V : <<v, w>> \in T => w \in N /\ ~ HoldsLit(l, w, w)
      /\ \A X \in SUBSET V :
           (\A v \in X, w \in V : <<v, w>> \in T => w \in X /\ ~ HoldsLit(l, w, w)) => X \subseteq N
    BY <1>1, <1>2, NeverAfterIs
<1>5. /\ Continuing(P) /\ Obeys(P, S)
      /\ \A v \in V : \E w : <<v, w>> \in P
      /\ \A p \in P : p = <<p[1], p[2]>> /\ p \in T /\ p[1] \in V /\ p[2] \in V
      /\ \A v \in V, w \in V : <<v, w>> \in T => <<v, w>> \in P
    <2>1. Continuing(P) /\ \A v \in V : \E w : <<v, w>> \in P
        BY RunsContinue
    <2>2. Obeys(P, S)
        BY <2>1 DEF Obeys, runsOf, Transitions
    <2>3. \A p \in P : p = <<p[1], p[2]>>
        BY <2>1 DEF Continuing
    <2>4. ASSUME NEW v \in V, NEW w \in V, <<v, w>> \in T
          PROVE  <<v, w>> \in P
        <3> DEFINE e == <<v, w>>
        <3>1. e \in T /\ e[1] = v /\ e[2] = w
            BY <2>4
        <3> HIDE DEF e
        <3>2. e \in P
            BY <3>1 DEF runsOf
        <3> QED BY <3>2 DEF e
    <2> QED BY <2>1, <2>2, <2>3, <2>4 DEF runsOf
<1>6. ownRuns = P
    BY DEF ownRuns, ownSet, inLoopSearch
<1> HIDE DEF T, V, N, P
<1>7. Never(P, l, N)
    <2>1. ASSUME NEW p \in P, p[1] \in N
          PROVE  p[2] \in N /\ ~ HoldsLit(l, p[2], p[2])
        <3>1. <<p[1], p[2]>> \in T /\ p[2] \in V
            BY <1>5, <2>1
        <3> QED BY <1>4, <2>1, <3>1
    <2> QED BY <2>1 DEF Never
<1>8. ASSUME NEW v \in V
      PROVE  \E p \in P : p[1] = v
    <2>1. PICK w : <<v, w>> \in P
        BY <1>5
    <2>2. <<v, w>>[1] = v
        OBVIOUS
    <2> QED BY <2>1, <2>2
<1>9. CASE stage = "found" /\ l = events[turn].eventuality
    <2>1. HasAll(P, l, loop) /\ loopFound
        BY <1>6, <1>9 DEF ExactInv, RoundInv, searching
    <2>2. \A v : InLoop(v) <=> loop = <<>> \/ FalsifiedAt(loop, v)
        BY DEF InLoop, FalsifiedAt
    <2>3. \A v \in V : v \in N => InLoop(v)
        BY <1>7, <1>8, <2>1, <2>2 DEF HasAll
    <2>4. Closed(P)
        BY <1>5, <1>9 DEF LoopInv, S
    <2> DEFINE X == {v \in V : InLoop(v)}
    <2>5. ASSUME NEW v \in X, NEW w \in V, <<v, w>> \in T
          PROVE  w \in X /\ ~ HoldsLit(l, w, w)
        <3> DEFINE p == <<v, w>>
        <3>1. p \in P /\ p[1] = v /\ p[2] = w
            BY <1>5, <2>5
        <3> HIDE DEF p
        <3> QED BY <1>9, <2>4, <2>5, <3>1 DEF Closed
    <2>6. X \subseteq N
        BY <1>4, <2>5
    <2> QED BY <1>3, <2>1, <2>3, <2>6 DEF LoopAt, N, T, V, S
<1>10. CASE stage = "eventualities" /\ turn > 1 /\ ~ loopFound /\ l = events[turn - 1].eventuality
    <2>1. \A p \in P : p[1] \notin N
        BY <1>6, <1>7, <1>10 DEF ExactInv, RoundInv
    <2>2. \A v \in V : v \notin N
        BY <1>8, <2>1
    <2> QED BY <1>3, <1>10, <2>2 DEF LoopAt, N, T, V, S
<1> QED BY <1>9, <1>10

\* Loop search is exact: the loop it returns has, of the moments that some run
\* of the prover's clauses can pass, those after which the eventuality literal
\* is never true again, and it returns none only if there is no such moment.
THEOREM LoopIsExact == SearchSpec => []LoopExact
<1>1. SInv /\ LoopInv /\ ExactInv => LoopExact
    BY LoopFoundIs DEF LoopExact
<1> QED BY <1>1, ExactInvariance, PTL
=============================================================================
