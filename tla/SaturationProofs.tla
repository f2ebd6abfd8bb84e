---------------------------- MODULE SaturationProofs ---------------------------
(***************************************************************************)
(* Theorems about Saturation, for every set of propositions and every pool *)
(* of input clauses: redundancy elimination (both subsumption tests of the *)
(* trie, clauseSubsumes, FSR) loses nothing, the loop leaves no resolvent  *)
(* out, and it is sound: resolution, FSR and subsumption draw only         *)
(* conclusions that the clauses given entail, a contradiction reported is  *)
(* one, and the engine implements the abstract clause set of Deduction.    *)
(* The last part is about completeness: resolution on leading literals,    *)
(* with the clauses that are covered left out, finds a contradiction       *)
(* wherever there is one, and in loop-search mode the moments that have no *)
(* successor.                                                              *)
(***************************************************************************)
EXTENDS SaturationMeaning, OrderLemmas

(***************************************************************************)
(* Literals and attributes.                                                *)
(***************************************************************************)
\* Two literals with the same three fields are the same literal.
LEMMA LiteralEq ==
  ASSUME NEW k \in Literals, NEW l \in Literals,
         k.prop = l.prop, k.neg = l.neg, k.attr = l.attr
  PROVE  k = l
BY DEF Literals

\* Moving a literal to another attribute gives a literal with the same key.
LEMMA RetagLiteral ==
  ASSUME NEW l \in Literals, NEW a \in Attributes
  PROVE  /\ setAttribute(l, a) \in Literals
         /\ setAttribute(l, a).attr = a
         /\ Key(setAttribute(l, a)) = Key(l)
BY DEF Literals, Key, setAttribute

\* If the keys of c are keys of a set of literals that all have attribute a,
\* then c moved to a is a part of that set.
LEMMA KeysRetag ==
  ASSUME NEW c \in Clauses, NEW s \in Clauses, NEW a \in Attributes,
         \A l \in s : l.attr = a,
         Keys(c) \subseteq Keys(s)
  PROVE  Retag(c, a) \subseteq s
<1> SUFFICES ASSUME NEW k \in c
             PROVE  setAttribute(k, a) \in s
    BY DEF Retag
<1>1. PICK l \in s : Key(l) = Key(k)
    BY DEF Keys
<1>2. k \in Literals /\ l \in Literals
    BY DEF Clauses
<1>3. l.prop = k.prop /\ l.neg = k.neg
    BY <1>1 DEF Key
<1>4. setAttribute(k, a) = l
    BY <1>2, <1>3 DEF Literals, setAttribute
<1> QED BY <1>4

\* A retagged clause is a clause.
LEMMA RetagType ==
  ASSUME NEW c \in Clauses, NEW a \in Attributes
  PROVE  Retag(c, a) \in Clauses
BY RetagLiteral DEF Retag, Clauses

\* Retagging twice is retagging once.
LEMMA RetagTwice ==
  ASSUME NEW c \in Clauses, NEW a \in Attributes, NEW b \in Attributes
  PROVE  Retag(Retag(c, a), b) = Retag(c, b)
<1>1. ASSUME NEW l \in c
      PROVE  setAttribute(setAttribute(l, a), b) = setAttribute(l, b)
    BY DEF setAttribute
<1> QED BY <1>1 DEF Retag

(***************************************************************************)
(* Covers is a preorder.                                                   *)
(***************************************************************************)
\* Covers relates every clause to itself and to its supersets.
LEMMA CoversSubset ==
  ASSUME NEW m, NEW c, NEW d, c \subseteq d
  PROVE  Covers(m, c, d)
BY DEF Covers

\* Coverage is transitive: what a removed clause covered is covered by the
\* clause that removed it.
LEMMA CoversTransitive ==
  ASSUME NEW m \in Modes, NEW c \in Clauses, NEW d \in Clauses, NEW e \in Clauses,
         Covers(m, c, d), Covers(m, d, e)
  PROVE  Covers(m, c, e)
<1>1. CASE c \subseteq d /\ d \subseteq e
    BY <1>1 DEF Covers
<1>2. CASE c \subseteq d /\ ~ (d \subseteq e)
    <2>1. EveryMoment(m, d)
        BY <1>2 DEF Covers
    <2>2. PICK a \in Attributes : Retag(d, a) \subseteq e
        BY <1>2 DEF Covers
    <2>3. EveryMoment(m, c)
        BY <1>2, <2>1 DEF EveryMoment
    <2>4. Retag(c, a) \subseteq e
        BY <1>2, <2>2 DEF Retag
    <2> QED BY <2>3, <2>4 DEF Covers
<1>3. CASE ~ (c \subseteq d)
    <2>1. EveryMoment(m, c)
        BY <1>3 DEF Covers
    <2>2. PICK a \in Attributes : Retag(c, a) \subseteq d
        BY <1>3 DEF Covers
    <2>3. CASE d \subseteq e
        BY <2>1, <2>2, <2>3 DEF Covers
    <2>4. CASE ~ (d \subseteq e)
        <3>1. PICK b \in Attributes : Retag(d, b) \subseteq e
            BY <2>4 DEF Covers
        <3>2. Retag(Retag(c, a), b) \subseteq Retag(d, b)
            BY <2>2 DEF Retag
        <3>3. Retag(c, b) \subseteq e
            BY <3>1, <3>2, RetagTwice
        <3> QED BY <2>1, <3>3 DEF Covers
    <2> QED BY <2>3, <2>4
<1> QED BY <1>1, <1>2, <1>3

(***************************************************************************)
(* The subsumption tests are sound: each of them implies Covers.           *)
(***************************************************************************)
\* The leading attribute of a non-empty clause of one kind tells the kind.
LEMMA LeadingKind ==
  ASSUME NEW c \in Clauses, OneKind(c), c # {}
  PROVE  /\ leadingAttribute(c) \in Attributes
         /\ leadingAttribute(c) # "step_next" => \A l \in c : l.attr = leadingAttribute(c)
         /\ leadingAttribute(c) = "step_next" => \A l \in c : l.attr \in {"step_now", "step_next"}
<1>1. \A l \in c : l.attr \in Attributes
    BY DEF Clauses, Literals
<1>2. CASE NextPart(c) # {}
    <2>1. PICK n \in c : n.attr = "step_next"
        BY <1>2 DEF NextPart
    <2>2. AttributesOf(c) \subseteq {"step_now", "step_next"}
        BY <2>1 DEF OneKind, AttributesOf
    <2> QED BY <1>2, <2>2 DEF leadingAttribute, AttributesOf, Attributes
<1>3. CASE NextPart(c) = {}
    <2> DEFINE h == CHOOSE l \in c : TRUE
    <2>1. h \in c
        OBVIOUS
    <2>2. leadingAttribute(c) = h.attr
        BY <1>3 DEF leadingAttribute
    <2>3. \A l \in c : l.attr # "step_next"
        BY <1>3 DEF NextPart
    <2>4. \A l \in c : l.attr = h.attr
        <3> HIDE DEF h
        <3>1. {l.attr : l \in c} \subseteq {"initial"} \/ {l.attr : l \in c} \subseteq {"universal"}
                \/ {l.attr : l \in c} \subseteq {"step_now", "step_next"}
            BY DEF OneKind, AttributesOf
        <3> QED BY <2>1, <2>3, <3>1
    <2> HIDE DEF h
    <2> QED BY <1>1, <2>1, <2>2, <2>3, <2>4
<1> QED BY <1>2, <1>3

\* A clause whose literals all speak of every moment covers whatever it can
\* be moved into.
LEMMA RetagCovers ==
  ASSUME NEW m \in Modes, NEW c \in Clauses, EveryMoment(m, c),
         NEW s \in Clauses, NEW d, s \subseteq d, NEW a \in Attributes,
         \A l \in s : l.attr = a,
         Keys(c) \subseteq Keys(s)
  PROVE  Covers(m, c, d)
<1>1. Retag(c, a) \subseteq d
    BY KeysRetag
<1> QED BY <1>1 DEF Covers

\* Two clauses of the same attribute: inclusion of keys is inclusion.
LEMMA SameAttribute ==
  ASSUME NEW c \in Clauses, NEW d \in Clauses, NEW a \in Attributes,
         \A l \in c : l.attr = a, \A l \in d : l.attr = a,
         Keys(c) \subseteq Keys(d)
  PROVE  c \subseteq d
<1> SUFFICES ASSUME NEW k \in c PROVE k \in d
    OBVIOUS
<1>1. PICK l \in d : Key(l) = Key(k)
    BY DEF Keys
<1>2. l.prop = k.prop /\ l.neg = k.neg /\ l.attr = k.attr
    BY <1>1 DEF Key
<1>3. k \in Literals /\ l \in Literals
    BY DEF Clauses
<1>4. k = l
    BY <1>2, <1>3, LiteralEq
<1> QED BY <1>4

\* SubsumesHelper never looks at a key that the other clause lacks.
LEMMA HelperKeys ==
  ASSUME NEW m, NEW c, NEW d, SubsumesHelper(m, c, d)
  PROVE  Keys(c) \subseteq Keys(d)
BY DEF SubsumesHelper, Keys

\* Between step clauses SubsumesHelper is inclusion in every mode.
LEMMA HelperOnSteps ==
  ASSUME NEW m \in Modes, NEW c \in Clauses, NEW d \in Clauses,
         \A l \in c : l.attr \in {"step_now", "step_next"},
         \A l \in d : l.attr \in {"step_now", "step_next"},
         SubsumesHelper(m, c, d)
  PROVE  c \subseteq d
<1> SUFFICES ASSUME NEW k \in c PROVE k \in d
    OBVIOUS
<1>1. PICK l \in d : Key(k) = Key(l) /\ areEqual(m, k.attr, l.attr)
    BY DEF SubsumesHelper
<1>2. l.prop = k.prop /\ l.neg = k.neg /\ l.attr = k.attr
    BY <1>1 DEF Key, areEqual
<1>3. k \in Literals /\ l \in Literals
    BY DEF Clauses
<1>4. k = l
    BY <1>2, <1>3, LiteralEq
<1> QED BY <1>4

\* A clause led by an attribute that equals universal speaks of every moment.
LEMMA LedUniversal ==
  ASSUME NEW m \in Modes, NEW c \in Clauses, OneKind(c), c # {},
         areEqual(m, leadingAttribute(c), "universal")
  PROVE  EveryMoment(m, c) /\ leadingAttribute(c) \in {"universal", "step_now"}
<1>1. leadingAttribute(c) \in {"universal", "step_now"}
    BY DEF areEqual
<1>2. \A l \in c : l.attr = leadingAttribute(c)
    BY <1>1, LeadingKind
<1> QED BY <1>1, <1>2 DEF EveryMoment

\* The stretches of a query are parts of it with a single attribute.
LEMMA UniformStretch ==
  ASSUME NEW d \in Clauses, OneKind(d), d # {}, NEW s \in Stretches(d)
  PROVE  /\ s \in Clauses /\ s \subseteq d
         /\ \E a \in Attributes : \A l \in s : l.attr = a
<1>1. CASE leadingAttribute(d) = "step_next"
    BY <1>1 DEF Stretches, NextPart, NowPart, Clauses, Attributes
<1>2. CASE leadingAttribute(d) # "step_next"
    <2>1. s = d
        BY <1>2 DEF Stretches
    <2> QED BY <1>2, <2>1, LeadingKind
<1> QED BY <1>1, <1>2

\* clauseSubsumes is sound.
LEMMA SubsumesCovers ==
  ASSUME NEW m \in Modes, NEW c \in Clauses, NEW d \in Clauses,
         OneKind(c), OneKind(d), clauseSubsumesHelper(m, c, d)
  PROVE  Covers(m, c, d)
<1>1. CASE c = {}
    BY <1>1 DEF Covers
<1>2. CASE c # {}
    <2>1. d # {}
        BY <1>2 DEF clauseSubsumesHelper
    <2>2. CASE areEqual(m, leadingAttribute(c), "universal")
        <3>1. EveryMoment(m, c)
            BY <1>2, <2>2, LedUniversal
        <3>2. CASE leadingAttribute(d) = "step_next"
            BY <1>2, <2>2, <3>1, <3>2 DEF clauseSubsumesHelper, Covers, Attributes
        <3>3. CASE leadingAttribute(d) # "step_next"
            <4>1. Keys(c) \subseteq Keys(d)
                BY <1>2, <2>2, <3>3, HelperKeys DEF clauseSubsumesHelper
            <4>2. leadingAttribute(d) \in Attributes /\ \A l \in d : l.attr = leadingAttribute(d)
                BY <2>1, <3>3, LeadingKind
            <4> QED BY <3>1, <4>1, <4>2, RetagCovers
        <3> QED BY <3>2, <3>3
    <2>3. CASE ~ areEqual(m, leadingAttribute(c), "universal")
        <3>1. leadingAttribute(c) = leadingAttribute(d) /\ SubsumesHelper(m, c, d)
            BY <1>2, <2>3 DEF clauseSubsumesHelper
        <3>2. CASE leadingAttribute(c) = "step_next"
            BY <1>2, <2>1, <3>1, <3>2, LeadingKind, HelperOnSteps, CoversSubset
        <3>3. CASE leadingAttribute(c) # "step_next"
            <4>1. /\ leadingAttribute(c) \in Attributes
                  /\ \A l \in c : l.attr = leadingAttribute(c)
                  /\ \A l \in d : l.attr = leadingAttribute(c)
                BY <1>2, <2>1, <3>1, <3>3, LeadingKind
            <4> QED BY <3>1, <4>1, HelperKeys, SameAttribute, CoversSubset
        <3> QED BY <3>2, <3>3
    <2> QED BY <2>2, <2>3
<1> QED BY <1>1, <1>2

\* A forward search of the trie finds only clauses that cover the query.
LEMMA ForwardCovers ==
  ASSUME NEW m \in Modes, NEW c \in Clauses, NEW d \in Clauses,
         OneKind(c), OneKind(d), d # {}, indexForward(m, c, d)
  PROVE  Covers(m, c, d)
<1>1. CASE c = {}
    BY <1>1 DEF Covers
<1>2. CASE c # {}
    <2>1. forwardTestData(m, c, d)
        BY DEF indexForward
    <2>2. /\ leadingAttribute(c) \in {"initial", "universal", "step_now", "step_next"}
          /\ leadingAttribute(d) \in {"initial", "universal", "step_now", "step_next"}
        BY <1>2, LeadingKind DEF Attributes
    <2>3. CASE leadingAttribute(c) = "step_next"
        <3>1. leadingAttribute(d) = "step_next" /\ SubsumesHelper(m, c, d)
            BY <2>1, <2>2, <2>3 DEF forwardTestData, areEqual
        <3> QED BY <1>2, <2>3, <3>1, LeadingKind, HelperOnSteps, CoversSubset
    <2>4. CASE leadingAttribute(c) # "step_next"
        <3>1. PICK s \in Stretches(d) : Keys(c) \subseteq Keys(s)
            BY <2>4 DEF indexForward, Path
        <3>2. s \in Clauses /\ s \subseteq d
            BY <3>1, UniformStretch
        <3>3. CASE areEqual(m, leadingAttribute(c), "universal")
            <4>1. EveryMoment(m, c)
                BY <1>2, <3>3, LedUniversal
            <4>2. PICK a \in Attributes : \A l \in s : l.attr = a
                BY <3>1, UniformStretch
            <4> QED BY <3>1, <3>2, <4>1, <4>2, RetagCovers
        <3>4. CASE ~ areEqual(m, leadingAttribute(c), "universal")
            <4>1. leadingAttribute(c) = leadingAttribute(d)
                BY <2>1, <2>2, <2>4, <3>4 DEF forwardTestData, areEqual
            <4>2. s = d
                BY <2>4, <3>1, <4>1 DEF Stretches
            <4>3. /\ leadingAttribute(c) \in Attributes
                  /\ \A l \in c : l.attr = leadingAttribute(c)
                  /\ \A l \in d : l.attr = leadingAttribute(c)
                BY <1>2, <2>4, <4>1, LeadingKind
            <4> QED BY <3>1, <4>2, <4>3, SameAttribute, CoversSubset
        <3> QED BY <3>3, <3>4
    <2> QED BY <2>3, <2>4
<1> QED BY <1>1, <1>2

\* Backward subsumption removes only clauses covered by the new one.
LEMMA BackwardCovers ==
  ASSUME NEW m \in Modes, NEW c \in Clauses, NEW d \in Clauses,
         OneKind(c), OneKind(d), d # {}, indexBackward(m, c, d)
  PROVE  Covers(m, c, d)
<1>1. CASE c = {}
    BY <1>1 DEF Covers
<1>2. CASE c # {}
    <2>1. backwardTestData(m, c, d)
        BY DEF indexBackward
    <2>2. /\ leadingAttribute(c) \in {"initial", "universal", "step_now", "step_next"}
          /\ leadingAttribute(d) \in {"initial", "universal", "step_now", "step_next"}
        BY <1>2, LeadingKind DEF Attributes
    <2>3. CASE leadingAttribute(d) = "step_next"
        <3>1. leadingAttribute(c) \in {"step_now", "step_next"} /\ SubsumesHelper(m, c, d)
            BY <2>1, <2>2, <2>3 DEF backwardTestData, areEqual
        <3>2. \A l \in c : l.attr \in {"step_now", "step_next"}
            BY <1>2, <3>1, LeadingKind
        <3> QED BY <2>3, <3>1, <3>2, LeadingKind, HelperOnSteps, CoversSubset
    <2>4. CASE leadingAttribute(d) # "step_next"
        <3>1. leadingAttribute(c) # "step_next"
            BY <2>1, <2>2, <2>4 DEF backwardTestData, areEqual
        <3>2. Keys(c) \subseteq Keys(d)
            BY <2>4, <3>1 DEF indexBackward, Path
        <3>3. \A l \in d : l.attr = leadingAttribute(d)
            BY <2>4, LeadingKind
        <3>4. CASE areEqual(m, leadingAttribute(c), "universal")
            BY <1>2, <2>2, <3>2, <3>3, <3>4, LedUniversal, RetagCovers DEF Attributes
        <3>5. CASE ~ areEqual(m, leadingAttribute(c), "universal")
            <4>1. leadingAttribute(c) = leadingAttribute(d)
                BY <2>1, <2>2, <2>4, <3>5 DEF backwardTestData, areEqual
            <4>2. \A l \in c : l.attr = leadingAttribute(d)
                BY <1>2, <3>1, <4>1, LeadingKind
            <4> QED BY <2>2, <3>2, <3>3, <4>2, SameAttribute, CoversSubset DEF Attributes
        <3> QED BY <3>4, <3>5
    <2> QED BY <2>3, <2>4
<1> QED BY <1>1, <1>2

(***************************************************************************)
(* The clauses the engine builds are clauses of one kind.                  *)
(***************************************************************************)
\* A part of a clause of one kind is a clause of that kind.
LEMMA PartOneKind ==
  ASSUME NEW c, OneKind(c), NEW d, d \subseteq c
  PROVE  OneKind(d)
BY DEF OneKind, AttributesOf

\* Moving a clause to one attribute gives a clause of one kind.
LEMMA RetagOneKind ==
  ASSUME NEW c \in Clauses, NEW a \in Attributes
  PROVE  OneKind(Retag(c, a))
BY DEF OneKind, AttributesOf, Retag, setAttribute, Attributes

\* A literal of a transformed clause: its attribute.
LEMMA TransformedLiteral ==
  ASSUME NEW c \in Clauses, NEW a, NEW b, NEW k \in Transformed(c, a, b),
         \A l \in c : transform(a, b, l.attr) \in Attributes
  PROVE  k \in Literals /\ \E l \in c : k.attr = transform(a, b, l.attr)
<1>1. PICK l \in c : k = setAttribute(l, transform(a, b, l.attr))
    BY DEF Transformed
<1>2. l \in Literals /\ transform(a, b, l.attr) \in Attributes
    BY DEF Clauses
<1> QED BY <1>1, <1>2, RetagLiteral

\* The attributes of a clause under the transformation: compatible clauses of
\* one kind never make AttributeTransformer throw.
LEMMA TransformKind ==
  ASSUME NEW c \in Clauses, OneKind(c), c # {},
         NEW a \in Attributes, a = leadingAttribute(c), NEW b \in Attributes,
         {a, b} # {"initial", "step_next"},
         NEW l \in c
  PROVE  /\ "initial" \in {a, b} => transform(a, b, l.attr) = "initial"
         /\ {a, b} \subseteq {"universal", "step_now"} => transform(a, b, l.attr) = "universal"
         /\ "initial" \notin {a, b} /\ ~ ({a, b} \subseteq {"universal", "step_now"})
              => transform(a, b, l.attr) \in {"step_now", "step_next"}
<1>1. /\ a # "step_next" => l.attr = a
      /\ a = "step_next" => l.attr \in {"step_now", "step_next"}
    BY LeadingKind
<1>2. ASSUME "initial" \in {a, b}
      PROVE  transform(a, b, l.attr) = "initial"
    BY <1>2 DEF transform, Attributes
<1>3. ASSUME {a, b} \subseteq {"universal", "step_now"}
      PROVE  transform(a, b, l.attr) = "universal"
    BY <1>3 DEF transform
<1>4. ASSUME "initial" \notin {a, b}, ~ ({a, b} \subseteq {"universal", "step_now"})
      PROVE  transform(a, b, l.attr) \in {"step_now", "step_next"}
    BY <1>1, <1>4 DEF transform, Attributes
<1> QED BY <1>2, <1>3, <1>4

\* A resolvent of compatible clauses is a clause of one kind.
LEMMA MergedOneKind ==
  ASSUME NEW m \in Modes, NEW c \in Clauses, NEW d \in Clauses,
         OneKind(c), OneKind(d), c # {}, d # {},
         areCompatible(m, leadingAttribute(c), leadingAttribute(d))
  PROVE  Merged(c, d) \in Clauses /\ OneKind(Merged(c, d))
<1> DEFINE a == leadingAttribute(c)
           b == leadingAttribute(d)
           x == c \ {getLeadingLiteral(c)}
           y == d \ {getLeadingLiteral(d)}
<1>1. a \in Attributes /\ b \in Attributes /\ {a, b} # {"initial", "step_next"}
    BY LeadingKind DEF areCompatible, Modes
<1>2. Merged(c, d) = Transformed(x, a, b) \cup Transformed(y, b, a)
    BY DEF Merged
<1>3. x \in Clauses /\ y \in Clauses /\ x \subseteq c /\ y \subseteq d
    BY DEF Clauses
<1>4. PICK T \in {{"initial"}, {"universal"}, {"step_now", "step_next"}} :
          /\ \A l \in c : transform(a, b, l.attr) \in T
          /\ \A l \in d : transform(b, a, l.attr) \in T
    <2>1. CASE "initial" \in {a, b}
        BY <1>1, <2>1, TransformKind
    <2>2. CASE {a, b} \subseteq {"universal", "step_now"}
        BY <1>1, <2>2, TransformKind
    <2>3. CASE "initial" \notin {a, b} /\ ~ ({a, b} \subseteq {"universal", "step_now"})
        BY <1>1, <2>3, TransformKind
    <2> QED BY <2>1, <2>2, <2>3
<1>5. T \subseteq Attributes
    BY DEF Attributes
<1> HIDE DEF a, b, x, y
<1>6. \A k \in Transformed(x, a, b) : k \in Literals /\ \E l \in x : k.attr = transform(a, b, l.attr)
    BY <1>3, <1>4, <1>5, TransformedLiteral
<1>7. \A k \in Transformed(y, b, a) : k \in Literals /\ \E l \in y : k.attr = transform(b, a, l.attr)
    BY <1>3, <1>4, <1>5, TransformedLiteral
<1>8. \A k \in Merged(c, d) : k \in Literals /\ k.attr \in T
    BY <1>2, <1>3, <1>4, <1>6, <1>7
<1> QED BY <1>4, <1>8 DEF OneKind, AttributesOf, Clauses

(***************************************************************************)
(* The inductive invariant.                                                *)
(***************************************************************************)
\* Where the clauses are at each point of the loop.
Shape ==
  /\ \A c \in Held : OneKind(c)
  /\ {} \notin LitsOf(active)
  /\ \A e \in passive \cup working : e.lits = {} => success
  /\ pc \in {"select", "simplify"} => ~ success
  /\ \A e \in active : e.at < clock
  /\ pc # "simplify" => todo = {}
  /\ pc = "simplify" /\ todo = {} => kept = {}
  /\ pc \notin {"simplify", "insert", "fsr"} => kept = {}
  /\ pc # "fsr" => working = {} /\ untried = {}
  /\ \A p, q \in working : p = q

IInv == TypeOK /\ Shape /\ NothingLost /\ ResolventsKept /\ ActiveReduced

\* The invariant holds before the first call.
LEMMA InitInv == Init => IInv
<1> SUFFICES ASSUME Init PROVE IInv
    OBVIOUS
<1>1. TypeOK
    BY FS_EmptySet DEF Init, TypeOK, Modes
<1>2. Shape
    BY DEF Init, Shape, Held, LitsOf
<1>3. NothingLost
    BY DEF Init, NothingLost
<1>4. ResolventsKept /\ ActiveReduced
    BY DEF Init, ResolventsKept, ActiveReduced
<1> QED BY <1>1, <1>2, <1>3, <1>4 DEF IInv

\* Every clause held is a clause.
LEMMA HeldType ==
  ASSUME TypeOK
  PROVE  LitsOf(active) \cup LitsOf(passive) \cup LitsOf(todo)
          \cup LitsOf(kept) \cup LitsOf(working) \subseteq Clauses
BY DEF TypeOK, LitsOf, Entries, Indexed

\* The set a resolution step counts is finite.
LEMMA CountType ==
  ASSUME NEW T, IsFiniteSet(T), NEW P \in SUBSET T
  PROVE  Cardinality(P) \in Nat
BY FS_Subset, FS_CardinalityType

-----------------------------------------------------------------------------
(***************************************************************************)
(* Type correctness, one lemma per action.                                 *)
(***************************************************************************)
\* push_back keeps the types.
LEMMA TypePush ==
  ASSUME TypeOK, NEW lits \in Inputs \cup Candidates, Push(lits)
  PROVE  TypeOK'
<1>1. lits \in Clauses
    BY SaturationAssumption DEF Push
<1>2. passive' \subseteq Indexed /\ given' \subseteq Clauses
    BY <1>1 DEF TypeOK, Push, Indexed
<1>3. pushed' \in Nat /\ nextId' \in Nat
    BY DEF TypeOK, Push
<1> QED BY <1>2, <1>3 DEF TypeOK, Push, resultVars

\* getForLoop keeps the types.
LEMMA TypeGetForLoop ==
  ASSUME TypeOK, GetForLoop
  PROVE  TypeOK'
<1> DEFINE image == {stepForm(e) : e \in universals}
<1>1. universals \subseteq active /\ IsFiniteSet(universals)
    BY FS_Subset DEF TypeOK, universals
<1>2. Cardinality(universals) \in Nat
    BY <1>1, FS_CardinalityType
<1>3. ASSUME NEW e \in universals
      PROVE  stepForm(e) \in Entries
    <2>1. Cardinality({f \in universals : LoopBefore(f, e)}) \in Nat
        BY <1>1, CountType
    <2>2. e.lits \in Clauses /\ e.at \in Nat /\ nextId \in Nat
        BY <1>1 DEF TypeOK, Entries
    <2>3. Retag(e.lits, "step_next") \in Clauses
        BY <2>2, RetagType DEF Attributes
    <2> QED BY <2>1, <2>2, <2>3 DEF Entries, stepForm
<1>4. IsFiniteSet(image)
    <2> DEFINE move == [e \in universals |-> stepForm(e)]
    <2>1. move \in Surjection(universals, image)
        BY DEF Surjection
    <2> HIDE DEF move, image
    <2> QED BY <1>1, <2>1, FS_Surjection
<1>5. active' = {e \in active : IsStep(e)} \cup image
    BY DEF GetForLoop, getForLoop
<1>6. active' \subseteq Entries
    BY <1>3, <1>5 DEF TypeOK
<1>7. IsFiniteSet(active')
    <2>1. IsFiniteSet({e \in active : IsStep(e)})
        BY FS_Subset DEF TypeOK
    <2> HIDE DEF image
    <2> QED BY <1>4, <1>5, <2>1, FS_Union
<1>8. nextId' \in Nat
    BY <1>2 DEF GetForLoop, TypeOK
<1>9. given' \subseteq Clauses /\ preset' \subseteq Clauses /\ background' \subseteq Clauses
    BY <1>6 DEF GetForLoop, LitsOf, Entries, TypeOK
<1> QED BY <1>6, <1>7, <1>8, <1>9 DEF GetForLoop, TypeOK, resultVars, Modes

\* Selecting, activating and resolving a clause keeps the types.
LEMMA TypeActivate ==
  ASSUME TypeOK, Shape, NEW c \in passive, Activate(c)
  PROVE  TypeOK'
<1> DEFINE removed == backwardSubsumed(active, c.lits)
           new == [id |-> c.id, lits |-> c.lits, at |-> clock]
           now == (active \ removed) \cup {new}
<1>1. TypeOK /\ Shape /\ c \in Indexed
    BY DEF TypeOK
<1>2. c.id \in Nat /\ c.lits \in Clauses /\ clock \in Nat
    BY <1>1 DEF Indexed, TypeOK
<1>3. new \in Entries
    BY <1>2 DEF Entries
<1>4. now \subseteq Entries /\ IsFiniteSet(now)
    <2>1. IsFiniteSet(active \ removed)
        BY <1>1, FS_Subset DEF TypeOK
    <2>2. IsFiniteSet({new})
        BY FS_Singleton
    <2>3. IsFiniteSet(now)
        BY <2>1, <2>2, FS_Union
    <2> QED BY <1>1, <1>3, <2>3 DEF TypeOK
<1>5. active' = now /\ todo' = resolve(now, c.lits)
      /\ nextId' = nextId + Cardinality(Partners(now, c.lits))
    BY DEF Activate
<1>6. c.lits # {} /\ OneKind(c.lits)
    BY <1>1 DEF Activate, Shape, Held, LitsOf
<1>7. \A e \in now : e.lits # {} /\ OneKind(e.lits) /\ e.lits \in Clauses
    BY <1>1, <1>2, <1>6 DEF Shape, Held, LitsOf, TypeOK, Entries
<1> HIDE DEF now
<1>8. \A e \in Partners(now, c.lits) : Merged(e.lits, c.lits) \in Clauses
    <2> SUFFICES ASSUME NEW e \in Partners(now, c.lits) PROVE Merged(e.lits, c.lits) \in Clauses
        OBVIOUS
    <2>1. e \in now /\ areCompatible(mode, leadingAttribute(e.lits), leadingAttribute(c.lits))
        BY DEF Partners, resolveMaximals
    <2>2. mode \in Modes
        BY <1>1 DEF TypeOK
    <2> QED BY <1>2, <1>6, <1>7, <2>1, <2>2, MergedOneKind
<1>9. Partners(now, c.lits) \subseteq now
    BY DEF Partners
<1>10. todo' \subseteq Indexed
    <2> SUFFICES ASSUME NEW r \in resolve(now, c.lits) PROVE r \in Indexed
        BY <1>5
    <2>1. PICK e \in Partners(now, c.lits) :
            r = [id   |-> nextId + Cardinality({f \in Partners(now, c.lits) : f.at < e.at}),
                 lits |-> Merged(e.lits, c.lits)]
        BY DEF resolve
    <2>2. {f \in Partners(now, c.lits) : f.at < e.at} \subseteq now
        BY <1>9
    <2>3. Cardinality({f \in Partners(now, c.lits) : f.at < e.at}) \in Nat
        BY <1>4, <2>2, CountType
    <2> QED BY <1>1, <1>8, <1>9, <2>1, <2>3 DEF Indexed, TypeOK
<1>11. nextId' \in Nat
    BY <1>1, <1>4, <1>5, <1>9, CountType DEF TypeOK
<1>12. pc' = "simplify" /\ clock' = clock + 1 /\ passive' \subseteq passive
       /\ anythingNew' \in BOOLEAN
    BY <1>1 DEF Activate, TypeOK
<1>13. UNCHANGED <<kept, working, untried, success, mode, pushed, calls, given, background, preset>>
    BY DEF Activate, callerVars
<1>14. active' \subseteq Entries /\ IsFiniteSet(active')
    BY <1>4, <1>5
<1>15. clock' \in Nat
    BY <1>1, <1>12 DEF TypeOK
<1> QED BY <1>1, <1>10, <1>11, <1>12, <1>13, <1>14, <1>15 DEF TypeOK

\* The other steps of saturate move clauses about or shorten them.
LEMMA TypeStep ==
  ASSUME TypeOK, Shape, Step
  PROVE  TypeOK'
<1> USE DEF TypeOK, searchVars, resultVars, callerVars
<1>1. TypeOK
    OBVIOUS
<1>2. ASSUME NEW c \in passive, SelectRedundant(c)
      PROVE  TypeOK'
    BY <1>1, <1>2 DEF SelectRedundant
<1>3. ASSUME NEW c \in passive, Activate(c)
      PROVE  TypeOK'
    BY <1>3, TypeActivate
<1>4. ASSUME NEW p \in todo, Simplify(p)
      PROVE  TypeOK'
    BY <1>1, <1>4 DEF Simplify
<1>5. ASSUME NEW p \in kept, Insert(p)
      PROVE  TypeOK'
    <2>1. p \in Indexed /\ p.lits \subseteq Literals
        BY <1>1 DEF Indexed, Clauses
    <2>2. /\ working' \subseteq Indexed /\ untried' \subseteq Literals /\ passive' \subseteq Indexed
          /\ pc' \in {"insert", "fsr"} /\ kept' \subseteq Indexed
        BY <1>1, <1>5, <2>1 DEF Insert
    <2>3. success' \in BOOLEAN
        BY <1>1, <1>5 DEF Insert
    <2> QED BY <1>1, <1>5, <2>2, <2>3 DEF Insert
<1>6. ASSUME NEW p \in working, NEW l \in untried, SimplifyByFS(p, l)
      PROVE  TypeOK'
    <2> DEFINE shorter == [p EXCEPT !.lits = p.lits \ {l}]
    <2>1. p \in Indexed
        BY <1>1
    <2>2. shorter \in Indexed
        BY <2>1 DEF Indexed, Clauses
    <2>3. working' \subseteq Indexed /\ success' \in BOOLEAN
        BY <1>1, <1>6, <2>2 DEF SimplifyByFS
    <2> QED BY <1>1, <1>6, <2>3 DEF SimplifyByFS
<1>7. CASE EndFSR
    BY <1>1, <1>7 DEF EndFSR
<1>8. CASE EndIteration
    BY <1>1, <1>8 DEF EndIteration
<1>9. CASE EndSaturate
    BY <1>1, <1>9 DEF EndSaturate
<1> QED BY <1>2, <1>3, <1>4, <1>5, <1>6, <1>7, <1>8, <1>9 DEF Step

\* Every operation keeps the types.
LEMMA TypeNext ==
  ASSUME IInv, [Next]_vars
  PROVE  TypeOK'
<1>1. TypeOK /\ Shape
    BY DEF IInv
<1>2. ASSUME NEW lits \in Inputs \cup Candidates, Push(lits)
      PROVE  TypeOK'
    BY <1>1, <1>2, TypePush
<1>3. CASE Saturate
    <2>1. pc' = "select" /\ anythingNew' = FALSE /\ calls' = calls + 1
        BY <1>3 DEF Saturate
    <2>2. UNCHANGED <<active, passive, todo, kept, working, untried, success, nextId,
                      clock, mode, pushed, given, background, preset>>
        BY <1>3 DEF Saturate, searchVars
    <2>3. pc' \in {"idle", "select", "simplify", "insert", "fsr"} /\ calls' \in Nat
        BY <1>1, <2>1 DEF TypeOK
    <2>4. anythingNew' \in BOOLEAN
        BY <2>1
    <2> QED BY <1>1, <2>2, <2>3, <2>4 DEF TypeOK
<1>4. CASE GetForLoop
    BY <1>1, <1>4, TypeGetForLoop
<1>5. CASE Step
    BY <1>1, <1>5, TypeStep
<1>6. CASE UNCHANGED vars
    BY <1>1, <1>6 DEF TypeOK, vars, searchVars, resultVars, callerVars
<1> QED BY <1>2, <1>3, <1>4, <1>5, <1>6 DEF Next

-----------------------------------------------------------------------------
(***************************************************************************)
(* A step of saturate forgets nothing.                                     *)
(***************************************************************************)
\* Whatever the engine holds before a step of saturate is covered by what it
\* holds afterwards: forward, backward and mutual subsumption and FSR give
\* up a clause only for one that covers it.
LEMMA StepCovers ==
  ASSUME TypeOK, Shape, Step, NEW d \in Held
  PROVE  CoveredBy(mode, Held', d)
<1>1. TypeOK /\ Shape /\ mode \in Modes
    BY DEF TypeOK
<1>2. Held \subseteq Clauses
    BY <1>1, HeldType DEF Held
<1>3. ASSUME d \in Held'
      PROVE  CoveredBy(mode, Held', d)
    BY <1>3, CoversSubset DEF CoveredBy
<1>4. ASSUME NEW S, NEW c \in Indexed, S \subseteq active \cup passive,
             forwardSubsumed(S, c.lits), d = c.lits
      PROVE  \E e \in S : Covers(mode, e.lits, d)
    <2>1. c.lits # {} /\ \E e \in S : indexForward(mode, e.lits, c.lits)
        BY <1>4 DEF forwardSubsumed
    <2>2. \A e \in S : e.lits \in Held
        BY <1>4 DEF Held, LitsOf
    <2>3. \A e \in S : OneKind(e.lits) /\ e.lits \in Clauses
        BY <1>1, <1>2, <2>2 DEF Shape
    <2>4. OneKind(d)
        BY <1>1 DEF Shape
    <2> QED BY <1>1, <1>2, <1>4, <2>1, <2>3, <2>4, ForwardCovers
<1>5. ASSUME NEW c \in passive, SelectRedundant(c)
      PROVE  CoveredBy(mode, Held', d)
    <2>1. CASE d = c.lits
        <3>1. PICK e \in active : Covers(mode, e.lits, d)
            BY <1>1, <1>4, <1>5, <2>1 DEF SelectRedundant, TypeOK
        <3>2. e.lits \in Held'
            BY <1>5 DEF SelectRedundant, Held, LitsOf
        <3> QED BY <3>1, <3>2 DEF CoveredBy
    <2>2. CASE d # c.lits
        <3>1. d \in Held'
            BY <1>5, <2>2 DEF SelectRedundant, Held, LitsOf
        <3> QED BY <1>3, <3>1
    <2> QED BY <2>1, <2>2
<1>6. ASSUME NEW c \in passive, Activate(c)
      PROVE  CoveredBy(mode, Held', d)
    <2> DEFINE removed == backwardSubsumed(active, c.lits)
               new == [id |-> c.id, lits |-> c.lits, at |-> clock]
    <2>1. /\ active' = (active \ removed) \cup {new}
          /\ passive' = passive \ {c} /\ kept' = kept /\ working' = working
        BY <1>6 DEF Activate
    <2>2. todo = {}
        BY <1>1, <1>6 DEF Activate, Shape
    <2>6. new.lits = c.lits
        OBVIOUS
    <2>3. c.lits \in Held /\ c.lits \in LitsOf(active')
        <3> HIDE DEF new, removed
        <3> QED BY <2>1, <2>6 DEF Held, LitsOf
    <2>4. CASE \E e \in removed : d = e.lits
        <3>1. d # {} /\ indexBackward(mode, c.lits, d)
            BY <1>1, <2>4 DEF Shape, LitsOf, backwardSubsumed
        <3>2. Covers(mode, c.lits, d)
            BY <1>1, <1>2, <2>3, <3>1, BackwardCovers DEF Shape
        <3> QED BY <2>3, <3>2 DEF CoveredBy, Held
    <2>5. CASE ~ \E e \in removed : d = e.lits
        <3>1. d \in LitsOf(active') \cup LitsOf(passive') \cup LitsOf(kept') \cup LitsOf(working')
            <4> HIDE DEF removed, new
            <4> QED BY <2>1, <2>2, <2>3, <2>5 DEF Held, LitsOf
        <3> QED BY <1>3, <3>1 DEF Held
    <2> QED BY <2>4, <2>5
<1>7. ASSUME NEW p \in todo, Simplify(p)
      PROVE  CoveredBy(mode, Held', d)
    <2>1. /\ active' = active /\ passive' = passive /\ working' = working
          /\ todo' = todo \ {p}
          /\ kept' = IF redundant(p) THEN kept ELSE kept \cup {p}
        BY <1>7 DEF Simplify
    <2>2. ASSUME NEW e \in active \cup passive \cup ((todo \cup kept) \ {p})
          PROVE  e.lits \in Held /\ e.lits \in Held'
        BY <2>1 DEF Held, LitsOf
    <2>3. CASE d = p.lits /\ redundant(p)
        <3>1. CASE innerSubsumed(p)
            <4>1. CASE \E e \in (todo \cup kept) \ {p} : clauseSubsumes(e, p)
                <5>1. PICK e \in (todo \cup kept) \ {p} : clauseSubsumesHelper(mode, e.lits, p.lits)
                    BY <4>1 DEF clauseSubsumes
                <5>2. Covers(mode, e.lits, d)
                    BY <1>1, <1>2, <2>2, <2>3, <5>1, SubsumesCovers DEF Shape
                <5> QED BY <2>2, <5>2 DEF CoveredBy
            <4>2. CASE d = {}
                <5>1. PICK e \in kept : e.lits = {}
                    BY <2>3, <3>1, <4>2 DEF innerSubsumed
                <5>2. e.lits \in Held'
                    BY <2>1 DEF Held, LitsOf
                <5> QED BY <4>2, <5>1, <5>2, <1>3
            <4>3. CASE d # {} /\ \E e \in (todo \cup kept) \ {p} : e.lits = {}
                <5>1. {} \in Held'
                    BY <2>2, <4>3
                <5> QED BY <5>1, CoversSubset DEF CoveredBy
            <4> QED BY <2>3, <3>1, <4>1, <4>2, <4>3 DEF innerSubsumed
        <3>2. CASE forwardSubsumed(active, p.lits)
            <4>1. PICK e \in active : Covers(mode, e.lits, d)
                BY <1>1, <1>4, <2>3, <3>2 DEF TypeOK
            <4> QED BY <2>2, <4>1 DEF CoveredBy
        <3>3. CASE forwardSubsumed(passive, p.lits)
            <4>1. PICK e \in passive : Covers(mode, e.lits, d)
                BY <1>1, <1>4, <2>3, <3>3 DEF TypeOK
            <4> QED BY <2>2, <4>1 DEF CoveredBy
        <3> QED BY <2>3, <3>1, <3>2, <3>3 DEF redundant
    <2>4. CASE ~ (d = p.lits /\ redundant(p))
        <3>1. d \in Held'
            BY <2>1, <2>4 DEF Held, LitsOf
        <3> QED BY <1>3, <3>1
    <2> QED BY <2>3, <2>4
<1>8. ASSUME NEW p \in kept, Insert(p)
      PROVE  CoveredBy(mode, Held', d)
    <2>1. working = {}
        BY <1>1, <1>8 DEF Insert, Shape
    <2>2. d \in Held'
        BY <1>8, <2>1 DEF Insert, Held, LitsOf
    <2> QED BY <1>3, <2>2
<1>9. ASSUME NEW p \in working, NEW l \in untried, SimplifyByFS(p, l)
      PROVE  CoveredBy(mode, Held', d)
    <2> DEFINE shorter == [p EXCEPT !.lits = p.lits \ {l}]
    <2>1. p \in Indexed /\ \A q \in working : q = p
        BY <1>1 DEF Shape, TypeOK
    <2>2. shorter.lits = p.lits \ {l}
        BY <2>1 DEF Indexed
    <2>3. /\ active' = active /\ passive' = passive /\ todo' = todo /\ kept' = kept
          /\ working' = {shorter} \/ working' = working
        BY <1>9 DEF SimplifyByFS
    <2>4. CASE d = p.lits /\ working' = {shorter}
        <3>1. shorter.lits \in Held'
            BY <2>4 DEF Held, LitsOf
        <3>2. shorter.lits \subseteq d
            BY <2>2, <2>4
        <3> QED BY <3>1, <3>2, CoversSubset DEF CoveredBy
    <2>5. CASE ~ (d = p.lits /\ working' = {shorter})
        <3>1. d \in Held'
            BY <2>1, <2>3, <2>5 DEF Held, LitsOf
        <3> QED BY <1>3, <3>1
    <2> QED BY <2>4, <2>5
<1>10. CASE EndFSR
    <2>1. d \in Held'
        BY <1>10 DEF EndFSR, Held, LitsOf
    <2> QED BY <1>3, <2>1
<1>11. CASE EndIteration \/ EndSaturate
    <2>1. d \in Held'
        BY <1>11 DEF EndIteration, EndSaturate, searchVars, Held, LitsOf
    <2> QED BY <1>3, <2>1
<1> QED BY <1>5, <1>6, <1>7, <1>8, <1>9, <1>10, <1>11 DEF Step

-----------------------------------------------------------------------------
(***************************************************************************)
(* The shape of the loop.                                                  *)
(***************************************************************************)
\* Activating a clause keeps the shape.
LEMMA ShapeActivate ==
  ASSUME TypeOK, Shape, NEW c \in passive, Activate(c)
  PROVE  Shape'
<1> DEFINE removed == backwardSubsumed(active, c.lits)
           new == [id |-> c.id, lits |-> c.lits, at |-> clock]
           now == (active \ removed) \cup {new}
<1>1. TypeOK /\ Shape
    OBVIOUS
<1>2. /\ active' = now /\ passive' = passive \ {c} /\ todo' = resolve(now, c.lits)
      /\ clock' = clock + 1 /\ pc' = "simplify" /\ pc = "select"
      /\ UNCHANGED <<kept, working, untried, success>>
    BY DEF Activate
<1>3. new.lits = c.lits /\ new.at = clock
    OBVIOUS
<1>4. c \in Indexed /\ c.lits \in Clauses /\ OneKind(c.lits) /\ c.lits # {}
    BY <1>1, <1>2 DEF TypeOK, Indexed, Shape, Held, LitsOf
<1>5. \A e \in active : e.lits \in Clauses /\ OneKind(e.lits) /\ e.lits # {}
    BY <1>1 DEF TypeOK, Entries, Shape, Held, LitsOf
<1>6. \A e \in now : e.lits \in Clauses /\ OneKind(e.lits) /\ e.lits # {}
    <2> HIDE DEF new, removed
    <2> QED BY <1>3, <1>4, <1>5
<1>7. \A r \in todo' : OneKind(r.lits)
    <2> SUFFICES ASSUME NEW r \in resolve(now, c.lits) PROVE OneKind(r.lits)
        BY <1>2
    <2> HIDE DEF now
    <2>1. PICK e \in Partners(now, c.lits) :
            r = [id   |-> nextId + Cardinality({f \in Partners(now, c.lits) : f.at < e.at}),
                 lits |-> Merged(e.lits, c.lits)]
        BY DEF resolve
    <2>2. /\ e \in now /\ r.lits = Merged(e.lits, c.lits)
          /\ areCompatible(mode, leadingAttribute(e.lits), leadingAttribute(c.lits))
        BY <2>1 DEF Partners, resolveMaximals
    <2>3. mode \in Modes
        BY <1>1 DEF TypeOK
    <2> QED BY <1>4, <1>6, <2>2, <2>3, MergedOneKind
<1>8. \A e \in active' : e.at < clock'
    <2>1. \A e \in active : e.at \in Nat /\ e.at < clock
        BY <1>1 DEF TypeOK, Entries, Shape
    <2>2. clock \in Nat
        BY <1>1 DEF TypeOK
    <2> HIDE DEF new, removed
    <2> QED BY <1>2, <1>3, <2>1, <2>2
<1> HIDE DEF now
<1>9. \A x \in Held' : OneKind(x)
    BY <1>1, <1>2, <1>6, <1>7 DEF Shape, Held, LitsOf
<1>10. {} \notin LitsOf(active')
    BY <1>2, <1>6 DEF LitsOf
<1>11. kept' = {} /\ working' = {} /\ untried' = {} /\ ~ success'
       /\ \A e \in passive' : e.lits # {}
    BY <1>1, <1>2 DEF Shape
<1> QED BY <1>2, <1>8, <1>9, <1>10, <1>11 DEF Shape

\* The other steps of saturate keep the shape.
LEMMA ShapeStep ==
  ASSUME TypeOK, Shape, Step
  PROVE  Shape'
<1>1. TypeOK /\ Shape
    OBVIOUS
<1>2. ASSUME NEW c \in passive, SelectRedundant(c)
      PROVE  Shape'
    BY <1>1, <1>2 DEF SelectRedundant, Shape, Held, LitsOf, resultVars
<1>3. ASSUME NEW c \in passive, Activate(c)
      PROVE  Shape'
    BY <1>3, ShapeActivate
<1>4. ASSUME NEW p \in todo, Simplify(p)
      PROVE  Shape'
    <2>1. /\ UNCHANGED <<active, passive, working, untried, success, clock>>
          /\ todo' \subseteq todo /\ kept' \subseteq kept \cup todo
          /\ pc = "simplify" /\ pc' = IF todo' = {} THEN "insert" ELSE "simplify"
        BY <1>4 DEF Simplify, resultVars
    <2>2. Held' \subseteq Held
        BY <2>1 DEF Held, LitsOf
    <2> QED BY <1>1, <2>1, <2>2 DEF Shape
<1>5. ASSUME NEW p \in kept, Insert(p)
      PROVE  Shape'
    <2>1. /\ pc = "insert" /\ kept' = kept \ {p} /\ UNCHANGED <<active, todo, clock>>
          /\ success' = (success \/ p.lits = {})
          /\ \/ working' = {p} /\ pc' = "fsr" /\ passive' = passive /\ ~ success'
             \/ passive' = passive \cup {p} /\ UNCHANGED <<pc, working, untried>>
        BY <1>5 DEF Insert
    <2>2. working = {} /\ todo = {}
        BY <1>1, <2>1 DEF Shape
    <2>3. Held' \subseteq Held
        BY <2>1, <2>2 DEF Held, LitsOf
    <2>4. \A e \in passive' \cup working' : e.lits = {} => success'
        BY <1>1, <2>1, <2>2 DEF Shape
    <2> QED BY <1>1, <2>1, <2>2, <2>3, <2>4 DEF Shape
<1>6. ASSUME NEW p \in working, NEW l \in untried, SimplifyByFS(p, l)
      PROVE  Shape'
    <2> DEFINE shorter == [p EXCEPT !.lits = p.lits \ {l}]
    <2>1. p \in Indexed /\ p.lits \in Held
        BY <1>1 DEF TypeOK, Held, LitsOf
    <2>2. shorter.lits = p.lits \ {l}
        BY <2>1 DEF Indexed
    <2>3. OneKind(shorter.lits)
        BY <1>1, <2>1, <2>2, PartOneKind DEF Shape
    <2>4. /\ pc = "fsr" /\ UNCHANGED <<pc, active, passive, todo, kept, clock>>
          /\ \/ working' = {shorter} /\ success' = (success \/ shorter.lits = {})
             \/ UNCHANGED <<working, success>>
        BY <1>6 DEF SimplifyByFS
    <2> HIDE DEF shorter
    <2>5. \A x \in Held' : OneKind(x)
        BY <1>1, <2>3, <2>4 DEF Shape, Held, LitsOf
    <2>6. \A e \in passive' \cup working' : e.lits = {} => success'
        <3>1. success => success'
            BY <2>4
        <3>2. shorter.lits = {} /\ working' = {shorter} => success' \/ UNCHANGED working
            BY <2>4
        <3>3. \A e \in passive \cup working : e.lits = {} => success
            BY <1>1 DEF Shape
        <3> QED BY <2>4, <3>1, <3>2, <3>3
    <2>7. \A a, b \in working' : a = b
        BY <1>1, <2>4 DEF Shape
    <2>8. {} \notin LitsOf(active')
        BY <1>1, <2>4 DEF Shape
    <2> QED BY <1>1, <2>4, <2>5, <2>6, <2>7, <2>8 DEF Shape
<1>7. CASE EndFSR
    <2>1. /\ pc = "fsr" /\ pc' = "insert" /\ passive' = passive \cup working /\ working' = {}
          /\ untried' = {} /\ UNCHANGED <<active, todo, kept, success, clock>>
        BY <1>7 DEF EndFSR, resultVars
    <2>2. Held' \subseteq Held
        BY <2>1 DEF Held, LitsOf
    <2> QED BY <1>1, <2>1, <2>2 DEF Shape
<1>8. CASE EndIteration \/ EndSaturate
    <2>1. /\ UNCHANGED <<active, passive, todo, kept, working, untried, success, clock>>
          /\ pc' \in {"idle", "select"}
          /\ pc' = "select" => ~ success
          /\ pc \in {"simplify", "insert", "select"}
          /\ pc = "simplify" => todo = {}
          /\ pc = "insert" => kept = {}
        BY <1>8 DEF EndIteration, EndSaturate, searchVars, resultVars
    <2>2. Held' = Held
        BY <2>1 DEF Held
    <2>3. todo = {} /\ working = {} /\ untried = {}
        BY <1>1, <2>1 DEF Shape
    <2>4. kept = {}
        BY <1>1, <1>8, <2>1 DEF Shape, EndIteration, EndSaturate
    <2>5. pc' \in {"select", "simplify"} => ~ success'
        BY <2>1
    <2>6. \A e \in passive' \cup working' : e.lits = {} => success'
        BY <1>1, <2>1 DEF Shape
    <2>7. /\ \A c \in Held' : OneKind(c)
          /\ {} \notin LitsOf(active')
          /\ \A e \in active' : e.at < clock'
        BY <1>1, <2>1, <2>2 DEF Shape
    <2> QED BY <2>1, <2>3, <2>4, <2>5, <2>6, <2>7 DEF Shape
<1> QED BY <1>2, <1>3, <1>4, <1>5, <1>6, <1>7, <1>8 DEF Step

\* push_back keeps the shape.
LEMMA ShapePush ==
  ASSUME TypeOK, Shape, NEW lits \in Inputs \cup Candidates, Push(lits)
  PROVE  Shape'
<1> DEFINE pushedClause == [id |-> nextId, lits |-> lits]
<1>1. OneKind(lits) /\ lits # {}
    BY SaturationAssumption DEF OneKind, AttributesOf, NextPart
<1>2. /\ pc = "idle" /\ UNCHANGED <<pc, active, todo, kept, working, untried, success, clock>>
      /\ passive' \subseteq passive \cup {pushedClause}
    BY DEF Push, resultVars
<1>3. pushedClause.lits = lits
    OBVIOUS
<1> HIDE DEF pushedClause
<1>4. \A c \in Held' : OneKind(c)
    BY <1>1, <1>2, <1>3 DEF Shape, Held, LitsOf
<1>5. \A e \in passive' \cup working' : e.lits = {} => success'
    BY <1>1, <1>2, <1>3 DEF Shape
<1> QED BY <1>2, <1>4, <1>5 DEF Shape

\* What the caller does keeps the shape.
LEMMA ShapeNext ==
  ASSUME IInv, [Next]_vars
  PROVE  Shape'
<1>1. TypeOK /\ Shape
    BY DEF IInv
<1>2. ASSUME NEW lits \in Inputs \cup Candidates, Push(lits)
      PROVE  Shape'
    BY <1>1, <1>2, ShapePush
<1>3. CASE Saturate
    <2>1. /\ UNCHANGED <<active, passive, todo, kept, working, untried, success, clock>>
          /\ pc = "idle" /\ pc' = "select" /\ ~ success
        BY <1>3 DEF Saturate, searchVars
    <2>2. Held' = Held
        BY <2>1 DEF Held
    <2>3. ~ success'
        BY <2>1
    <2>4. \A e \in passive' \cup working' : e.lits = {} => success'
        BY <1>1, <2>1 DEF Shape
    <2> QED BY <1>1, <2>1, <2>2, <2>3, <2>4 DEF Shape
<1>4. CASE GetForLoop
    <2>1. /\ active' = {e \in active : IsStep(e)} \cup {stepForm(e) : e \in universals}
          /\ universals \subseteq active
        BY <1>4 DEF GetForLoop, getForLoop, universals
    <2>2. /\ pc = "idle" /\ UNCHANGED <<pc, passive, todo, kept, working, untried, success, clock>>
        BY <1>4 DEF GetForLoop, resultVars
    <2>3. ASSUME NEW e \in active
          PROVE  /\ e.lits \in Clauses /\ e.lits # {} /\ OneKind(e.lits) /\ e.at < clock
        BY <1>1 DEF TypeOK, Entries, Shape, Held, LitsOf
    <2>4. ASSUME NEW e \in universals
          PROVE  /\ stepForm(e).lits = Retag(e.lits, "step_next") /\ stepForm(e).at = e.at
                 /\ stepForm(e).lits # {} /\ OneKind(stepForm(e).lits)
        <3>1. stepForm(e).lits = Retag(e.lits, "step_next") /\ stepForm(e).at = e.at
            BY DEF stepForm
        <3>2. OneKind(Retag(e.lits, "step_next")) /\ Retag(e.lits, "step_next") # {}
            BY <2>1, <2>3, RetagOneKind DEF Attributes, Retag
        <3> QED BY <3>1, <3>2
    <2>5. \A e \in active' : e.lits # {} /\ OneKind(e.lits) /\ e.at < clock
        BY <2>1, <2>3, <2>4
    <2>6. \A c \in Held' : OneKind(c)
        BY <1>1, <2>2, <2>5 DEF Shape, Held, LitsOf
    <2>7. {} \notin LitsOf(active')
        BY <2>5 DEF LitsOf
    <2>8. \A e \in passive' \cup working' : e.lits = {} => success'
        BY <1>1, <2>2 DEF Shape
    <2> QED BY <1>1, <2>2, <2>5, <2>6, <2>7, <2>8 DEF Shape
<1>5. CASE Step
    BY <1>1, <1>5, ShapeStep
<1>6. CASE UNCHANGED vars
    BY <1>1, <1>6 DEF Shape, Held, vars, searchVars, resultVars
<1> QED BY <1>2, <1>3, <1>4, <1>5, <1>6 DEF Next

-----------------------------------------------------------------------------
(***************************************************************************)
(* The invariants proper.                                                  *)
(***************************************************************************)
\* Coverage survives a step of saturate.
LEMMA CoverageKept ==
  ASSUME TypeOK, Shape, Step, NEW c \in Clauses, CoveredBy(mode, Held, c)
  PROVE  CoveredBy(mode', Held', c)
<1>1. PICK d \in Held : Covers(mode, d, c)
    BY DEF CoveredBy
<1>2. PICK e \in Held' : Covers(mode, e, d)
    BY StepCovers DEF CoveredBy
<1>3. TypeOK /\ TypeOK'
    BY TypeStep
<1>4. d \in Clauses
    BY <1>3, HeldType DEF Held
<1>5. e \in Clauses
    BY <1>3, HeldType DEF Held, LitsOf, TypeOK, Entries, Indexed
<1>6. mode \in Modes
    BY <1>3 DEF TypeOK
<1>7. Covers(mode, e, c)
    BY <1>1, <1>2, <1>4, <1>5, <1>6, CoversTransitive
<1>8. mode' = mode
    BY DEF Step, SelectRedundant, Activate, Simplify, Insert, SimplifyByFS, EndFSR,
           EndIteration, EndSaturate, callerVars
<1> QED BY <1>2, <1>7, <1>8 DEF CoveredBy

\* No step of saturate touches what the caller owns.
LEMMA StepFrame ==
  ASSUME Step
  PROVE  UNCHANGED <<mode, pushed, calls, given, background, preset>>
BY DEF Step, SelectRedundant, Activate, Simplify, Insert, SimplifyByFS, EndFSR,
       EndIteration, EndSaturate, callerVars

\* NothingLost is kept.
LEMMA NothingLostNext ==
  ASSUME IInv, [Next]_vars
  PROVE  NothingLost'
<1>1. TypeOK /\ Shape /\ NothingLost
    BY DEF IInv
<1>2. ASSUME NEW lits \in Inputs \cup Candidates, Push(lits)
      PROVE  NothingLost'
    <2> DEFINE pushedClause == [id |-> nextId, lits |-> lits]
    <2>1. Held \subseteq Held' /\ mode' = mode
        BY <1>2 DEF Push, Held, LitsOf
    <2>2. ASSUME lits \in given', lits \notin given
          PROVE  lits \in Held'
        <3>1. passive' = passive \cup {pushedClause}
            BY <1>2, <2>2 DEF Push
        <3>2. pushedClause.lits = lits
            OBVIOUS
        <3> HIDE DEF pushedClause
        <3> QED BY <3>1, <3>2 DEF Held, LitsOf
    <2>3. given' \subseteq given \cup {lits}
        BY <1>2 DEF Push
    <2>4. ASSUME NEW c \in given'
          PROVE  CoveredBy(mode', Held', c)
        <3>1. CASE c \in given
            BY <1>1, <2>1, <3>1 DEF NothingLost, CoveredBy
        <3>2. CASE c \notin given
            BY <2>2, <2>3, <3>2, CoversSubset DEF CoveredBy
        <3> QED BY <3>1, <3>2
    <2> QED BY <2>4 DEF NothingLost
<1>3. CASE Saturate
    <2>1. Held' = Held /\ mode' = mode /\ given' = given
        BY <1>3 DEF Saturate, searchVars, Held
    <2> QED BY <1>1, <2>1 DEF NothingLost
<1>4. CASE GetForLoop
    <2>1. given' = LitsOf(active') /\ given' \subseteq Held'
        BY <1>4 DEF GetForLoop, Held
    <2> QED BY <2>1, CoversSubset DEF NothingLost, CoveredBy
<1>5. CASE Step
    <2>1. given' = given /\ given \subseteq Clauses
        BY <1>1, <1>5, StepFrame DEF TypeOK
    <2> QED BY <1>1, <1>5, <2>1, CoverageKept DEF NothingLost
<1>6. CASE UNCHANGED vars
    <2>1. Held' = Held /\ mode' = mode /\ given' = given
        BY <1>6 DEF vars, searchVars, callerVars, Held
    <2> QED BY <1>1, <2>1 DEF NothingLost
<1> QED BY <1>2, <1>3, <1>4, <1>5, <1>6 DEF Next

\* What a resolution of two active clauses yields is a clause.
LEMMA ResolventType ==
  ASSUME TypeOK, Shape, NEW e \in active, NEW f \in active,
         NEW r \in resolveMaximals(mode, e.lits, f.lits)
  PROVE  r \in Clauses /\ r = Merged(e.lits, f.lits)
<1>1. /\ e.lits \in Clauses /\ f.lits \in Clauses
      /\ OneKind(e.lits) /\ OneKind(f.lits)
      /\ e.lits # {} /\ f.lits # {}
    BY DEF TypeOK, Entries, Shape, Held, LitsOf
<1>2. /\ r = Merged(e.lits, f.lits) /\ mode \in Modes
      /\ areCompatible(mode, leadingAttribute(e.lits), leadingAttribute(f.lits))
    BY DEF resolveMaximals, TypeOK
<1>3. Merged(e.lits, f.lits) \in Clauses
    BY <1>1, <1>2, MergedOneKind
<1> QED BY <1>2, <1>3

\* Two active clauses of A, e the older, not both in X, have their resolvent
\* covered by H.
PairsKept(m, A, H, X) ==
  \A e, f \in A :
    /\ e.at < f.at
    /\ ~ ({e.lits, f.lits} \subseteq X)
    /\ Complementary(e.lits, f.lits)
    => \A r \in resolveMaximals(m, e.lits, f.lits) : CoveredBy(m, H, r)

\* Activating a clause resolves it with every older active clause, and the
\* resolvents of the others stay covered.
LEMMA PairsStep ==
  ASSUME TypeOK, Shape, Step, NEW X, PairsKept(mode, active, Held, X)
  PROVE  PairsKept(mode', active', Held', X)
<1>1. mode' = mode
    BY StepFrame
<1>2. ASSUME NEW e \in active, NEW f \in active,
             e.at < f.at, ~ ({e.lits, f.lits} \subseteq X), Complementary(e.lits, f.lits),
             NEW r \in resolveMaximals(mode, e.lits, f.lits)
      PROVE  CoveredBy(mode', Held', r)
    <2>1. r \in Clauses
        BY ResolventType
    <2>2. CoveredBy(mode, Held, r)
        BY <1>2 DEF PairsKept
    <2> QED BY <2>1, <2>2, CoverageKept
<1>3. ASSUME NEW c \in passive, Activate(c)
      PROVE  PairsKept(mode', active', Held', X)
    <2> DEFINE removed == backwardSubsumed(active, c.lits)
               new == [id |-> c.id, lits |-> c.lits, at |-> clock]
               now == (active \ removed) \cup {new}
    <2>1. /\ active' = now /\ todo' = resolve(now, c.lits)
        BY <1>3 DEF Activate, callerVars
    <2>2. \A e \in active : e.at < clock /\ e.at \in Nat /\ clock \in Nat
        BY DEF Shape, TypeOK, Entries
    <2>3. new.lits = c.lits /\ new.at = clock
        OBVIOUS
    <2>4. removed \subseteq active
        BY DEF backwardSubsumed
    <2>5. clock \in Nat
        BY DEF TypeOK
    <2> HIDE DEF new, removed
    <2> SUFFICES ASSUME NEW e \in active', NEW f \in active',
                        e.at < f.at, ~ ({e.lits, f.lits} \subseteq X),
                        Complementary(e.lits, f.lits),
                        NEW r \in resolveMaximals(mode, e.lits, f.lits)
                 PROVE  CoveredBy(mode', Held', r)
        BY <1>1 DEF PairsKept
    <2>6. e \in active
        BY <2>1, <2>2, <2>3, <2>5
    <2>7. CASE f \in active
        BY <1>2, <2>6, <2>7
    <2>8. CASE f = new
        <3>1. resolveMaximals(mode, e.lits, c.lits) # {} /\ r = Merged(e.lits, c.lits)
            BY <2>3, <2>8 DEF resolveMaximals
        <3>2. e \in Partners(now, c.lits)
            BY <2>1, <2>3, <2>8, <3>1 DEF Partners
        <3>3. \E t \in resolve(now, c.lits) : t.lits = r
            <4> HIDE DEF now
            <4> DEFINE t == [id   |-> nextId + Cardinality({g \in Partners(now, c.lits) : g.at < e.at}),
                             lits |-> Merged(e.lits, c.lits)]
            <4>1. t \in resolve(now, c.lits)
                BY <3>2 DEF resolve
            <4>2. t.lits = r
                BY <3>1
            <4> QED BY <4>1, <4>2
        <3>4. r \in Held'
            BY <2>1, <3>3 DEF Held, LitsOf
        <3> QED BY <3>4, CoversSubset DEF CoveredBy
    <2> QED BY <2>1, <2>4, <2>7, <2>8
<1>4. CASE active' = active
    BY <1>1, <1>2, <1>4 DEF PairsKept
<1>5. active' = active \/ \E c \in passive : Activate(c)
    BY DEF Step, SelectRedundant, Simplify, Insert, SimplifyByFS, EndFSR,
           EndIteration, EndSaturate, searchVars
<1> QED BY <1>3, <1>4, <1>5

\* ResolventsKept is kept.
LEMMA ResolventsNext ==
  ASSUME IInv, [Next]_vars
  PROVE  ResolventsKept'
<1>1. TypeOK /\ Shape /\ ResolventsKept
    BY DEF IInv
<1>2. ASSUME active' = active, mode' = mode, preset' = preset, Held \subseteq Held'
      PROVE  ResolventsKept'
    BY <1>1, <1>2 DEF ResolventsKept, CoveredBy
<1>3. ASSUME NEW lits \in Inputs \cup Candidates, Push(lits)
      PROVE  ResolventsKept'
    BY <1>2, <1>3 DEF Push, Held, LitsOf
<1>4. CASE Saturate
    BY <1>2, <1>4 DEF Saturate, searchVars, Held
<1>5. CASE GetForLoop
    <2>1. preset' = LitsOf(active')
        BY <1>5 DEF GetForLoop
    <2> QED BY <2>1 DEF ResolventsKept, LitsOf
<1>6. CASE Step
    <2>1. PairsKept(mode, active, Held, preset)
        BY <1>1 DEF ResolventsKept, PairsKept
    <2>2. PairsKept(mode', active', Held', preset)
        BY <1>1, <1>6, <2>1, PairsStep
    <2> QED BY <1>6, <2>2, StepFrame DEF ResolventsKept, PairsKept
<1>7. CASE UNCHANGED vars
    BY <1>2, <1>7 DEF vars, searchVars, callerVars, Held
<1> QED BY <1>3, <1>4, <1>5, <1>6, <1>7 DEF Next

\* ActiveReduced is kept.
LEMMA ActiveReducedNext ==
  ASSUME IInv, [Next]_vars
  PROVE  ActiveReduced'
<1>1. TypeOK /\ Shape /\ ActiveReduced
    BY DEF IInv
<1>2. ASSUME active' = active, mode' = mode, preset' = preset
      PROVE  ActiveReduced'
    BY <1>1, <1>2 DEF ActiveReduced
<1>3. ASSUME NEW lits \in Inputs \cup Candidates, Push(lits)
      PROVE  ActiveReduced'
    BY <1>2, <1>3 DEF Push
<1>4. CASE Saturate
    BY <1>2, <1>4 DEF Saturate, searchVars
<1>5. CASE GetForLoop
    <2>1. preset' = LitsOf(active')
        BY <1>5 DEF GetForLoop
    <2> QED BY <2>1 DEF ActiveReduced, LitsOf
<1>6. CASE Step
    <2>1. ASSUME NEW c \in passive, Activate(c)
          PROVE  ActiveReduced'
        <3> DEFINE removed == backwardSubsumed(active, c.lits)
                   new == [id |-> c.id, lits |-> c.lits, at |-> clock]
        <3>1. active' = (active \ removed) \cup {new} /\ mode' = mode /\ preset' = preset
            BY <2>1 DEF Activate, callerVars
        <3>2. new.lits = c.lits /\ new.at = clock
            OBVIOUS
        <3>3. \A e \in active \ removed : ~ indexBackward(mode, c.lits, e.lits)
            BY DEF backwardSubsumed
        <3>4. \A e \in active : e.at < clock /\ e.at \in Nat
            BY <1>1 DEF Shape, TypeOK, Entries
        <3>5. clock \in Nat
            BY <1>1 DEF TypeOK
        <3> HIDE DEF new, removed
        <3> SUFFICES ASSUME NEW e \in active', NEW f \in active',
                            e.at < f.at, f.lits \notin preset
                     PROVE  ~ indexBackward(mode, f.lits, e.lits)
            BY <3>1 DEF ActiveReduced
        <3>6. e \in active \ removed
            BY <3>1, <3>2, <3>4, <3>5
        <3>7. CASE f \in active
            BY <1>1, <3>6, <3>7 DEF ActiveReduced
        <3>8. CASE f = new
            BY <3>2, <3>3, <3>6, <3>8
        <3> QED BY <3>1, <3>7, <3>8
    <2>2. CASE active' = active
        BY <1>2, <1>6, <2>2, StepFrame
    <2>3. active' = active \/ \E c \in passive : Activate(c)
        BY <1>6 DEF Step, SelectRedundant, Simplify, Insert, SimplifyByFS, EndFSR,
                    EndIteration, EndSaturate, searchVars
    <2> QED BY <2>1, <2>2, <2>3
<1>7. CASE UNCHANGED vars
    BY <1>2, <1>7 DEF vars, searchVars, callerVars
<1> QED BY <1>3, <1>4, <1>5, <1>6, <1>7 DEF Next

-----------------------------------------------------------------------------
(***************************************************************************)
(* The theorems.                                                           *)
(***************************************************************************)
\* The invariant is inductive.
LEMMA Invariance == Spec => []IInv
<1>1. Init => IInv
    BY InitInv
<1>2. IInv /\ [Next]_vars => IInv'
    <2> SUFFICES ASSUME IInv, [Next]_vars PROVE IInv'
        OBVIOUS
    <2> QED BY TypeNext, ShapeNext, NothingLostNext, ResolventsNext, ActiveReducedNext DEF IInv
<1> QED BY <1>1, <1>2, PTL DEF Spec

\* ClauseSet::saturate and its callers never leave the types.
THEOREM TypeCorrect == Spec => []TypeOK
<1>1. IInv => TypeOK
    BY DEF IInv
<1> QED BY <1>1, Invariance, PTL

\* Whatever is pushed into the clause set stays covered by a clause it holds,
\* through every subsumption test and through FSR.
THEOREM LosesNothing == Spec => []NothingLost
<1>1. IInv => NothingLost
    BY DEF IInv
<1> QED BY <1>1, Invariance, PTL

\* The given-clause loop leaves no resolvent of two active clauses out.
THEOREM KeepsResolvents == Spec => []ResolventsKept
<1>1. IInv => ResolventsKept
    BY DEF IInv
<1> QED BY <1>1, Invariance, PTL

\* Active holds no clause that backward subsumption by a later one would find.
THEOREM StaysReduced == Spec => []ActiveReduced
<1>1. IInv => ActiveReduced
    BY DEF IInv
<1> QED BY <1>1, Invariance, PTL

\* No step of the clause set forgets what it held, but for the turn to loop
\* search.
THEOREM NeverForgets == Spec => Monotone
<1>1. IInv /\ [Next]_vars => [mode' = mode => \A c \in Held : CoveredBy(mode, Held', c)]_vars
    <2> SUFFICES ASSUME IInv, [Next]_vars, mode' = mode, NEW c \in Held
                 PROVE  CoveredBy(mode, Held', c)
        OBVIOUS
    <2>1. ASSUME Held \subseteq Held'
          PROVE  CoveredBy(mode, Held', c)
        BY <2>1, CoversSubset DEF CoveredBy
    <2>2. ASSUME NEW lits \in Inputs \cup Candidates, Push(lits)
          PROVE  CoveredBy(mode, Held', c)
        BY <2>1, <2>2 DEF Push, Held, LitsOf
    <2>3. CASE Saturate \/ UNCHANGED vars
        BY <2>1, <2>3 DEF Saturate, vars, searchVars, Held
    <2>4. CASE GetForLoop
        BY <2>4 DEF GetForLoop
    <2>5. CASE Step
        BY <2>5, StepCovers DEF IInv
    <2> QED BY <2>2, <2>3, <2>4, <2>5 DEF Next
<1> QED BY <1>1, Invariance, PTL DEF Spec, Monotone

-----------------------------------------------------------------------------

(***************************************************************************)
(* Literals at a moment.                                                   *)
(***************************************************************************)
TrueAt(l, x)    == (l.prop \in x) # l.neg
moment(a, v, w) == IF a = "step_next" THEN w ELSE v

\* A literal holds if it is true at the moment that its attribute points to.
LEMMA HoldsAtMoment ==
  ASSUME NEW l, NEW v, NEW w
  PROVE  HoldsLit(l, v, w) = TrueAt(l, moment(l.attr, v, w))
BY DEF HoldsLit, TrueAt, moment

\* What is true at a moment depends on the key only.
LEMMA SameKeyTrue ==
  ASSUME NEW k, NEW l, NEW x, Key(k) = Key(l)
  PROVE  TrueAt(k, x) = TrueAt(l, x)
<1>1. k.prop = l.prop /\ k.neg = l.neg
    BY DEF Key
<1> QED BY <1>1 DEF TrueAt

\* Where a literal is true, by its sign.
LEMMA SignTrue ==
  ASSUME NEW l \in Literals, NEW x
  PROVE  TrueAt(l, x) <=> (l.neg <=> l.prop \notin x)
<1>1. ASSUME NEW P \in BOOLEAN, NEW Q \in BOOLEAN
      PROVE  (P # Q) <=> (Q <=> ~ P)
    OBVIOUS
<1>2. (l.prop \in x) \in BOOLEAN /\ l.neg \in BOOLEAN
    BY DEF Literals
<1> QED BY <1>1, <1>2 DEF TrueAt

\* Complementary literals are not both true.
LEMMA NegatedTrue ==
  ASSUME NEW k \in Literals, NEW l \in Literals, NEW x,
         Key(k) = Key(negate(l)), TrueAt(k, x)
  PROVE  ~ TrueAt(l, x)
<1>1. k.prop = l.prop /\ k.neg = (~ l.neg)
    BY DEF Key, negate
<1> QED BY <1>1, SignTrue

\* A literal moved to the attribute a holds where the literal is true at the
\* moment of a.
LEMMA MovedHolds ==
  ASSUME NEW l, NEW a, NEW v, NEW w, TrueAt(l, moment(a, v, w))
  PROVE  HoldsLit(setAttribute(l, a), v, w)
<1>1. Key(setAttribute(l, a)) = Key(l) /\ setAttribute(l, a).attr = a
    BY DEF Key, setAttribute
<1> QED BY <1>1, HoldsAtMoment, SameKeyTrue

-----------------------------------------------------------------------------
(***************************************************************************)
(* Models.                                                                 *)
(***************************************************************************)
\* A moment from which a model goes on has a successor of that kind.
LEMMA AliveStep ==
  ASSUME NEW T, NEW v \in Alive(T)
  PROVE  \E w \in Alive(T) : <<v, w>> \in T
<1>1. PICK V \in SUBSET Valuations : v \in V /\ \A x \in V : \E y \in V : <<x, y>> \in T
    BY DEF Alive
<1>2. PICK w \in V : <<v, w>> \in T
    BY <1>1
<1>3. w \in Alive(T)
    BY <1>1, <1>2 DEF Alive
<1> QED BY <1>2, <1>3

\* The first moments of models are moments from which a model goes on.
LEMMA StartsAlive ==
  ASSUME NEW S
  PROVE  Starts(S) \subseteq Alive(Transitions(S))
BY DEF Starts

\* A clause given is entailed.
LEMMA Membership ==
  ASSUME NEW S, NEW c \in S, c # {}
  PROVE  Entails(S, c)
<1>1. CASE IsInitial(c)
    BY <1>1 DEF Entails, Starts
<1>2. CASE ~ IsInitial(c)
    BY <1>2 DEF Entails, Transitions
<1> QED BY <1>1, <1>2

\* More clauses have fewer models.
LEMMA FewerModels ==
  ASSUME NEW S, NEW R, S \subseteq R
  PROVE  /\ Transitions(R) \subseteq Transitions(S)
         /\ Alive(Transitions(R)) \subseteq Alive(Transitions(S))
         /\ Starts(R) \subseteq Starts(S)
<1>1. Transitions(R) \subseteq Transitions(S)
    BY DEF Transitions
<1>2. Alive(Transitions(R)) \subseteq Alive(Transitions(S))
    BY <1>1 DEF Alive
<1>3. Starts(R) \subseteq Starts(S)
    BY <1>2 DEF Starts
<1> QED BY <1>1, <1>2, <1>3

\* ... and entail more.
LEMMA EntailsMore ==
  ASSUME NEW S, NEW R, S \subseteq R, NEW c, Entails(S, c)
  PROVE  Entails(R, c)
BY FewerModels DEF Entails

\* A clause without literals of the next moment that is entailed holds at
\* every moment that it speaks of.
LEMMA TrueNow ==
  ASSUME NEW S, NEW c \in Clauses, c # {}, Entails(S, c), NextPart(c) = {},
         NEW v, v \in Alive(Transitions(S)), IsInitial(c) => v \in Starts(S)
  PROVE  \E l \in c : TrueAt(l, v)
<1>1. PICK w : HoldsAt(c, v, w)
    <2>1. CASE IsInitial(c)
        BY <2>1 DEF Entails
    <2>2. CASE ~ IsInitial(c)
        <3>1. PICK w \in Alive(Transitions(S)) : <<v, w>> \in Transitions(S)
            BY AliveStep
        <3> QED BY <2>2, <3>1 DEF Entails
    <2> QED BY <2>1, <2>2
<1>2. PICK l \in c : HoldsLit(l, v, w)
    BY <1>1 DEF HoldsAt
<1>3. l.attr # "step_next"
    BY DEF NextPart
<1>4. TrueAt(l, v)
    BY <1>2, <1>3, HoldsAtMoment DEF moment
<1> QED BY <1>4

\* The kind of a clause says at which moments it is judged.
LEMMA KindJudged ==
  ASSUME NEW c \in Clauses, OneKind(c), NEW l \in c
  PROVE  IsInitial(c) <=> l.attr = "initial"
<1>1. IsInitial(c) <=> AttributesOf(c) = {"initial"}
    BY DEF IsInitial
<1>2. l.attr \in AttributesOf(c)
    BY DEF AttributesOf
<1>3. CASE AttributesOf(c) \subseteq {"initial"}
    BY <1>1, <1>2, <1>3
<1>4. CASE AttributesOf(c) \subseteq {"universal"}
    BY <1>1, <1>2, <1>4
<1>5. CASE AttributesOf(c) \subseteq {"step_now", "step_next"}
    BY <1>1, <1>2, <1>5
<1> QED BY <1>3, <1>4, <1>5 DEF OneKind

\* To show that a clause is entailed it is enough to find, wherever one of
\* its kind is judged, a literal of it that holds.
LEMMA EntailedBy ==
  ASSUME NEW S, NEW r \in Clauses, OneKind(r), NEW first \in BOOLEAN,
         \A l \in r : l.attr = "initial" <=> first,
         first => \A v \in Starts(S) : \E l \in r : HoldsLit(l, v, v),
         ~ first => \A v \in Alive(Transitions(S)), w \in Alive(Transitions(S)) :
                      <<v, w>> \in Transitions(S) => \E l \in r : HoldsLit(l, v, w)
  PROVE  Entails(S, r)
<1>1. CASE r = {}
    <2>1. SUFFICES ASSUME NEW v \in Starts(S) PROVE FALSE
        BY <1>1 DEF Entails
    <2>2. CASE first
        BY <1>1, <2>1, <2>2
    <2>3. CASE ~ first
        <3>1. v \in Alive(Transitions(S))
            BY <2>1, StartsAlive
        <3>2. PICK w \in Alive(Transitions(S)) : <<v, w>> \in Transitions(S)
            BY <3>1, AliveStep
        <3> QED BY <1>1, <2>3, <3>1, <3>2
    <2> QED BY <2>2, <2>3
<1>2. CASE r # {}
    <2>1. IsInitial(r) <=> first
        BY <1>2, KindJudged
    <2>2. CASE first
        BY <1>2, <2>1, <2>2 DEF Entails, HoldsAt
    <2>3. CASE ~ first
        <3>1. \A e \in Transitions(S) : e = <<e[1], e[2]>>
            BY DEF Transitions
        <3>2. \A e \in Transitions(S) : {e[1], e[2]} \subseteq Alive(Transitions(S)) => HoldsAt(r, e[1], e[2])
            BY <2>3, <3>1 DEF HoldsAt
        <3> QED BY <1>2, <2>1, <2>3, <3>2 DEF Entails
    <2> QED BY <2>2, <2>3
<1> QED BY <1>1, <1>2

-----------------------------------------------------------------------------
(***************************************************************************)
(* The leading literal.                                                    *)
(***************************************************************************)
\* What the engine tests as the attribute of a clause, that of its leading
\* literal, is the attribute of the clause.
LEMMA LeadingLiteral ==
  ASSUME NEW c \in Clauses, IsFiniteSet(c), c # {}, OneKind(c)
  PROVE  /\ getLeadingLiteral(c) \in c
         /\ getLeadingLiteral(c).attr = leadingAttribute(c)
<1> DEFINE h == getLeadingLiteral(c)
<1>2. \A i \in c : i \in Literals
    BY DEF Clauses
<1>4. h \in c /\ \A k \in c : ~ LiteralLess(h, k)
    BY HasFront
<1> HIDE DEF h
<1>5. CASE NextPart(c) # {}
    <2>1. PICK n \in c : n.attr = "step_next"
        BY <1>5 DEF NextPart
    <2>2. leadingAttribute(c) = "step_next"
        BY <1>5 DEF leadingAttribute
    <2>3. h.attr \in {"step_now", "step_next"}
        BY <1>4, <2>2, LeadingKind
    <2>4. h.attr # "step_now"
        BY <1>4, <2>1 DEF LiteralLess
    <2> QED BY <1>4, <2>2, <2>3, <2>4 DEF h
<1>6. CASE NextPart(c) = {}
    <2>1. leadingAttribute(c) # "step_next"
        <3>1. leadingAttribute(c) = (CHOOSE l \in c : TRUE).attr
            BY <1>6 DEF leadingAttribute
        <3>2. (CHOOSE l \in c : TRUE) \in c
            OBVIOUS
        <3> QED BY <1>6, <3>1, <3>2 DEF NextPart
    <2> QED BY <1>4, <2>1, LeadingKind DEF h
<1> QED BY <1>5, <1>6

-----------------------------------------------------------------------------
(***************************************************************************)
(* The inferences are sound.                                               *)
(***************************************************************************)
\* A clause covered by an entailed one is entailed.
LEMMA CoversEntails ==
  ASSUME NEW S, NEW m \in Modes, NEW c \in Clauses, NEW d \in Clauses,
         OneKind(c), OneKind(d), c # {}, Entails(S, c), Covers(m, c, d)
  PROVE  Entails(S, d)
<1>1. CASE c \subseteq d
    <2>1. d # {} /\ (IsInitial(c) <=> IsInitial(d))
        BY <1>1, KindJudged
    <2>2. \A v, w : HoldsAt(c, v, w) => HoldsAt(d, v, w)
        BY <1>1 DEF HoldsAt
    <2> QED BY <2>1, <2>2 DEF Entails
<1>2. CASE ~ (c \subseteq d)
    <2>1. EveryMoment(m, c)
        BY <1>2 DEF Covers
    <2>2. PICK a \in Attributes : Retag(c, a) \subseteq d
        BY <1>2 DEF Covers
    <2>3. \A l \in c : l.attr \in {"universal", "step_now"}
        BY <2>1 DEF EveryMoment, areEqual
    <2>4. NextPart(c) = {}
        BY <2>3 DEF NextPart
    <2>5. ~ IsInitial(c)
        <3>1. PICK l \in c : TRUE
            OBVIOUS
        <3> QED BY <2>3, <3>1, KindJudged
    <2>6. \A v \in Alive(Transitions(S)) : \E l \in c : TrueAt(l, v)
        BY <2>4, <2>5, TrueNow
    <2>7. \A l \in c : setAttribute(l, a) \in d /\ setAttribute(l, a).attr = a
        BY <2>2 DEF Retag, setAttribute
    <2>8. IsInitial(d) <=> a = "initial"
        <3>1. PICK l \in c : TRUE
            OBVIOUS
        <3> QED BY <2>7, <3>1, KindJudged
    <2>9. \A l \in d : l.attr = "initial" <=> a = "initial"
        BY <2>8, KindJudged
    <2>10. ASSUME NEW v, NEW w, moment(a, v, w) \in Alive(Transitions(S))
           PROVE  \E l \in d : HoldsLit(l, v, w)
        <3>1. PICK l \in c : TrueAt(l, moment(a, v, w))
            BY <2>6, <2>10
        <3> QED BY <2>7, <3>1, MovedHolds
    <2>11. CASE a = "initial"
        <3>1. \A v \in Starts(S) : \E l \in d : HoldsLit(l, v, v)
            BY <2>10, <2>11, StartsAlive DEF moment
        <3> QED BY <2>9, <2>11, <3>1, EntailedBy
    <2>12. CASE a # "initial"
        <3>1. \A v \in Alive(Transitions(S)), w \in Alive(Transitions(S)) :
                \E l \in d : HoldsLit(l, v, w)
            BY <2>10 DEF moment
        <3> QED BY <2>9, <2>12, <3>1, EntailedBy
    <2> QED BY <2>11, <2>12
<1> QED BY <1>1, <1>2

\* Forward subsumption resolution: a clause and the clause with one literal
\* negated entail the clause without the literal.
LEMMA CutEntails ==
  ASSUME NEW S, NEW c \in Clauses, OneKind(c), NEW l \in c,
         NEW d \in Clauses, OneKind(d), d = (c \ {l}) \cup {negate(l)},
         Entails(S, c), Entails(S, d)
  PROVE  Entails(S, c \ {l})
<1>1. l \in Literals /\ negate(l) \in Literals /\ negate(l).attr = l.attr
    BY DEF Clauses, Literals, negate
<1>2. IsInitial(c) <=> l.attr = "initial"
    BY KindJudged
<1>3. IsInitial(d) <=> l.attr = "initial"
    BY <1>1, KindJudged
<1>4. /\ c \ {l} \in Clauses /\ OneKind(c \ {l})
      /\ \A k \in c \ {l} : k.attr = "initial" <=> l.attr = "initial"
    BY <1>2, KindJudged, PartOneKind DEF Clauses
<1>5. ASSUME NEW v, NEW w, HoldsAt(c, v, w), HoldsAt(d, v, w)
      PROVE  \E k \in c \ {l} : HoldsLit(k, v, w)
    <2>1. ~ (HoldsLit(l, v, w) /\ HoldsLit(negate(l), v, w))
        <3>1. Key(negate(l)) = Key(negate(l))
            OBVIOUS
        <3> QED BY <1>1, <3>1, HoldsAtMoment, NegatedTrue
    <2> QED BY <1>5, <2>1 DEF HoldsAt
<1>6. CASE l.attr = "initial"
    <2>1. \A v \in Starts(S) : HoldsAt(c, v, v) /\ HoldsAt(d, v, v)
        BY <1>2, <1>3, <1>6 DEF Entails
    <2>2. \A v \in Starts(S) : \E k \in c \ {l} : HoldsLit(k, v, v)
        BY <1>5, <2>1
    <2> QED BY <1>4, <1>6, <2>2, EntailedBy
<1>7. CASE l.attr # "initial"
    <2>1. \A v \in Alive(Transitions(S)), w \in Alive(Transitions(S)) :
            <<v, w>> \in Transitions(S) => HoldsAt(c, v, w) /\ HoldsAt(d, v, w)
        BY <1>2, <1>3, <1>7 DEF Entails
    <2>2. \A v \in Alive(Transitions(S)), w \in Alive(Transitions(S)) :
            <<v, w>> \in Transitions(S) => \E k \in c \ {l} : HoldsLit(k, v, w)
        BY <1>5, <2>1
    <2> QED BY <1>4, <1>7, <2>2, EntailedBy
<1> QED BY <1>6, <1>7

\* What is in a resolvent.
LEMMA MergedLiterals ==
  ASSUME NEW c, NEW d
  PROVE  LET a == leadingAttribute(c)
             b == leadingAttribute(d)
         IN  /\ \A l \in c : l # getLeadingLiteral(c) =>
                  setAttribute(l, transform(a, b, l.attr)) \in Merged(c, d)
             /\ \A l \in d : l # getLeadingLiteral(d) =>
                  setAttribute(l, transform(b, a, l.attr)) \in Merged(c, d)
             /\ \A z \in Merged(c, d) : \/ \E l \in c : z.attr = transform(a, b, l.attr)
                                        \/ \E l \in d : z.attr = transform(b, a, l.attr)
<1> DEFINE a == leadingAttribute(c)
           b == leadingAttribute(d)
<1>1. Merged(c, d) = Transformed(c \ {getLeadingLiteral(c)}, a, b)
                       \cup Transformed(d \ {getLeadingLiteral(d)}, b, a)
    BY DEF Merged
<1> HIDE DEF a, b
<1>2. \A l, t : setAttribute(l, t).attr = t
    BY DEF setAttribute
<1>3. /\ \A l \in c : l # getLeadingLiteral(c) =>
           setAttribute(l, transform(a, b, l.attr)) \in Merged(c, d)
      /\ \A l \in d : l # getLeadingLiteral(d) =>
           setAttribute(l, transform(b, a, l.attr)) \in Merged(c, d)
    BY <1>1 DEF Transformed
<1>4. \A z \in Merged(c, d) : \/ \E l \in c : z.attr = transform(a, b, l.attr)
                              \/ \E l \in d : z.attr = transform(b, a, l.attr)
    BY <1>1, <1>2 DEF Transformed
<1> QED BY <1>3, <1>4 DEF a, b

\* Resolution is symmetric.
LEMMA MergedSymmetric ==
  ASSUME NEW c, NEW d
  PROVE  Merged(c, d) = Merged(d, c)
BY DEF Merged

\* The literals resolved upon are not both true.
LEMMA ResolvedUpon ==
  ASSUME NEW c \in Clauses, NEW d \in Clauses, Complementary(c, d),
         getLeadingLiteral(c) \in c, getLeadingLiteral(d) \in d, NEW x
  PROVE  ~ (TrueAt(getLeadingLiteral(c), x) /\ TrueAt(getLeadingLiteral(d), x))
<1>1. getLeadingLiteral(c) \in Literals /\ getLeadingLiteral(d) \in Literals
    BY DEF Clauses
<1> QED BY <1>1, NegatedTrue DEF Complementary

\* Resolution of clauses that speak of the present.
LEMMA ResolvePresent ==
  ASSUME NEW S, NEW c \in Clauses, NEW d \in Clauses, OneKind(c), OneKind(d),
         c # {}, d # {}, IsFiniteSet(c), IsFiniteSet(d),
         Entails(S, c), Entails(S, d), Complementary(c, d),
         leadingAttribute(c) # "step_next", leadingAttribute(d) # "step_next",
         Merged(c, d) \in Clauses, OneKind(Merged(c, d))
  PROVE  Entails(S, Merged(c, d))
<1> DEFINE a == leadingAttribute(c)
           b == leadingAttribute(d)
           r == Merged(c, d)
           new == IF "initial" \in {a, b} THEN "initial" ELSE "universal"
<1>1. a \in Attributes /\ b \in Attributes
    BY LeadingKind
<1>2. (\A l \in c : l.attr = a) /\ (\A l \in d : l.attr = b)
    BY LeadingKind
<1>3. /\ \A l \in c : transform(a, b, l.attr) = new
      /\ \A l \in d : transform(b, a, l.attr) = new
    <2>1. CASE "initial" \in {a, b}
        BY <1>1, <2>1 DEF transform
    <2>2. CASE "initial" \notin {a, b}
        <3>1. {a, b} \subseteq {"universal", "step_now"}
            BY <1>1, <2>2 DEF Attributes
        <3> QED BY <2>2, <3>1 DEF transform
    <2> QED BY <2>1, <2>2
<1>4. getLeadingLiteral(c) \in c /\ getLeadingLiteral(d) \in d
    BY LeadingLiteral
<1>5. NextPart(c) = {} /\ NextPart(d) = {}
    BY <1>2 DEF NextPart
<1>6. (IsInitial(c) <=> a = "initial") /\ (IsInitial(d) <=> b = "initial")
    BY <1>2, <1>4, KindJudged
<1>7. /\ \A l \in c : l # getLeadingLiteral(c) => setAttribute(l, new) \in r
      /\ \A l \in d : l # getLeadingLiteral(d) => setAttribute(l, new) \in r
      /\ \A z \in r : z.attr = new
    <2> HIDE DEF new
    <2> QED BY <1>3, MergedLiterals
<1>8. ASSUME NEW v \in Alive(Transitions(S)), "initial" \in {a, b} => v \in Starts(S), NEW w
      PROVE  \E z \in r : HoldsLit(z, v, w)
    <2>1. PICK x \in c : TrueAt(x, v)
        BY <1>5, <1>6, <1>8, TrueNow
    <2>2. PICK y \in d : TrueAt(y, v)
        BY <1>5, <1>6, <1>8, TrueNow
    <2>3. moment(new, v, w) = v
        BY DEF moment
    <2>4. x # getLeadingLiteral(c) \/ y # getLeadingLiteral(d)
        BY <1>4, <2>1, <2>2, ResolvedUpon
    <2> HIDE DEF r, new
    <2>5. HoldsLit(setAttribute(x, new), v, w) /\ HoldsLit(setAttribute(y, new), v, w)
        BY <2>1, <2>2, <2>3, MovedHolds
    <2> QED BY <1>7, <2>4, <2>5
<1>9. CASE "initial" \in {a, b}
    <2>1. \A v \in Starts(S) : \E z \in r : HoldsLit(z, v, v)
        BY <1>8, StartsAlive
    <2>2. \A z \in r : z.attr = "initial" <=> TRUE
        BY <1>7, <1>9
    <2> QED BY <2>1, <2>2, EntailedBy
<1>10. CASE "initial" \notin {a, b}
    <2>1. \A v \in Alive(Transitions(S)), w \in Alive(Transitions(S)) : \E z \in r : HoldsLit(z, v, w)
        BY <1>8, <1>10
    <2>2. \A z \in r : z.attr = "initial" <=> FALSE
        BY <1>7, <1>10
    <2> QED BY <2>1, <2>2, EntailedBy
<1> QED BY <1>9, <1>10

\* Resolution with a step clause, on a literal of the next moment.
LEMMA ResolveStep ==
  ASSUME NEW S, NEW c \in Clauses, NEW d \in Clauses, OneKind(c), OneKind(d),
         c # {}, d # {}, IsFiniteSet(c), IsFiniteSet(d),
         Entails(S, c), Entails(S, d), Complementary(c, d),
         leadingAttribute(c) = "step_next", leadingAttribute(d) # "initial",
         Merged(c, d) \in Clauses, OneKind(Merged(c, d))
  PROVE  Entails(S, Merged(c, d))
<1> DEFINE a == "step_next"
           b == leadingAttribute(d)
           r == Merged(c, d)
           k == getLeadingLiteral(c)
           h == getLeadingLiteral(d)
<1>1. b \in Attributes
    BY LeadingKind
<1>2. /\ \A l \in c : l.attr \in {"step_now", "step_next"}
      /\ b = "step_next" => \A l \in d : l.attr \in {"step_now", "step_next"}
      /\ b # "step_next" => \A l \in d : l.attr = b
    BY LeadingKind
<1>3. \A l \in c : transform(a, b, l.attr) = l.attr
    BY <1>1, <1>2 DEF transform, Attributes
<1>4. /\ b = "step_next" => \A l \in d : transform(b, a, l.attr) = l.attr
      /\ b # "step_next" => \A l \in d : transform(b, a, l.attr) = "step_next"
    BY <1>1, <1>2 DEF transform, Attributes
<1>5. k \in c /\ k.attr = "step_next" /\ h \in d /\ h.attr = b
    BY LeadingLiteral
<1>6. ~ IsInitial(c) /\ ~ IsInitial(d)
    BY <1>5, KindJudged
<1>7. /\ \A l \in c : l # k => setAttribute(l, l.attr) \in r
      /\ \A l \in d : l # h => setAttribute(l, transform(b, a, l.attr)) \in r
      /\ \A z \in r : z.attr \in {"step_now", "step_next"}
    BY <1>2, <1>3, <1>4, MergedLiterals
<1>8. \A x : ~ (TrueAt(k, x) /\ TrueAt(h, x))
    BY <1>5, ResolvedUpon
<1>9. ASSUME NEW v \in Alive(Transitions(S)), NEW w \in Alive(Transitions(S)),
             <<v, w>> \in Transitions(S)
      PROVE  \E z \in r : HoldsLit(z, v, w)
    <2>1. PICK x \in c : TrueAt(x, moment(x.attr, v, w))
        <3>1. HoldsAt(c, v, w)
            BY <1>6, <1>9 DEF Entails
        <3> QED BY <3>1, HoldsAtMoment DEF HoldsAt
    <2>2. x # k => HoldsLit(setAttribute(x, x.attr), v, w)
        BY <2>1, MovedHolds
    <2>3. PICK y \in d : /\ TrueAt(y, moment(transform(b, a, y.attr), v, w))
                         /\ y = h => TrueAt(y, w)
        <3>1. CASE b = "step_next"
            <4>1. HoldsAt(d, v, w)
                BY <1>6, <1>9 DEF Entails
            <4>2. PICK y \in d : TrueAt(y, moment(y.attr, v, w))
                BY <4>1, HoldsAtMoment DEF HoldsAt
            <4>3. y = h => moment(y.attr, v, w) = w
                BY <1>5, <3>1 DEF moment
            <4>4. transform(b, a, y.attr) = y.attr
                BY <1>4, <3>1
            <4> QED BY <4>2, <4>3, <4>4
        <3>2. CASE b # "step_next"
            <4>1. NextPart(d) = {}
                BY <1>2, <3>2 DEF NextPart
            <4>2. PICK y \in d : TrueAt(y, w)
                BY <1>6, <4>1, TrueNow
            <4>3. moment(transform(b, a, y.attr), v, w) = w
                BY <1>4, <3>2 DEF moment
            <4> QED BY <4>2, <4>3
        <3> QED BY <3>1, <3>2
    <2>4. HoldsLit(setAttribute(y, transform(b, a, y.attr)), v, w)
        BY <2>3, MovedHolds
    <2>5. x = k => TrueAt(k, w)
        BY <1>5, <2>1 DEF moment
    <2>6. x # k \/ y # h
        BY <1>8, <2>3, <2>5
    <2> HIDE DEF r, k, h, b
    <2> QED BY <1>7, <2>2, <2>4, <2>6
<1>10. \A z \in r : z.attr = "initial" <=> FALSE
    BY <1>7
<1> QED BY <1>9, <1>10, EntailedBy

\* Resolution on the leading literals is sound, whatever the attributes.
LEMMA ResolveEntails ==
  ASSUME NEW S, NEW m \in Modes, NEW c \in Clauses, NEW d \in Clauses,
         OneKind(c), OneKind(d), c # {}, d # {}, IsFiniteSet(c), IsFiniteSet(d),
         Entails(S, c), Entails(S, d), Complementary(c, d),
         areCompatible(m, leadingAttribute(c), leadingAttribute(d))
  PROVE  Entails(S, Merged(c, d))
<1>1. Merged(c, d) \in Clauses /\ OneKind(Merged(c, d))
    BY MergedOneKind
<1>2. {leadingAttribute(c), leadingAttribute(d)} # {"initial", "step_next"}
    BY DEF areCompatible, Modes
<1>3. CASE leadingAttribute(c) # "step_next" /\ leadingAttribute(d) # "step_next"
    BY <1>1, <1>3, ResolvePresent
<1>4. CASE leadingAttribute(c) = "step_next"
    BY <1>1, <1>2, <1>4, ResolveStep
<1>5. CASE leadingAttribute(d) = "step_next"
    <2>1. Complementary(d, c)
        <3>1. getLeadingLiteral(d) \in Literals
            BY LeadingLiteral DEF Clauses
        <3>2. getLeadingLiteral(d).neg \in BOOLEAN
            BY <3>1 DEF Literals
        <3> QED BY <3>2 DEF Complementary, Key, negate
    <2>2. leadingAttribute(c) # "initial"
        BY <1>2, <1>5
    <2>3. Entails(S, Merged(d, c))
        BY <1>1, <1>5, <2>1, <2>2, MergedSymmetric, ResolveStep
    <2> QED BY <2>3, MergedSymmetric
<1> QED BY <1>3, <1>4, <1>5

-----------------------------------------------------------------------------
(***************************************************************************)
(* What a step of saturate adds.                                           *)
(***************************************************************************)
Resolvent(d) ==
  \E e, f \in Held : /\ e # {} /\ f # {}
                     /\ Complementary(e, f)
                     /\ d \in resolveMaximals(mode, e, f)

Shortened(d) ==
  \E c, e \in Held : \E l \in c :
    /\ d = c \ {l} /\ e # {}
    /\ (c \ {l}) \cup {negate(l)} \in Clauses
    /\ OneKind((c \ {l}) \cup {negate(l)})
    /\ Covers(mode, e, (c \ {l}) \cup {negate(l)})

\* Negating a literal of a clause gives a clause of the same kind.
LEMMA NegatedClause ==
  ASSUME NEW c \in Clauses, OneKind(c), NEW l \in c
  PROVE  /\ (c \ {l}) \cup {negate(l)} \in Clauses
         /\ OneKind((c \ {l}) \cup {negate(l)})
<1>1. negate(l) \in Literals /\ negate(l).attr = l.attr
    BY DEF Clauses, Literals, negate
<1>2. AttributesOf((c \ {l}) \cup {negate(l)}) \subseteq AttributesOf(c)
    BY <1>1 DEF AttributesOf
<1> QED BY <1>1, <1>2 DEF OneKind, Clauses

\* A clause that was not held before is a resolvent of clauses held, or one
\* of them without a literal that FSR may erase.
LEMMA NewClauses ==
  ASSUME TypeOK, Shape, Step, NEW d \in Held', d \notin Held
  PROVE  Resolvent(d) \/ Shortened(d)
<1>1. TypeOK /\ Shape /\ mode \in Modes /\ Held \subseteq Clauses
    BY HeldType DEF TypeOK, Held
<1>2. ASSUME NEW c \in passive, SelectRedundant(c)
      PROVE  FALSE
    BY <1>2 DEF SelectRedundant, Held, LitsOf
<1>3. ASSUME NEW c \in passive, Activate(c)
      PROVE  Resolvent(d)
    <2> DEFINE removed == backwardSubsumed(active, c.lits)
               new == [id |-> c.id, lits |-> c.lits, at |-> clock]
               now == (active \ removed) \cup {new}
    <2>1. /\ active' = now /\ passive' = passive \ {c} /\ todo' = resolve(now, c.lits)
          /\ pc = "select" /\ UNCHANGED <<kept, working, success>>
        BY <1>3 DEF Activate
    <2>2. new.lits = c.lits
        OBVIOUS
    <2>3. c.lits \in Held /\ c.lits # {}
        BY <1>1, <2>1 DEF Shape, Held, LitsOf
    <2>4. \A e \in active : e.lits \in Held /\ e.lits # {}
        BY <1>1 DEF Shape, Held, LitsOf
    <2>5. \A e \in now : e.lits \in Held /\ e.lits # {}
        <3> HIDE DEF new, removed
        <3> QED BY <2>2, <2>3, <2>4
    <2> HIDE DEF now
    <2>6. d \in LitsOf(todo')
        BY <2>1, <2>5 DEF Held, LitsOf
    <2>7. PICK r \in resolve(now, c.lits) : d = r.lits
        BY <2>1, <2>6 DEF LitsOf
    <2>8. PICK e \in Partners(now, c.lits) :
            r = [id   |-> nextId + Cardinality({f \in Partners(now, c.lits) : f.at < e.at}),
                 lits |-> Merged(e.lits, c.lits)]
        BY DEF resolve
    <2>9. /\ e \in now /\ Complementary(e.lits, c.lits) /\ d = Merged(e.lits, c.lits)
          /\ resolveMaximals(mode, e.lits, c.lits) # {}
        BY <2>7, <2>8 DEF Partners
    <2>10. d \in resolveMaximals(mode, e.lits, c.lits)
        BY <2>9 DEF resolveMaximals
    <2> QED BY <2>3, <2>5, <2>9, <2>10 DEF Resolvent
<1>4. ASSUME NEW p \in todo, Simplify(p)
      PROVE  FALSE
    BY <1>4 DEF Simplify, Held, LitsOf
<1>5. ASSUME NEW p \in kept, Insert(p)
      PROVE  FALSE
    <2>1. Held' \subseteq Held
        BY <1>5 DEF Insert, Held, LitsOf
    <2> QED BY <2>1
<1>6. ASSUME NEW p \in working, NEW l \in untried, SimplifyByFS(p, l)
      PROVE  Shortened(d)
    <2> DEFINE shorter == [p EXCEPT !.lits = p.lits \ {l}]
               negated == (p.lits \ {l}) \cup {negate(l)}
    <2>1. p \in Indexed /\ p.lits \in Held /\ p.lits \in Clauses
        BY <1>1 DEF TypeOK, Held, LitsOf, Indexed
    <2>2. shorter.lits = p.lits \ {l}
        BY <2>1 DEF Indexed
    <2>3. /\ UNCHANGED <<active, passive, todo, kept>>
          /\ \/ working' = {shorter} /\ forwardSubsumed(active, negated)
             \/ UNCHANGED working
        BY <1>6 DEF SimplifyByFS
    <2> HIDE DEF shorter
    <2>4. d = shorter.lits /\ forwardSubsumed(active, negated)
        BY <2>3 DEF Held, LitsOf
    <2>5. l \in p.lits
        BY <2>1, <2>2, <2>4
    <2>6. PICK e \in active : indexForward(mode, e.lits, negated)
        BY <2>4 DEF forwardSubsumed
    <2>7. e.lits \in Held /\ e.lits # {} /\ e.lits \in Clauses /\ OneKind(e.lits)
        BY <1>1 DEF Shape, Held, LitsOf, TypeOK, Entries
    <2>8. negated \in Clauses /\ OneKind(negated) /\ negated # {}
        BY <1>1, <2>1, <2>5, NegatedClause DEF Shape
    <2>9. Covers(mode, e.lits, negated)
        BY <1>1, <2>6, <2>7, <2>8, ForwardCovers
    <2> QED BY <2>1, <2>2, <2>4, <2>5, <2>7, <2>8, <2>9 DEF Shortened
<1>7. ASSUME EndFSR \/ EndIteration \/ EndSaturate
      PROVE  FALSE
    BY <1>7 DEF EndFSR, EndIteration, EndSaturate, searchVars, Held, LitsOf
<1> QED BY <1>2, <1>3, <1>4, <1>5, <1>6, <1>7 DEF Step

AllFinite == \A c \in Held : IsFiniteSet(c)
Correct   == \A c \in Held : isCorrect("normal", c)

\* What is drawn from clauses that follow from S follows from S.
LEMMA StepConcludes ==
  ASSUME TypeOK, Shape, AllFinite, Step, NEW S, \A c \in Held : Entails(S, c),
         NEW d \in Held', d \notin Held
  PROVE  Entails(S, d)
<1>1. mode \in Modes /\ Held \subseteq Clauses /\ \A c \in Held : OneKind(c) /\ IsFiniteSet(c)
    BY HeldType DEF TypeOK, Shape, Held, AllFinite
<1>2. CASE Resolvent(d)
    <2>1. PICK e, f \in Held : /\ e # {} /\ f # {} /\ Complementary(e, f)
                               /\ d \in resolveMaximals(mode, e, f)
        BY <1>2 DEF Resolvent
    <2>2. d = Merged(e, f) /\ areCompatible(mode, leadingAttribute(e), leadingAttribute(f))
        BY <2>1 DEF resolveMaximals
    <2> QED BY <1>1, <2>1, <2>2, ResolveEntails
<1>3. CASE Shortened(d)
    <2>1. PICK c, e \in Held : \E l \in c :
            /\ d = c \ {l} /\ e # {}
            /\ (c \ {l}) \cup {negate(l)} \in Clauses
            /\ OneKind((c \ {l}) \cup {negate(l)})
            /\ Covers(mode, e, (c \ {l}) \cup {negate(l)})
        BY <1>3 DEF Shortened
    <2>2. PICK l \in c :
            /\ d = c \ {l} /\ e # {}
            /\ (c \ {l}) \cup {negate(l)} \in Clauses
            /\ OneKind((c \ {l}) \cup {negate(l)})
            /\ Covers(mode, e, (c \ {l}) \cup {negate(l)})
        BY <2>1
    <2>3. Entails(S, (c \ {l}) \cup {negate(l)})
        BY <1>1, <2>2, CoversEntails
    <2> QED BY <1>1, <2>2, <2>3, CutEntails
<1> QED BY <1>2, <1>3, NewClauses

-----------------------------------------------------------------------------
(***************************************************************************)
(* Finite clauses without complementary literals.                          *)
(***************************************************************************)
\* Moving a clause keeps it finite.
LEMMA RetagFinite ==
  ASSUME NEW c, IsFiniteSet(c), NEW a
  PROVE  IsFiniteSet(Retag(c, a))
<1> DEFINE move == [l \in c |-> setAttribute(l, a)]
<1>1. move \in Surjection(c, Retag(c, a))
    BY DEF Surjection, Retag
<1> HIDE DEF move
<1> QED BY <1>1, FS_Surjection

\* A resolvent is finite.
LEMMA MergedFinite ==
  ASSUME NEW c, NEW d, IsFiniteSet(c), IsFiniteSet(d)
  PROVE  IsFiniteSet(Merged(c, d))
<1>1. ASSUME NEW s, IsFiniteSet(s), NEW a, NEW b
      PROVE  IsFiniteSet(Transformed(s, a, b))
    <2> DEFINE move == [l \in s |-> setAttribute(l, transform(a, b, l.attr))]
    <2>1. move \in Surjection(s, Transformed(s, a, b))
        BY DEF Surjection, Transformed
    <2> HIDE DEF move
    <2> QED BY <1>1, <2>1, FS_Surjection
<1>2. IsFiniteSet(c \ {getLeadingLiteral(c)}) /\ IsFiniteSet(d \ {getLeadingLiteral(d)})
    BY FS_Subset
<1> QED BY <1>1, <1>2, FS_Union DEF Merged

\* In a clause of one kind the two modes see the same complementary pairs.
LEMMA CorrectInModes ==
  ASSUME NEW c \in Clauses, OneKind(c), NEW m \in Modes, isCorrect(m, c)
  PROVE  isCorrect("normal", c)
<1>1. \A k, l \in c : {k.attr, l.attr} # {"universal", "step_now"}
    BY DEF OneKind, AttributesOf
<1>2. \A k, l \in c : areEqual("normal", k.attr, l.attr) => areEqual(m, k.attr, l.attr)
    BY <1>1 DEF areEqual
<1> QED BY <1>2 DEF isCorrect

\* What a step of saturate adds is finite and without complementary literals.
LEMMA StepForms ==
  ASSUME TypeOK, Shape, AllFinite, Correct, Step
  PROVE  AllFinite' /\ Correct'
<1>1. mode \in Modes /\ Held \subseteq Clauses /\ \A c \in Held : OneKind(c) /\ IsFiniteSet(c)
    BY HeldType DEF TypeOK, Shape, Held, AllFinite
<1> SUFFICES ASSUME NEW d \in Held', d \notin Held
             PROVE  IsFiniteSet(d) /\ isCorrect("normal", d)
    BY DEF AllFinite, Correct
<1>2. CASE Resolvent(d)
    <2>1. PICK e, f \in Held : /\ e # {} /\ f # {} /\ Complementary(e, f)
                               /\ d \in resolveMaximals(mode, e, f)
        BY <1>2 DEF Resolvent
    <2>2. /\ d = Merged(e, f) /\ isCorrect(mode, d)
          /\ areCompatible(mode, leadingAttribute(e), leadingAttribute(f))
        BY <2>1 DEF resolveMaximals
    <2>3. d \in Clauses /\ OneKind(d)
        BY <1>1, <2>1, <2>2, MergedOneKind
    <2> QED BY <1>1, <2>2, <2>3, MergedFinite, CorrectInModes
<1>3. CASE Shortened(d)
    <2>1. PICK c \in Held : d \subseteq c
        BY <1>3 DEF Shortened
    <2>2. isCorrect("normal", c)
        BY DEF Correct
    <2> QED BY <1>1, <2>1, <2>2, FS_Subset DEF isCorrect
<1> QED BY <1>2, <1>3, NewClauses

-----------------------------------------------------------------------------
(***************************************************************************)
(* The invariant of soundness.                                             *)
(***************************************************************************)
\* A contradiction was reported for the empty clause, which is still held.
Refuted == success => {} \in LitsOf(passive) \cup LitsOf(working)

MInv == IInv /\ AllFinite /\ Correct /\ Sound /\ Refuted

\* It holds at the start.
LEMMA InitMInv == Init => MInv
<1> SUFFICES ASSUME Init PROVE MInv
    OBVIOUS
<1>1. Held = {} /\ ~ success
    BY DEF Init, Held, LitsOf
<1> QED BY <1>1, InitInv DEF MInv, AllFinite, Correct, Sound, Refuted

\* push_back.
LEMMA PushM ==
  ASSUME MInv, NEW lits \in Inputs \cup Candidates, Push(lits)
  PROVE  AllFinite' /\ Correct' /\ Sound' /\ Refuted'
<1> DEFINE fresh == [id |-> nextId, lits |-> lits]
<1>1. /\ UNCHANGED <<active, todo, kept, working, success>> /\ ~ success
      /\ \/ UNCHANGED <<passive, given>>
         \/ passive' = passive \cup {fresh} /\ given' = given \cup {lits} /\ isCorrect(mode, lits)
    BY DEF Push, resultVars
<1>2. fresh.lits = lits
    OBVIOUS
<1> HIDE DEF fresh
<1>3. lits \in Clauses /\ lits # {} /\ IsFiniteSet(lits) /\ OneKind(lits)
    BY SaturationAssumption DEF OneKind, AttributesOf, NextPart
<1>4. /\ given \subseteq given'
      /\ \A c \in Held' : c \in Held \/ (c = lits /\ lits \in given' /\ isCorrect(mode, lits))
    BY <1>1, <1>2 DEF Held, LitsOf
<1>5. mode \in Modes
    BY DEF MInv, IInv, TypeOK
<1>6. isCorrect(mode, lits) => isCorrect("normal", lits)
    BY <1>3, <1>5, CorrectInModes
<1>7. AllFinite' /\ Correct'
    BY <1>3, <1>4, <1>6 DEF MInv, AllFinite, Correct
<1>8. Sound'
    <2> SUFFICES ASSUME NEW c \in Held' PROVE Entails(given', c)
        BY DEF Sound
    <2>1. CASE c \in Held
        BY <1>4, <2>1, EntailsMore DEF MInv, Sound
    <2>2. CASE c = lits /\ lits \in given'
        BY <1>3, <2>2, Membership
    <2> QED BY <1>4, <2>1, <2>2
<1> QED BY <1>1, <1>7, <1>8 DEF Refuted

\* What a loop search finds in Active.
LEMMA LoopClauses ==
  ASSUME IInv, GetForLoop, NEW d \in Held'
  PROVE  /\ d \in given' /\ d # {}
         /\ \/ d \in LitsOf(active)
            \/ \E c \in LitsOf(active) : /\ c \in Clauses /\ OneKind(c) /\ c # {}
                                         /\ areEqual("normal", leadingAttribute(c), "universal")
                                         /\ d = Retag(c, "step_next")
<1>1. TypeOK /\ Shape
    BY DEF IInv
<1>2. /\ active' = {e \in active : IsStep(e)} \cup {stepForm(e) : e \in universals}
      /\ given' = LitsOf(active') /\ passive' = {} /\ pc = "idle"
      /\ UNCHANGED <<todo, kept, working>>
    BY DEF GetForLoop, getForLoop
<1>3. todo = {} /\ kept = {} /\ working = {}
    BY <1>1, <1>2 DEF Shape
<1>4. d \in LitsOf(active') /\ d \in given'
    BY <1>2, <1>3 DEF Held, LitsOf
<1>5. PICK e \in active' : d = e.lits
    BY <1>4 DEF LitsOf
<1>6. \A f \in active : f.lits \in Clauses /\ f.lits # {} /\ OneKind(f.lits) /\ f.lits \in LitsOf(active)
    BY <1>1 DEF TypeOK, Entries, Shape, Held, LitsOf
<1>7. CASE e \in active
    BY <1>4, <1>5, <1>6, <1>7
<1>8. CASE e \notin active
    <2>1. PICK f \in active : IsUniversal(f) /\ e = stepForm(f)
        BY <1>2, <1>8 DEF universals
    <2>2. d = Retag(f.lits, "step_next")
        BY <1>5, <2>1 DEF stepForm
    <2>3. d # {}
        BY <1>6, <2>1, <2>2 DEF Retag
    <2> QED BY <1>4, <1>6, <2>1, <2>2, <2>3 DEF IsUniversal
<1> QED BY <1>7, <1>8

\* getForLoop.
LEMMA LoopM ==
  ASSUME MInv, GetForLoop
  PROVE  AllFinite' /\ Correct' /\ Sound' /\ Refuted'
<1>1. IInv /\ LitsOf(active) \subseteq Held
    BY DEF MInv, Held
<1>2. ASSUME NEW d \in Held'
      PROVE  IsFiniteSet(d) /\ isCorrect("normal", d)
    <2>1. CASE d \in LitsOf(active)
        BY <1>1, <2>1 DEF MInv, AllFinite, Correct
    <2>2. CASE d \notin LitsOf(active)
        <3>1. PICK c \in LitsOf(active) : /\ c \in Clauses /\ OneKind(c) /\ c # {}
                                          /\ areEqual("normal", leadingAttribute(c), "universal")
                                          /\ d = Retag(c, "step_next")
            BY <1>1, <1>2, <2>2, LoopClauses
        <3>2. IsFiniteSet(c) /\ isCorrect("normal", c)
            BY <1>1, <3>1 DEF MInv, AllFinite, Correct
        <3>3. \A k, l \in c : areEqual("normal", k.attr, l.attr)
            BY <3>1, LedUniversal, LeadingKind DEF areEqual
        <3>4. isCorrect("normal", d)
            <4> SUFFICES ASSUME NEW k \in d, NEW l \in d, k.prop = l.prop, k.neg # l.neg
                         PROVE  FALSE
                BY DEF isCorrect
            <4>1. PICK i, j \in c : k = setAttribute(i, "step_next") /\ l = setAttribute(j, "step_next")
                BY <3>1 DEF Retag
            <4>2. i.prop = j.prop /\ i.neg # j.neg
                BY <4>1 DEF setAttribute
            <4> QED BY <3>2, <3>3, <4>2 DEF isCorrect
        <3> QED BY <3>1, <3>2, <3>4, RetagFinite
    <2> QED BY <2>1, <2>2
<1>3. Sound'
    BY <1>1, LoopClauses, Membership DEF Sound
<1>4. ~ success'
    BY DEF GetForLoop, resultVars
<1> QED BY <1>2, <1>3, <1>4 DEF AllFinite, Correct, Refuted

\* A step of saturate reports a contradiction only with the empty clause.
LEMMA RefutedStep ==
  ASSUME TypeOK, Shape, Refuted, Step
  PROVE  Refuted'
<1>1. ASSUME NEW c \in passive, SelectRedundant(c) \/ Activate(c)
      PROVE  Refuted'
    BY <1>1 DEF SelectRedundant, Activate, Shape, resultVars, Refuted
<1>2. ASSUME NEW p \in todo, Simplify(p)
      PROVE  Refuted'
    BY <1>2 DEF Simplify, resultVars, Refuted
<1>3. ASSUME NEW p \in kept, Insert(p)
      PROVE  Refuted'
    BY <1>3 DEF Insert, Shape, Refuted, LitsOf
<1>4. ASSUME NEW p \in working, NEW l \in untried, SimplifyByFS(p, l)
      PROVE  Refuted'
    <2> DEFINE shorter == [p EXCEPT !.lits = p.lits \ {l}]
    <2>1. p \in Indexed /\ \A q \in working : q = p
        BY DEF Shape, TypeOK
    <2>2. shorter.lits = p.lits \ {l}
        BY <2>1 DEF Indexed
    <2>3. /\ passive' = passive
          /\ \/ working' = {shorter} /\ success' = (success \/ shorter.lits = {})
             \/ UNCHANGED <<working, success>>
        BY <1>4 DEF SimplifyByFS
    <2> HIDE DEF shorter
    <2>4. {} \in LitsOf(working) => p.lits = {}
        BY <2>1 DEF LitsOf
    <2> QED BY <2>2, <2>3, <2>4 DEF Refuted, LitsOf
<1>5. CASE EndFSR
    BY <1>5 DEF EndFSR, resultVars, Refuted, LitsOf
<1>6. CASE EndIteration \/ EndSaturate
    BY <1>6 DEF EndIteration, EndSaturate, searchVars, resultVars, Refuted
<1> QED BY <1>1, <1>2, <1>3, <1>4, <1>5, <1>6 DEF Step

\* The steps of saturate.
LEMMA StepM ==
  ASSUME MInv, Step
  PROVE  AllFinite' /\ Correct' /\ Sound' /\ Refuted'
<1>1. TypeOK /\ Shape /\ AllFinite /\ Correct /\ Sound /\ Refuted /\ given' = given
    BY StepFrame DEF MInv, IInv
<1>2. Sound'
    <2> SUFFICES ASSUME NEW d \in Held' PROVE Entails(given, d)
        BY <1>1 DEF Sound
    <2> QED BY <1>1, StepConcludes DEF Sound
<1> QED BY <1>1, <1>2, StepForms, RefutedStep

\* Every operation keeps it.
LEMMA MNext ==
  ASSUME MInv, [Next]_vars
  PROVE  AllFinite' /\ Correct' /\ Sound' /\ Refuted'
<1>1. ASSUME UNCHANGED <<searchVars, success, given>>
      PROVE  AllFinite' /\ Correct' /\ Sound' /\ Refuted'
    <2>1. Held' = Held /\ given' = given /\ success' = success
          /\ passive' = passive /\ working' = working
        BY <1>1 DEF searchVars, Held
    <2> QED BY <2>1 DEF MInv, AllFinite, Correct, Sound, Refuted
<1>2. CASE Saturate
    BY <1>1, <1>2 DEF Saturate
<1>3. CASE UNCHANGED vars
    BY <1>1, <1>3 DEF vars, resultVars, callerVars
<1> QED BY <1>2, <1>3, PushM, LoopM, StepM DEF Next

\* It is inductive together with that of SaturationProofs.
LEMMA Meaning == Spec => []MInv
<1>1. Init => MInv
    BY InitMInv
<1>2. MInv /\ [Next]_vars => MInv'
    <2> SUFFICES ASSUME MInv, [Next]_vars PROVE MInv'
        OBVIOUS
    <2>1. IInv
        BY DEF MInv
    <2>2. IInv'
        BY <2>1, TypeNext, ShapeNext, NothingLostNext, ResolventsNext, ActiveReducedNext DEF IInv
    <2> QED BY <2>2, MNext DEF MInv
<1> QED BY <1>1, <1>2, PTL DEF Spec

-----------------------------------------------------------------------------
(***************************************************************************)
(* The theorems.                                                           *)
(***************************************************************************)
\* Every clause the engine holds follows from what it was given.
THEOREM SaturateSound == Spec => []Sound
<1>1. MInv => Sound
    BY DEF MInv
<1> QED BY <1>1, Meaning, PTL

\* A contradiction that saturate reports is one: what it was given has no
\* model.
THEOREM ContradictionIsRight == Spec => [](success => ~ Satisfiable(given))
<1>1. MInv => (success => ~ Satisfiable(given))
    <2> SUFFICES ASSUME MInv, success PROVE ~ Satisfiable(given)
        OBVIOUS
    <2>1. {} \in Held
        BY DEF MInv, Refuted, Held
    <2>2. Entails(given, {})
        BY <2>1 DEF MInv, Sound
    <2> QED BY <2>2 DEF Entails, Satisfiable
<1> QED BY <1>1, Meaning, PTL

\* Every clause, merged, shortened or rewritten, is of one kind, without
\* complementary literals, and led by a literal of the attribute tested.
THEOREM StaysWellFormed == Spec => []WellFormed
<1>1. MInv => WellFormed
    <2> SUFFICES ASSUME MInv, NEW c \in Held
                 PROVE  /\ OneKind(c) /\ isCorrect("normal", c)
                        /\ c # {} => getLeadingLiteral(c).attr = leadingAttribute(c)
        BY DEF WellFormed
    <2>1. c \in Clauses
        BY HeldType DEF MInv, IInv, Held
    <2>2. OneKind(c) /\ IsFiniteSet(c) /\ isCorrect("normal", c)
        BY DEF MInv, IInv, Shape, AllFinite, Correct
    <2> QED BY <2>1, <2>2, LeadingLiteral
<1> QED BY <1>1, Meaning, PTL

-----------------------------------------------------------------------------
(***************************************************************************)
(* saturate and the calls made on a clause set implement Deduction.        *)
(***************************************************************************)
(***************************************************************************)
(* The two modules speak of the same clauses and models.                   *)
(***************************************************************************)
\* Attributes, parts and covering are the same.
LEMMA SameClauses ==
  ASSUME NEW m, NEW c, NEW d, NEW a
  PROVE  /\ D!Retag(c, a) = Retag(c, a)
         /\ D!NextPart(c) = NextPart(c)
         /\ D!EveryMoment(m, c) <=> EveryMoment(m, c)
         /\ D!Covers(m, c, d) <=> Covers(m, c, d)
<1>1. \A s, t : D!Retag(s, t) = Retag(s, t)
    BY DEF D!Retag, Retag, D!setAttribute, setAttribute
<1>2. D!NextPart(c) = NextPart(c)
    BY DEF D!NextPart, NextPart
<1>3. D!EveryMoment(m, c) <=> EveryMoment(m, c)
    BY DEF D!EveryMoment, EveryMoment, D!areEqual, areEqual
<1>4. D!Covers(m, c, d) <=> Covers(m, c, d)
    BY <1>1, <1>3 DEF D!Covers, Covers, D!Attributes, Attributes
<1> QED BY <1>1, <1>2, <1>3, <1>4

\* So are the models of a set of clauses,
LEMMA SameModels ==
  ASSUME NEW S
  PROVE  /\ D!Transitions(S) = Transitions(S)
         /\ D!Alive(Transitions(S)) = Alive(Transitions(S))
         /\ D!Starts(S) = Starts(S)
<1>1. \A c : D!IsInitial(c) <=> IsInitial(c)
    BY DEF D!IsInitial, IsInitial, D!AttributesOf, AttributesOf
<1>2. \A c, v, w : D!HoldsAt(c, v, w) <=> HoldsAt(c, v, w)
    <2>1. \A l, v, w : D!HoldsLit(l, v, w) <=> HoldsLit(l, v, w)
        BY DEF D!HoldsLit, HoldsLit
    <2> QED BY <2>1 DEF D!HoldsAt, HoldsAt
<1>3. D!Valuations = Valuations
    BY DEF D!Valuations, Valuations
<1>4. D!Transitions(S) = Transitions(S)
    BY <1>1, <1>2, <1>3 DEF D!Transitions, Transitions
<1>5. \A T : D!Alive(T) = Alive(T)
    BY <1>3 DEF D!Alive, Alive
<1>6. D!Starts(S) = Starts(S)
    BY <1>1, <1>2, <1>4, <1>5 DEF D!Starts, Starts
<1> QED BY <1>4, <1>5, <1>6

\* and what it entails.
LEMMA SameEntails ==
  ASSUME NEW S, NEW c
  PROVE  D!Entails(S, c) <=> Entails(S, c)
<1>1. D!IsInitial(c) <=> IsInitial(c)
    BY DEF D!IsInitial, IsInitial, D!AttributesOf, AttributesOf
<1>2. \A v, w : D!HoldsAt(c, v, w) <=> HoldsAt(c, v, w)
    <2>1. \A l, v, w : D!HoldsLit(l, v, w) <=> HoldsLit(l, v, w)
        BY DEF D!HoldsLit, HoldsLit
    <2> QED BY <2>1 DEF D!HoldsAt, HoldsAt
<1> QED BY <1>1, <1>2, SameModels DEF D!Entails, Entails

-----------------------------------------------------------------------------
\* A clause held is entailed by what is held, the empty one too.
LEMMA HeldEntailed ==
  ASSUME NEW S, NEW c \in S
  PROVE  Entails(S, c)
<1>1. CASE c # {}
    BY <1>1, Membership
<1>2. CASE c = {}
    <2>1. Transitions(S) = {}
        BY <1>2 DEF Transitions, IsInitial, HoldsAt
    <2>2. Alive(Transitions(S)) = {}
        BY <2>1, AliveStep
    <2>3. Starts(S) = {}
        BY <2>2, StartsAlive
    <2> QED BY <1>2, <2>3 DEF Entails
<1> QED BY <1>1, <1>2

\* What saturate does is conclude and forget.
LEMMA StepD ==
  ASSUME MInv, Step
  PROVE  D!Conclude
<1>1. IInv /\ AllFinite /\ TypeOK /\ Shape
    BY DEF MInv, IInv
<1>2. \A c \in Held' \ Held : D!Entails(Held, c)
    <2>1. \A c \in Held : Entails(Held, c)
        BY HeldEntailed
    <2> QED BY <1>1, <2>1, StepConcludes, SameEntails
<1>3. \A c \in Held \ Held' : D!CoveredBy(mode, Held', c)
    <2>1. \A c \in Held : CoveredBy(mode, Held', c)
        BY <1>1, StepCovers
    <2> QED BY <2>1, SameClauses DEF D!CoveredBy, CoveredBy
<1>4. success' = success \/ (success' = TRUE /\ {} \in Held')
    <2>1. ASSUME NEW p \in kept, Insert(p)
          PROVE  success' = success \/ (success' = TRUE /\ {} \in Held')
        <3>1. success' = (success \/ p.lits = {})
            BY <2>1 DEF Insert
        <3>2. p.lits \in Held'
            BY <2>1 DEF Insert, Held, LitsOf
        <3>3. success \in BOOLEAN
            BY <1>1 DEF TypeOK
        <3> QED BY <3>1, <3>2, <3>3
    <2>2. ASSUME NEW p \in working, NEW l \in untried, SimplifyByFS(p, l)
          PROVE  success' = success \/ (success' = TRUE /\ {} \in Held')
        <3> DEFINE shorter == [p EXCEPT !.lits = p.lits \ {l}]
        <3>1. \/ working' = {shorter} /\ success' = (success \/ shorter.lits = {})
              \/ success' = success
            BY <2>2 DEF SimplifyByFS
        <3> HIDE DEF shorter
        <3>2. working' = {shorter} => shorter.lits \in Held'
            BY DEF Held, LitsOf
        <3>3. success \in BOOLEAN
            BY <1>1 DEF TypeOK
        <3> QED BY <3>1, <3>2, <3>3
    <2>3. success' = success \/ (\E p \in kept : Insert(p))
            \/ \E p \in working, l \in untried : SimplifyByFS(p, l)
        BY DEF Step, SelectRedundant, Activate, Simplify, EndFSR, EndIteration, EndSaturate,
               resultVars
    <2> QED BY <2>1, <2>2, <2>3
<1>5. success' \in {success, {} \in Held'}
    BY <1>4
<1>6. mode' = mode /\ given' = given
    BY StepFrame
<1> QED BY <1>2, <1>3, <1>5, <1>6 DEF D!Conclude

\* push_back gives a clause, or drops a tautology unseen.
LEMMA PushD ==
  ASSUME MInv, NEW lits \in Inputs \cup Candidates, Push(lits)
  PROVE  D!Give \/ UNCHANGED D!dvars
<1> DEFINE fresh == [id |-> nextId, lits |-> lits]
<1>1. /\ UNCHANGED <<mode, active, todo, kept, working, success>> /\ ~ success
      /\ \/ UNCHANGED <<passive, given>>
         \/ passive' = passive \cup {fresh} /\ given' = given \cup {lits}
    BY DEF Push, resultVars
<1>2. fresh.lits = lits
    OBVIOUS
<1> HIDE DEF fresh
<1>3. CASE UNCHANGED <<passive, given>>
    <2>1. Held' = Held
        BY <1>1, <1>3 DEF Held
    <2> QED BY <1>1, <1>3, <2>1 DEF D!dvars
<1>4. CASE passive' = passive \cup {fresh} /\ given' = given \cup {lits}
    <2>1. Held' = Held \cup {lits}
        BY <1>1, <1>2, <1>4 DEF Held, LitsOf
    <2> QED BY <1>1, <1>4, <2>1 DEF D!Give
<1> QED BY <1>1, <1>3, <1>4

\* getForLoop is the projection.
LEMMA LoopD ==
  ASSUME MInv, GetForLoop
  PROVE  D!Project
<1>1. TypeOK /\ Shape
    BY DEF MInv, IInv
<1>2. /\ active' = {e \in active : IsStep(e)} \cup {stepForm(e) : e \in universals}
      /\ given' = LitsOf(active') /\ passive = {} /\ passive' = {} /\ pc = "idle"
      /\ mode = "normal" /\ mode' = "loopSearch" /\ ~ success /\ success' = success
      /\ UNCHANGED <<todo, kept, working>>
    BY DEF GetForLoop, getForLoop, resultVars
<1>3. todo = {} /\ kept = {} /\ working = {}
    BY <1>1, <1>2 DEF Shape
<1>4. Held = LitsOf(active) /\ Held' = LitsOf(active')
    BY <1>2, <1>3 DEF Held, LitsOf
<1>5. \A c \in Held : c \in Clauses /\ OneKind(c) /\ c # {}
    BY <1>1, <1>4, HeldType DEF Shape, Held
<1>6. ASSUME NEW c \in Held
      PROVE  /\ areEqual("normal", leadingAttribute(c), "universal") <=> EveryMoment("normal", c)
             /\ leadingAttribute(c) = "step_next" <=> NextPart(c) # {}
    <2>1. areEqual("normal", leadingAttribute(c), "universal") => EveryMoment("normal", c)
        BY <1>5, LedUniversal DEF Modes
    <2>2. PICK l \in c : l.attr = leadingAttribute(c)
        <3>1. IsFiniteSet(c)
            BY DEF MInv, AllFinite
        <3> QED BY <1>5, <3>1, LeadingLiteral
    <2>3. EveryMoment("normal", c) => areEqual("normal", leadingAttribute(c), "universal")
        BY <2>2 DEF EveryMoment
    <2>4. leadingAttribute(c) = "step_next" <=> NextPart(c) # {}
        <3>1. NextPart(c) # {} => leadingAttribute(c) = "step_next"
            BY DEF leadingAttribute
        <3>2. leadingAttribute(c) = "step_next" => l \in NextPart(c)
            BY <2>2 DEF NextPart
        <3> QED BY <3>1, <3>2
    <2> QED BY <2>1, <2>3, <2>4
<1>7. Held' = {Retag(c, "step_next") : c \in {d \in Held : EveryMoment("normal", d)}}
                \cup {c \in Held : NextPart(c) # {}}
    <2>1. \A e \in active : stepForm(e).lits = Retag(e.lits, "step_next")
        BY DEF stepForm
    <2>2. \A e \in active : e.lits \in Held
        BY <1>4 DEF LitsOf
    <2>3. \A e \in active : /\ e \in universals <=> EveryMoment("normal", e.lits)
                            /\ IsStep(e) <=> NextPart(e.lits) # {}
        BY <1>6, <2>2 DEF universals, IsUniversal, IsStep
    <2>4. universals \subseteq active
        BY DEF universals
    <2>5. ASSUME NEW c \in Held'
          PROVE  \/ \E d \in Held : EveryMoment("normal", d) /\ c = Retag(d, "step_next")
                 \/ c \in Held /\ NextPart(c) # {}
        <3>1. PICK e \in active' : c = e.lits
            BY <1>4 DEF LitsOf
        <3>2. CASE e \in active /\ IsStep(e)
            BY <2>2, <2>3, <3>1, <3>2
        <3>3. CASE ~ (e \in active /\ IsStep(e))
            <4>1. PICK f \in universals : e = stepForm(f)
                BY <1>2, <3>3
            <4> QED BY <2>1, <2>2, <2>3, <2>4, <3>1, <4>1
        <3> QED BY <3>2, <3>3
    <2>6. ASSUME NEW d \in Held, EveryMoment("normal", d)
          PROVE  Retag(d, "step_next") \in Held'
        <3>1. PICK e \in active : d = e.lits
            BY <1>4 DEF LitsOf
        <3>2. stepForm(e) \in active'
            BY <1>2, <2>3, <2>6, <3>1
        <3> QED BY <1>4, <2>1, <3>1, <3>2 DEF LitsOf
    <2>7. ASSUME NEW c \in Held, NextPart(c) # {}
          PROVE  c \in Held'
        <3>1. PICK e \in active : c = e.lits
            BY <1>4 DEF LitsOf
        <3>2. e \in active'
            BY <1>2, <2>3, <2>7, <3>1
        <3> QED BY <1>4, <3>1, <3>2 DEF LitsOf
    <2> QED BY <2>5, <2>6, <2>7
<1> QED BY <1>2, <1>4, <1>7, SameClauses DEF D!Project

\* Every step is one of the abstract clause set, or one it does not see.
LEMMA NextD ==
  ASSUME MInv, [Next]_vars
  PROVE  [D!DNext]_(D!dvars)
<1>1. CASE Saturate
    <2>1. Held' = Held /\ UNCHANGED <<mode, given, success>>
        BY <1>1 DEF Saturate, searchVars, Held
    <2> QED BY <2>1 DEF D!dvars
<1>2. CASE UNCHANGED vars
    <2>1. Held' = Held /\ UNCHANGED <<mode, given, success>>
        BY <1>2 DEF vars, searchVars, resultVars, callerVars, Held
    <2> QED BY <2>1 DEF D!dvars
<1> QED BY <1>1, <1>2, PushD, LoopD, StepD DEF Next, D!DNext

\* The engine implements the abstract clause set: what it concludes follows
\* from what it holds, what it drops is covered, and it reports no
\* contradiction without the empty clause.
THEOREM SaturateDeduces == Spec => ImplementsDeduction
<1>1. Init => D!DInit
    <2> SUFFICES ASSUME Init PROVE D!DInit
        OBVIOUS
    <2>1. Held = {}
        BY DEF Init, Held, LitsOf
    <2> QED BY <2>1 DEF Init, D!DInit
<1>2. MInv /\ [Next]_vars => [D!DNext]_(D!dvars)
    BY NextD
<1> QED BY <1>1, <1>2, Meaning, PTL DEF Spec, ImplementsDeduction, D!DSpec

-----------------------------------------------------------------------------
(***************************************************************************)
(* Completeness.                                                           *)
(***************************************************************************)
(***************************************************************************)
(* Finite sets of symbols.                                                 *)
(***************************************************************************)
\* Finitely many numbers have a bound.
LEMMA Bounded ==
  ASSUME NEW T \in SUBSET Nat, IsFiniteSet(T)
  PROVE  \E n \in Nat : \A m \in T : m < n
<1> DEFINE Free == {U \in SUBSET T : ~ \E n \in Nat : \A m \in U : m < n}
           sizes == {Cardinality(U) : U \in Free}
<1> SUFFICES ASSUME Free # {} PROVE FALSE
    OBVIOUS
<1>1. \A U \in Free : U \subseteq T /\ IsFiniteSet(U) /\ Cardinality(U) \in Nat
    BY FS_Subset, FS_CardinalityType
<1>2. PICK U \in Free : \A V \in Free : Cardinality(U) <= Cardinality(V)
    <2>1. sizes \in SUBSET Nat /\ sizes # {}
        BY <1>1
    <2>2. PICK n \in sizes : \A m \in sizes : n <= m
        BY <2>1, NatMinimum
    <2>3. PICK U \in Free : n = Cardinality(U)
        BY <2>2
    <2> QED BY <2>2, <2>3
<1>3. PICK x \in U : TRUE
    BY <1>2
<1>4. /\ IsFiniteSet(U \ {x}) /\ Cardinality(U \ {x}) = Cardinality(U) - 1
      /\ x \in Nat /\ Cardinality(U) \in Nat
    BY <1>1, <1>3, FS_RemoveElement
<1>5. U \ {x} \notin Free
    BY <1>2, <1>4
<1>6. PICK n \in Nat : \A m \in U \ {x} : m < n
    BY <1>1, <1>5
<1>7. \A m \in U : m < n + x + 1 /\ m \in Nat
    BY <1>1, <1>4, <1>6
<1>8. n + x + 1 \in Nat
    BY <1>4, <1>6
<1> QED BY <1>7, <1>8

-----------------------------------------------------------------------------
(***************************************************************************)
(* Resolution on the greatest symbol is complete: sets of keys, of which   *)
(* every two that meet in complementary keys of their greatest symbol have *)
(* a third that is a part of what the two leave, have a common model.      *)
(***************************************************************************)
KeyTrue(k, x) == IF k[2] THEN k[1] \notin x ELSE k[1] \in x

Leads(k, c) == k \in c /\ \A j \in c \ {k} : j[1] < k[1]

\* Two sets of keys that meet.
Meeting(n, c, d) == Leads(<<n, FALSE>>, c) /\ Leads(<<n, TRUE>>, d)

Rest(n, c, d) == (c \ {<<n, FALSE>>}) \cup (d \ {<<n, TRUE>>})

\* Finitely many symbols of P below N are in use, no set of K is empty, and of
\* what two that meet leave, unless it is always true, there is a part in K.
Ground(P, K, N) ==
  /\ P \in SUBSET Nat /\ N \in Nat
  /\ {} \notin K
  /\ \A c \in K : c \subseteq P \X BOOLEAN /\ \A k \in c : k[1] < N
  /\ \A n \in P, c \in K, d \in K, x \in SUBSET P :
       Meeting(n, c, d) /\ (\A k \in Rest(n, c, d) : ~ KeyTrue(k, x)) =>
         \E e \in K : e \subseteq Rest(n, c, d)

HasModel(P, K) == \E x \in SUBSET P : \A c \in K : \E k \in c : KeyTrue(k, x)

\* If every model of the symbols below n failed at n, two sets would meet
\* there, and what they leave would fail below n.
LEMMA GroundModel ==
  ASSUME NEW P, NEW K, NEW N, Ground(P, K, N)
  PROVE  HasModel(P, K)
<1> DEFINE Right(x, c) == \E k \in c : KeyTrue(k, x)
           Below(m, c) == \A k \in c : k[1] < m
           Good(m) == \E x \in SUBSET P : \A c \in K : Below(m, c) => Right(x, c)
           Bad == {m \in Nat : ~ Good(m)}
<1> USE DEF Ground
<1>1. \A c \in K : \A k \in c : k = <<k[1], k[2]>> /\ k[1] \in P /\ k[1] \in Nat /\ k[2] \in BOOLEAN
    OBVIOUS
<1>2. Good(0)
    <2> SUFFICES ASSUME NEW c \in K, Below(0, c) PROVE FALSE
        OBVIOUS
    <2>1. PICK k \in c : TRUE
        OBVIOUS
    <2>2. k[1] < 0 /\ k[1] \in Nat
        BY <1>1, <2>1
    <2> QED BY <2>2
<1>3. ASSUME NEW n \in Nat, Good(n)
      PROVE  Good(n + 1)
    <2>1. PICK x \in SUBSET P : \A c \in K : Below(n, c) => Right(x, c)
        BY <1>3
    <2> DEFINE off == x \ {n}
               on  == x \cup {n}
    <2>2. ASSUME NEW c \in K, NEW k \in c, k[1] # n
          PROVE  /\ KeyTrue(k, off) <=> KeyTrue(k, x)
                 /\ KeyTrue(k, on) <=> KeyTrue(k, x)
        BY <2>2 DEF KeyTrue
    <2>3. ASSUME NEW c \in K, Below(n + 1, c), ~ Right(off, c)
          PROVE  Leads(<<n, FALSE>>, c)
        <3>1. \A k \in c : k[1] = n => k[2] = FALSE
            <4> SUFFICES ASSUME NEW k \in c, k[1] = n, k[2] # FALSE PROVE FALSE
                OBVIOUS
            <4>1. k[2] = TRUE
                BY <1>1
            <4>2. KeyTrue(k, off)
                BY <4>1 DEF KeyTrue
            <4> QED BY <2>3, <4>2
        <3>2. \E k \in c : k[1] = n
            <4> SUFFICES ASSUME \A k \in c : k[1] # n PROVE FALSE
                OBVIOUS
            <4>1. Below(n, c)
                BY <1>1, <2>3
            <4>2. PICK k \in c : KeyTrue(k, x)
                BY <2>1, <4>1
            <4> QED BY <2>2, <2>3, <4>2
        <3>3. <<n, FALSE>> \in c
            BY <1>1, <3>1, <3>2
        <3>4. ASSUME NEW j \in c, j # <<n, FALSE>> PROVE j[1] < n
            <4>1. j[1] # n
                BY <1>1, <3>1, <3>4
            <4> QED BY <1>1, <2>3, <4>1
        <3>5. <<n, FALSE>>[1] = n
            OBVIOUS
        <3> QED BY <3>3, <3>4, <3>5 DEF Leads
    <2>4. ASSUME NEW c \in K, Below(n + 1, c), ~ Right(on, c)
          PROVE  Leads(<<n, TRUE>>, c)
        <3>1. \A k \in c : k[1] = n => k[2] = TRUE
            <4> SUFFICES ASSUME NEW k \in c, k[1] = n, k[2] # TRUE PROVE FALSE
                OBVIOUS
            <4>1. k[2] = FALSE
                BY <1>1
            <4>2. KeyTrue(k, on)
                BY <4>1 DEF KeyTrue
            <4> QED BY <2>4, <4>2
        <3>2. \E k \in c : k[1] = n
            <4> SUFFICES ASSUME \A k \in c : k[1] # n PROVE FALSE
                OBVIOUS
            <4>1. Below(n, c)
                BY <1>1, <2>4
            <4>2. PICK k \in c : KeyTrue(k, x)
                BY <2>1, <4>1
            <4> QED BY <2>2, <2>4, <4>2
        <3>3. <<n, TRUE>> \in c
            BY <1>1, <3>1, <3>2
        <3>4. ASSUME NEW j \in c, j # <<n, TRUE>> PROVE j[1] < n
            <4>1. j[1] # n
                BY <1>1, <3>1, <3>4
            <4> QED BY <1>1, <2>4, <4>1
        <3>5. <<n, TRUE>>[1] = n
            OBVIOUS
        <3> QED BY <3>3, <3>4, <3>5 DEF Leads
    <2>5. CASE n \notin P
        <3>1. \A c \in K : Below(n + 1, c) => Below(n, c)
            BY <1>1, <2>5
        <3> QED BY <2>1, <3>1
    <2>6. CASE n \in P
        <3> SUFFICES ASSUME ~ Good(n + 1) PROVE FALSE
            OBVIOUS
        <3>1. off \in SUBSET P /\ on \in SUBSET P
            BY <2>6
        <3>2. PICK c \in K : Below(n + 1, c) /\ ~ Right(off, c)
            BY <3>1
        <3>3. PICK d \in K : Below(n + 1, d) /\ ~ Right(on, d)
            BY <3>1
        <3>4. Meeting(n, c, d)
            BY <2>3, <2>4, <3>2, <3>3 DEF Meeting
        <3>5. ASSUME NEW k \in Rest(n, c, d)
              PROVE  k[1] < n /\ ~ KeyTrue(k, x)
            <4>0. <<n, FALSE>>[1] = n /\ <<n, TRUE>>[1] = n
                OBVIOUS
            <4>1. CASE k \in c \ {<<n, FALSE>>}
                <5>1. k[1] < n /\ k[1] \in Nat
                    BY <1>1, <3>4, <4>0, <4>1 DEF Meeting, Leads
                <5>2. k[1] # n
                    BY <5>1
                <5> QED BY <2>2, <3>2, <4>1, <5>1, <5>2
            <4>2. CASE k \in d \ {<<n, TRUE>>}
                <5>1. k[1] < n /\ k[1] \in Nat
                    BY <1>1, <3>4, <4>0, <4>2 DEF Meeting, Leads
                <5>2. k[1] # n
                    BY <5>1
                <5> QED BY <2>2, <3>3, <4>2, <5>1, <5>2
            <4> QED BY <4>1, <4>2 DEF Rest
        <3>6. PICK e \in K : e \subseteq Rest(n, c, d)
            BY <2>6, <3>4, <3>5
        <3>7. Below(n, e)
            BY <3>5, <3>6
        <3> QED BY <2>1, <3>5, <3>6, <3>7
    <2> QED BY <2>5, <2>6
<1>4. ASSUME ~ Good(N)
      PROVE  FALSE
    <2>1. Bad \in SUBSET Nat /\ Bad # {}
        BY <1>4
    <2>2. PICK m \in Bad : \A j \in Bad : m <= j
        <3> HIDE DEF Bad
        <3> QED BY <2>1, NatMinimum
    <2> HIDE DEF Good
    <2>3. m # 0 /\ m \in Nat
        BY <1>2, <2>2
    <2>4. m - 1 \in Nat /\ ~ (m <= m - 1)
        BY <2>3
    <2>5. Good(m - 1)
        BY <2>2, <2>4
    <2>6. Good((m - 1) + 1) /\ (m - 1) + 1 = m
        BY <1>3, <2>3, <2>4, <2>5
    <2> QED BY <2>2, <2>6
<1> QED BY <1>4 DEF HasModel

-----------------------------------------------------------------------------
(***************************************************************************)
(* Clauses.  The front of a clause are the literals that compete for its   *)
(* lead: those of the next moment in a step clause, all of them in others. *)
(***************************************************************************)
Front(c) == {l \in c : l.attr = leadingAttribute(c)}

lead(c) == getLeadingLiteral(c)

\* The clauses a clause set holds.
Proper(S) ==
  /\ S \subseteq Clauses /\ IsFiniteSet(S)
  /\ \A c \in S : OneKind(c) /\ c # {} /\ IsFiniteSet(c)

\* A literal is true where its key is.
LEMMA KeyOfLiteral ==
  ASSUME NEW l \in Literals, NEW x
  PROVE  /\ TrueAt(l, x) <=> KeyTrue(Key(l), x)
         /\ Key(l) \in Prop \X BOOLEAN
<1>1. l.prop \in Prop /\ l.neg \in BOOLEAN
    BY DEF Literals
<1>2. Key(l)[1] = l.prop /\ Key(l)[2] = l.neg /\ Key(l) \in Prop \X BOOLEAN
    BY <1>1 DEF Key
<1>3. TrueAt(l, x) <=> (l.neg <=> l.prop \notin x)
    BY SignTrue
<1>4. CASE l.neg
    BY <1>2, <1>3, <1>4 DEF KeyTrue
<1>5. CASE ~ l.neg
    BY <1>2, <1>3, <1>5 DEF KeyTrue
<1> QED BY <1>2, <1>4, <1>5

\* The leading literal is in front, and the front has no other literal with
\* its key.
LEMMA LeadInFront ==
  ASSUME NEW c \in Clauses, IsFiniteSet(c), c # {}, OneKind(c)
  PROVE  /\ lead(c) \in Front(c)
         /\ \A l \in Front(c) : Key(l) = Key(lead(c)) => l = lead(c)
<1>1. lead(c) \in c /\ lead(c).attr = leadingAttribute(c)
    BY LeadingLiteral DEF lead
<1>2. \A l \in Front(c) : l \in Literals /\ l.attr = leadingAttribute(c)
    BY DEF Front, Clauses
<1> QED BY <1>1, <1>2, LiteralEq DEF Front, Key

\* Where all other keys of the front have smaller symbols, a literal leads.
LEMMA FrontLeads ==
  ASSUME NEW c \in Clauses, IsFiniteSet(c), c # {}, OneKind(c), NEW k, Leads(k, Keys(Front(c)))
  PROVE  Key(lead(c)) = k
<1> SUFFICES ASSUME Key(lead(c)) # k PROVE FALSE
    OBVIOUS
<1>1. PICK l \in Front(c) : Key(l) = k
    BY DEF Leads, Keys
<1>2. lead(c) \in Front(c)
    BY LeadInFront
<1>3. Key(lead(c)) \in Keys(Front(c)) \ {k}
    BY <1>2 DEF Keys
<1>4. Key(lead(c))[1] < k[1]
    BY <1>3 DEF Leads
<1>5. lead(c).prop < l.prop
    BY <1>1, <1>4 DEF Key
<1>6. lead(c).attr = l.attr /\ l \in c
    BY <1>2 DEF Front
<1>7. LiteralLess(lead(c), l)
    BY <1>5, <1>6 DEF LiteralLess
<1>8. ~ LiteralLess(lead(c), l)
    BY <1>6, HasFront DEF lead
<1> QED BY <1>7, <1>8

\* What is left of two fronts after resolution.
Left(c, d) == (Front(c) \ {lead(c)}) \cup (Front(d) \ {lead(d)})

\* A set of clauses whose fronts, resolved on their leading literals, leave
\* something that another front is a part of, has a model of its fronts.
LEMMA FrontModel ==
  ASSUME NEW S, Proper(S), NEW C \in SUBSET S,
         \A c, d \in C, x \in Valuations :
            Complementary(c, d) /\ (\A l \in Left(c, d) : ~ TrueAt(l, x)) =>
              \E e \in C : Keys(Front(e)) \subseteq Keys(Left(c, d))
  PROVE  \E x \in Valuations : \A c \in C : \E l \in Front(c) : TrueAt(l, x)
<1> DEFINE K == {Keys(Front(c)) : c \in C}
           T == {l.prop : l \in UNION S}
<1>1. \A c \in C : c \in Clauses /\ OneKind(c) /\ c # {} /\ IsFiniteSet(c)
    BY DEF Proper
<1>2. \A c \in C : \A l \in Front(c) : l \in Literals /\ l \in c /\ l.prop \in T
    BY <1>1 DEF Front, Clauses
<1>3. \A c \in C : Keys(Front(c)) \subseteq Prop \X BOOLEAN
    BY <1>2, KeyOfLiteral DEF Keys
<1>4. {} \notin K
    BY <1>1, LeadInFront DEF Keys
<1>5. PICK N \in Nat : \A m \in T : m < N
    <2>1. IsFiniteSet(UNION S)
        BY FS_UNION DEF Proper
    <2> DEFINE f == [l \in UNION S |-> l.prop]
    <2>2. f \in Surjection(UNION S, T)
        BY DEF Surjection
    <2>3. IsFiniteSet(T)
        <3> HIDE DEF f, T
        <3> QED BY <2>1, <2>2, FS_Surjection
    <2>4. T \in SUBSET Nat
        BY PropAssumption DEF Proper, Clauses, Literals
    <2> HIDE DEF T
    <2> QED BY <2>3, <2>4, Bounded
<1>6. ASSUME NEW c \in C, NEW k \in Keys(Front(c))
      PROVE  k[1] < N
    <2>1. PICK l \in Front(c) : k = Key(l)
        BY DEF Keys
    <2>2. k[1] = l.prop
        BY <2>1 DEF Key
    <2> HIDE DEF T
    <2> QED BY <1>2, <1>5, <2>2
<1>7. ASSUME NEW n \in Prop, NEW c \in C, NEW d \in C, NEW x \in SUBSET Prop,
             Meeting(n, Keys(Front(c)), Keys(Front(d))),
             \A k \in Rest(n, Keys(Front(c)), Keys(Front(d))) : ~ KeyTrue(k, x)
      PROVE  \E e \in C : Keys(Front(e)) \subseteq Rest(n, Keys(Front(c)), Keys(Front(d)))
    <2>1. Key(lead(c)) = <<n, FALSE>> /\ Key(lead(d)) = <<n, TRUE>>
        BY <1>1, <1>7, FrontLeads DEF Meeting
    <2>2. Complementary(c, d)
        <3>1. lead(c).prop = n /\ lead(c).neg = FALSE /\ lead(d).prop = n /\ lead(d).neg = TRUE
            BY <2>1 DEF Key
        <3> QED BY <3>1 DEF Complementary, Key, negate, lead
    <2>3. \A l \in Left(c, d) : Key(l) \in Rest(n, Keys(Front(c)), Keys(Front(d)))
        <3>1. \A l \in Front(c) \ {lead(c)} : Key(l) # <<n, FALSE>>
            BY <1>1, <2>1, LeadInFront
        <3>2. \A l \in Front(d) \ {lead(d)} : Key(l) # <<n, TRUE>>
            BY <1>1, <2>1, LeadInFront
        <3> QED BY <3>1, <3>2 DEF Left, Rest, Keys
    <2>4. \A l \in Left(c, d) : l \in Literals
        BY <1>2 DEF Left
    <2>5. \A l \in Left(c, d) : ~ TrueAt(l, x)
        BY <1>7, <2>3, <2>4, KeyOfLiteral
    <2>6. x \in Valuations
        BY DEF Valuations
    <2>7. PICK e \in C : Keys(Front(e)) \subseteq Keys(Left(c, d))
        BY <2>2, <2>5, <2>6
    <2>8. Keys(Left(c, d)) \subseteq Rest(n, Keys(Front(c)), Keys(Front(d)))
        BY <2>3 DEF Keys
    <2> QED BY <2>7, <2>8
<1>8. \A c \in K : c \subseteq Prop \X BOOLEAN /\ \A k \in c : k[1] < N
    BY <1>3, <1>6
<1>9. \A n \in Prop, c \in K, d \in K, x \in SUBSET Prop :
        Meeting(n, c, d) /\ (\A k \in Rest(n, c, d) : ~ KeyTrue(k, x)) =>
          \E e \in K : e \subseteq Rest(n, c, d)
    BY <1>7
<1> HIDE DEF K, T
<1>10. Ground(Prop, K, N)
    BY <1>4, <1>5, <1>8, <1>9, PropAssumption DEF Ground
<1>11. PICK x \in SUBSET Prop : \A c \in K : \E k \in c : KeyTrue(k, x)
    BY <1>10, GroundModel DEF HasModel
<1>12. ASSUME NEW c \in C
       PROVE  \E l \in Front(c) : TrueAt(l, x)
    <2>1. PICK k \in Keys(Front(c)) : KeyTrue(k, x)
        BY <1>11 DEF K
    <2>2. PICK l \in Front(c) : k = Key(l)
        BY DEF Keys
    <2> QED BY <1>2, <2>1, <2>2, KeyOfLiteral
<1> QED BY <1>12 DEF Valuations

-----------------------------------------------------------------------------
(***************************************************************************)
(* One moment after another.  What the clauses of S ask of the moment that *)
(* follows v: the step clauses whose present part fails at v, and what is  *)
(* said of every moment.                                                   *)
(***************************************************************************)
StepKind(c) == \A l \in c : l.attr \in {"step_now", "step_next"}

Present(S) == {c \in S : ~ IsInitial(c) /\ leadingAttribute(c) # "step_next"}

PresentHolds(S, v) == \A c \in Present(S) : \E l \in c : TrueAt(l, v)

Asked(m, S, v) ==
  {c \in S : \/ leadingAttribute(c) = "step_next" /\ \A l \in NowPart(c) : ~ TrueAt(l, v)
             \/ m = "normal" /\ c \in Present(S)}

\* Resolvents of clauses of S are covered, or of no use at v.
ResolvedAt(m, S, v) ==
  \A c, d \in S :
    Complementary(c, d) =>
      \A r \in resolveMaximals(m, c, d) :
        CoveredBy(m, S, r) \/ \E l \in NowPart(r) : TrueAt(l, v)

\* The literals that one of two clauses leaves in their resolvent.
LEMMA MergedSide ==
  ASSUME NEW c \in Clauses, OneKind(c), c # {},
         NEW b \in {"universal", "step_now", "step_next"}, leadingAttribute(c) # "initial",
         NEW k \in c
  PROVE  LET a == leadingAttribute(c)
             l == setAttribute(k, transform(a, b, k.attr))
         IN  /\ k \in Front(c) =>
                  l.attr = IF "step_next" \in {a, b} THEN "step_next" ELSE "universal"
             /\ k \notin Front(c) => a = "step_next" /\ k \in NowPart(c) /\ l.attr = "step_now"
             /\ Key(l) = Key(k)
<1> DEFINE a == leadingAttribute(c)
           l == setAttribute(k, transform(a, b, k.attr))
<1>1. a \in {"universal", "step_now", "step_next"}
    BY LeadingKind DEF Attributes
<1>2. l.attr = transform(a, b, k.attr) /\ Key(l) = Key(k)
    BY DEF setAttribute, Key
<1>3. a # "step_next" => k.attr = a
    BY LeadingKind
<1>4. a = "step_next" => k.attr \in {"step_now", "step_next"}
    BY LeadingKind
<1>5. k \in Front(c) <=> k.attr = a
    BY DEF Front
<1> HIDE DEF a, l
<1>6. ASSUME k.attr = a
      PROVE  transform(a, b, k.attr) = IF "step_next" \in {a, b} THEN "step_next" ELSE "universal"
    BY <1>1, <1>6 DEF transform
<1>7. ASSUME k.attr # a
      PROVE  a = "step_next" /\ k.attr = "step_now" /\ transform(a, b, k.attr) = "step_now"
    <2>1. a = "step_next" /\ k.attr = "step_now"
        BY <1>3, <1>4, <1>7
    <2> QED BY <2>1 DEF transform
<1> QED BY <1>2, <1>5, <1>6, <1>7 DEF NowPart, a, l

\* The leading attribute says what a clause is.
LEMMA KindOfLead ==
  ASSUME NEW c \in Clauses, OneKind(c), c # {}
  PROVE  /\ IsInitial(c) <=> leadingAttribute(c) = "initial"
         /\ leadingAttribute(c) = "step_next" <=> NextPart(c) # {}
         /\ leadingAttribute(c) # "step_next" => Front(c) = c
         /\ leadingAttribute(c) = "step_next" => Front(c) = NextPart(c)
<1>1. PICK l \in c : TRUE
    OBVIOUS
<1>2. IsInitial(c) <=> l.attr = "initial"
    BY KindJudged
<1>3. leadingAttribute(c) # "step_next" => \A k \in c : k.attr = leadingAttribute(c)
    BY LeadingKind
<1>4. leadingAttribute(c) = "step_next" => l.attr # "initial"
    BY LeadingKind
<1>5. leadingAttribute(c) # "step_next" => NextPart(c) = {}
    BY <1>3 DEF NextPart
<1>6. NextPart(c) # {} => leadingAttribute(c) = "step_next"
    BY DEF leadingAttribute
<1>7. leadingAttribute(c) = "step_next" => NextPart(c) # {}
    <2> SUFFICES ASSUME leadingAttribute(c) = "step_next", NextPart(c) = {} PROVE FALSE
        OBVIOUS
    <2>1. leadingAttribute(c) = (CHOOSE k \in c : TRUE).attr
        BY DEF leadingAttribute
    <2> DEFINE k == CHOOSE k \in c : TRUE
    <2>2. k \in c
        BY <1>1
    <2>3. k.attr = "step_next"
        BY <2>1
    <2> QED BY <2>2, <2>3 DEF NextPart
<1> QED BY <1>2, <1>3, <1>4, <1>5, <1>6, <1>7 DEF Front, NextPart

\* What is asked of the next moment and resolved leaves a resolvent whose part
\* about v fails there, and whose other keys are among those left.
LEMMA MergedLeaves ==
  ASSUME NEW c \in Clauses, NEW d \in Clauses, OneKind(c), OneKind(d), c # {}, d # {},
         IsFiniteSet(c), IsFiniteSet(d),
         leadingAttribute(c) # "initial", leadingAttribute(d) # "initial",
         NEW v, leadingAttribute(c) = "step_next" => \A l \in NowPart(c) : ~ TrueAt(l, v),
         leadingAttribute(d) = "step_next" => \A l \in NowPart(d) : ~ TrueAt(l, v)
  PROVE  LET r == Merged(c, d)
             stepped == "step_next" \in {leadingAttribute(c), leadingAttribute(d)}
         IN  /\ \A l \in r : \/ l.attr = "step_now" /\ ~ TrueAt(l, v) /\ stepped
                             \/ /\ l.attr = IF stepped THEN "step_next" ELSE "universal"
                                /\ \E k \in Left(c, d) : Key(l) = Key(k)
<1> DEFINE a == leadingAttribute(c)
           b == leadingAttribute(d)
           r == Merged(c, d)
           stepped == "step_next" \in {a, b}
<1>1. a \in {"universal", "step_now", "step_next"} /\ b \in {"universal", "step_now", "step_next"}
    BY LeadingKind DEF Attributes
<1>2. r = {setAttribute(k, transform(a, b, k.attr)) : k \in c \ {lead(c)}} \cup
          {setAttribute(k, transform(b, a, k.attr)) : k \in d \ {lead(d)}}
    BY DEF Merged, Transformed, lead
<1>3. ASSUME NEW k \in c \ {lead(c)}
      PROVE  LET l == setAttribute(k, transform(a, b, k.attr))
             IN  \/ l.attr = "step_now" /\ ~ TrueAt(l, v) /\ stepped
                 \/ /\ l.attr = IF stepped THEN "step_next" ELSE "universal"
                    /\ \E j \in Left(c, d) : Key(l) = Key(j)
    <2> DEFINE l == setAttribute(k, transform(a, b, k.attr))
    <2>1. /\ k \in Front(c) => l.attr = IF stepped THEN "step_next" ELSE "universal"
          /\ k \notin Front(c) => a = "step_next" /\ k \in NowPart(c) /\ l.attr = "step_now"
          /\ Key(l) = Key(k)
        BY <1>1, MergedSide
    <2>2. k \in Front(c) => k \in Left(c, d)
        BY DEF Left
    <2>3. k \notin Front(c) => ~ TrueAt(l, v)
        BY <2>1, SameKeyTrue
    <2> HIDE DEF l
    <2> QED BY <2>1, <2>2, <2>3 DEF l
<1>4. ASSUME NEW k \in d \ {lead(d)}
      PROVE  LET l == setAttribute(k, transform(b, a, k.attr))
             IN  \/ l.attr = "step_now" /\ ~ TrueAt(l, v) /\ stepped
                 \/ /\ l.attr = IF stepped THEN "step_next" ELSE "universal"
                    /\ \E j \in Left(c, d) : Key(l) = Key(j)
    <2> DEFINE l == setAttribute(k, transform(b, a, k.attr))
    <2>1. /\ k \in Front(d) => l.attr = IF stepped THEN "step_next" ELSE "universal"
          /\ k \notin Front(d) => b = "step_next" /\ k \in NowPart(d) /\ l.attr = "step_now"
          /\ Key(l) = Key(k)
        <3>1. {a, b} = {b, a}
            OBVIOUS
        <3> QED BY <1>1, <3>1, MergedSide
    <2>2. k \in Front(d) => k \in Left(c, d)
        BY DEF Left
    <2>3. k \notin Front(d) => ~ TrueAt(l, v)
        BY <2>1, SameKeyTrue
    <2> HIDE DEF l
    <2> QED BY <2>1, <2>2, <2>3 DEF l
<1> QED BY <1>2, <1>3, <1>4

\* A clause that covers another has its keys.
LEMMA CoversKeys ==
  ASSUME NEW m, NEW e \in Clauses, NEW r, Covers(m, e, r)
  PROVE  Keys(e) \subseteq Keys(r)
<1>1. CASE e \subseteq r
    BY <1>1 DEF Keys
<1>2. ASSUME NEW a, Retag(e, a) \subseteq r
      PROVE  Keys(e) \subseteq Keys(r)
    <2>1. \A l \in e : setAttribute(l, a) \in r /\ Key(setAttribute(l, a)) = Key(l)
        BY <1>2 DEF Retag, setAttribute, Key
    <2> QED BY <2>1 DEF Keys
<1> QED BY <1>1, <1>2 DEF Covers

\* At a moment at which what is said of the present holds, what is asked of
\* the next moment can be met.
LEMMA NextMoment ==
  ASSUME NEW m \in Modes, NEW S, Proper(S), m = "loopSearch" => \A c \in S : StepKind(c),
         NEW v, PresentHolds(S, v), ResolvedAt(m, S, v)
  PROVE  \E w \in Valuations : \A c \in Asked(m, S, v) : \E l \in Front(c) : TrueAt(l, w)
<1> DEFINE C == Asked(m, S, v)
<1>1. \A c \in S : c \in Clauses /\ OneKind(c) /\ c # {} /\ IsFiniteSet(c)
    BY DEF Proper
<1>2. \A c \in C : /\ c \in S /\ leadingAttribute(c) # "initial"
                   /\ leadingAttribute(c) = "step_next" => \A l \in NowPart(c) : ~ TrueAt(l, v)
                   /\ m = "loopSearch" => leadingAttribute(c) = "step_next"
    <2> SUFFICES ASSUME NEW c \in C
                 PROVE  /\ c \in S /\ leadingAttribute(c) # "initial"
                        /\ leadingAttribute(c) = "step_next" => \A l \in NowPart(c) : ~ TrueAt(l, v)
                        /\ m = "loopSearch" => leadingAttribute(c) = "step_next"
        OBVIOUS
    <2>1. c \in S
        BY DEF Asked
    <2>2. IsInitial(c) <=> leadingAttribute(c) = "initial"
        BY <1>1, <2>1, KindOfLead
    <2> QED BY <2>1, <2>2 DEF Asked, Present
<1>3. ASSUME NEW c \in C, NEW d \in C, NEW x \in Valuations, Complementary(c, d),
             \A l \in Left(c, d) : ~ TrueAt(l, x)
      PROVE  \E e \in C : Keys(Front(e)) \subseteq Keys(Left(c, d))
    <2> DEFINE r == Merged(c, d)
               stepped == "step_next" \in {leadingAttribute(c), leadingAttribute(d)}
    <2>1. \A l \in r : \/ l.attr = "step_now" /\ ~ TrueAt(l, v) /\ stepped
                       \/ /\ l.attr = IF stepped THEN "step_next" ELSE "universal"
                          /\ \E k \in Left(c, d) : Key(l) = Key(k)
        BY <1>1, <1>2, MergedLeaves
    <2>2. areCompatible(m, leadingAttribute(c), leadingAttribute(d))
        BY <1>2 DEF areCompatible, Modes
    <2>3. r \in Clauses /\ OneKind(r)
        BY <1>1, <1>2, <2>2, MergedOneKind
    <2> HIDE DEF r, stepped
    <2>4. \A l \in r : (l.attr = "step_now" => ~ TrueAt(l, v)) /\ (l.attr # "step_now" => ~ TrueAt(l, x))
        BY <1>3, <2>1, SameKeyTrue
    <2>5. isCorrect(m, r)
        <3> SUFFICES ASSUME NEW k \in r, NEW l \in r, k.prop = l.prop, k.neg # l.neg,
                            areEqual(m, k.attr, l.attr)
                     PROVE  FALSE
            BY DEF isCorrect
        <3>1. k \in Literals /\ l \in Literals
            BY <2>3 DEF Clauses
        <3>2. k.attr = l.attr
            BY <2>1 DEF areEqual
        <3>3. \A y : TrueAt(k, y) \/ TrueAt(l, y)
            <4> SUFFICES ASSUME NEW y PROVE TrueAt(k, y) \/ TrueAt(l, y)
                OBVIOUS
            <4>1. (TrueAt(k, y) <=> (k.neg <=> k.prop \notin y))
                  /\ (TrueAt(l, y) <=> (l.neg <=> l.prop \notin y))
                BY <3>1, SignTrue
            <4>2. k.neg \in BOOLEAN /\ l.neg \in BOOLEAN
                BY <3>1 DEF Literals
            <4> QED BY <4>1, <4>2
        <3> QED BY <2>4, <3>2, <3>3
    <2>6. r \in resolveMaximals(m, c, d)
        BY <2>2, <2>5 DEF resolveMaximals, r
    <2>7. CoveredBy(m, S, r)
        <3>1. ~ \E l \in NowPart(r) : TrueAt(l, v)
            BY <2>4 DEF NowPart
        <3> QED BY <1>2, <1>3, <2>6, <3>1 DEF ResolvedAt
    <2>8. PICK e \in S : Covers(m, e, r)
        BY <2>7 DEF CoveredBy
    <2>9. e \in Clauses /\ OneKind(e) /\ e # {}
        BY <1>1
    <2>10. \A l \in r : l.attr # "step_now" => Key(l) \in Keys(Left(c, d))
        BY <2>1 DEF Keys
    <2>11. \A l \in e : l.attr # "initial"
        <3>1. CASE e \subseteq r
            BY <2>1, <3>1
        <3>2. CASE EveryMoment(m, e)
            BY <3>2 DEF EveryMoment, areEqual
        <3> QED BY <2>8, <3>1, <3>2 DEF Covers
    <2>12. ~ IsInitial(e)
        BY <2>9, <2>11, KindJudged
    <2>13. CASE leadingAttribute(e) = "step_next"
        <3>1. Front(e) = NextPart(e) /\ NextPart(e) # {}
            BY <2>9, <2>13, KindOfLead
        <3>2. ~ EveryMoment(m, e)
            BY <3>1 DEF EveryMoment, areEqual, NextPart
        <3>3. e \subseteq r
            BY <2>8, <3>2 DEF Covers
        <3>4. \A l \in NowPart(e) : ~ TrueAt(l, v)
            BY <2>4, <3>3 DEF NowPart
        <3>5. e \in C
            BY <2>13, <3>4 DEF Asked
        <3>6. Keys(Front(e)) \subseteq Keys(Left(c, d))
            <4> SUFFICES ASSUME NEW l \in Front(e) PROVE Key(l) \in Keys(Left(c, d))
                BY DEF Keys
            <4>1. l \in r /\ l.attr # "step_now"
                BY <3>1, <3>3 DEF NextPart
            <4> QED BY <2>10, <4>1
        <3> QED BY <3>5, <3>6
    <2>14. CASE leadingAttribute(e) # "step_next"
        <3>1. e \in Present(S) /\ Front(e) = e
            BY <2>9, <2>12, <2>14, KindOfLead DEF Present
        <3>2. PICK l \in e : TrueAt(l, v)
            BY <3>1 DEF PresentHolds
        <3>3. m = "loopSearch" => \A k \in e : k.attr = "step_now"
            <4> SUFFICES ASSUME m = "loopSearch" PROVE \A k \in e : k.attr = "step_now"
                OBVIOUS
            <4>1. \A k \in e : k.attr \in {"step_now", "step_next"}
                BY DEF StepKind
            <4>2. \A k \in e : k.attr # "step_next"
                <5>1. NextPart(e) = {}
                    BY <2>9, <2>14, KindOfLead
                <5> QED BY <5>1 DEF NextPart
            <4> QED BY <4>1, <4>2
        <3>4. ASSUME e \subseteq r
              PROVE  m = "normal" /\ Keys(e) \subseteq Keys(Left(c, d))
            <4>1. l.attr # "step_now"
                BY <2>4, <3>2, <3>4
            <4>2. \A k \in e : k.attr = leadingAttribute(e)
                BY <2>9, <2>14, LeadingKind
            <4>3. \A k \in e : k \in r /\ k.attr # "step_now"
                BY <3>4, <4>1, <4>2
            <4>4. m = "normal"
                BY <3>3, <4>1 DEF Modes
            <4> QED BY <2>10, <4>3, <4>4 DEF Keys
        <3>5. ASSUME EveryMoment(m, e), NEW t \in Attributes, Retag(e, t) \subseteq r
              PROVE  m = "normal" /\ Keys(e) \subseteq Keys(Left(c, d))
            <4>1. \A k \in e : /\ setAttribute(k, t) \in r
                               /\ setAttribute(k, t).attr = t /\ Key(setAttribute(k, t)) = Key(k)
                BY <3>5 DEF Retag, setAttribute, Key
            <4>2. t # "step_now"
                <5> SUFFICES ASSUME t = "step_now" PROVE FALSE
                    OBVIOUS
                <5>1. ~ TrueAt(setAttribute(l, t), v)
                    BY <2>4, <4>1
                <5> QED BY <3>2, <4>1, <5>1, SameKeyTrue
            <4>3. \A k \in e : Key(k) \in Keys(Left(c, d))
                BY <2>10, <4>1, <4>2
            <4>4. m = "normal"
                <5> SUFFICES ASSUME m = "loopSearch" PROVE FALSE
                    BY DEF Modes
                <5>1. l.attr = "step_now"
                    BY <3>3
                <5> QED BY <3>5, <5>1 DEF EveryMoment, areEqual
            <4> QED BY <4>3, <4>4 DEF Keys
        <3>6. m = "normal" /\ Keys(e) \subseteq Keys(Left(c, d))
            BY <2>8, <3>4, <3>5 DEF Covers
        <3>7. e \in C
            BY <3>1, <3>6 DEF Asked
        <3> QED BY <3>1, <3>6, <3>7
    <2> QED BY <2>13, <2>14
<1>4. C \in SUBSET S
    BY DEF Asked
<1> HIDE DEF C
<1>5. \A c, d \in C, x \in Valuations :
        Complementary(c, d) /\ (\A l \in Left(c, d) : ~ TrueAt(l, x)) =>
          \E e \in C : Keys(Front(e)) \subseteq Keys(Left(c, d))
    BY <1>3
<1>6. \E w \in Valuations : \A c \in C : \E l \in Front(c) : TrueAt(l, w)
    BY <1>4, <1>5, FrontModel
<1> QED BY <1>6 DEF C

\* At such a moment a transition of S starts, in normal mode to a moment of
\* that kind.
LEMMA HasSuccessor ==
  ASSUME NEW m \in Modes, NEW S, Proper(S), m = "loopSearch" => \A c \in S : StepKind(c),
         NEW v \in Valuations, PresentHolds(S, v), ResolvedAt(m, S, v)
  PROVE  \E w \in Valuations : <<v, w>> \in Transitions(S) /\ (m = "normal" => PresentHolds(S, w))
<1>1. PICK w \in Valuations : \A c \in Asked(m, S, v) : \E l \in Front(c) : TrueAt(l, w)
    BY NextMoment
<1>2. \A c \in S : c \in Clauses /\ OneKind(c) /\ c # {}
    BY DEF Proper
<1>3. ASSUME NEW c \in S, ~ IsInitial(c)
      PROVE  HoldsAt(c, v, w)
    <2>1. CASE leadingAttribute(c) # "step_next"
        <3>1. PICK l \in c : TrueAt(l, v)
            BY <1>3, <2>1 DEF PresentHolds, Present
        <3>2. NextPart(c) = {}
            BY <1>2, <2>1, KindOfLead
        <3>3. l.attr # "step_next"
            BY <3>2 DEF NextPart
        <3> QED BY <3>1, <3>3, HoldsAtMoment DEF HoldsAt, moment
    <2>2. CASE leadingAttribute(c) = "step_next" /\ \E l \in NowPart(c) : TrueAt(l, v)
        <3>1. PICK l \in c : l.attr = "step_now" /\ TrueAt(l, v)
            BY <2>2 DEF NowPart
        <3> QED BY <3>1, HoldsAtMoment DEF HoldsAt, moment
    <2>3. CASE leadingAttribute(c) = "step_next" /\ ~ \E l \in NowPart(c) : TrueAt(l, v)
        <3>1. c \in Asked(m, S, v)
            BY <2>3 DEF Asked
        <3>2. PICK l \in Front(c) : TrueAt(l, w)
            BY <1>1, <3>1
        <3>3. l \in c /\ l.attr = "step_next"
            BY <2>3 DEF Front
        <3> QED BY <3>2, <3>3, HoldsAtMoment DEF HoldsAt, moment
    <2> QED BY <2>1, <2>2, <2>3
<1>4. <<v, w>> \in Transitions(S)
    <2> DEFINE e == <<v, w>>
    <2>1. e \in Valuations \X Valuations /\ e[1] = v /\ e[2] = w
        OBVIOUS
    <2> HIDE DEF e
    <2> QED BY <1>3, <2>1 DEF Transitions, e
<1>5. m = "normal" => PresentHolds(S, w)
    <2> SUFFICES ASSUME m = "normal", NEW c \in Present(S) PROVE \E l \in c : TrueAt(l, w)
        BY DEF PresentHolds
    <2>1. c \in S /\ leadingAttribute(c) # "step_next"
        BY DEF Present
    <2>2. c \in Asked(m, S, v) /\ Front(c) = c
        BY <1>2, <2>1, KindOfLead DEF Asked
    <2> QED BY <1>1, <2>2
<1> QED BY <1>4, <1>5

\* Every two clauses of S have their resolvents covered.
Resolved(m, S) ==
  \A c, d \in S :
    Complementary(c, d) => \A r \in resolveMaximals(m, c, d) : CoveredBy(m, S, r)

\* In a saturated set the moments from which a model goes on are those at
\* which what is said of the present holds.
LEMMA AlivePresent ==
  ASSUME NEW S, Proper(S), Resolved("normal", S)
  PROVE  Alive(Transitions(S)) = {v \in Valuations : PresentHolds(S, v)}
<1> DEFINE V == {v \in Valuations : PresentHolds(S, v)}
<1>1. V \subseteq Alive(Transitions(S))
    <2>1. ASSUME NEW v \in V
          PROVE  \E w \in V : <<v, w>> \in Transitions(S)
        <3>1. ResolvedAt("normal", S, v)
            BY DEF Resolved, ResolvedAt
        <3> QED BY <3>1, HasSuccessor DEF Modes
    <2>2. V \in SUBSET Valuations
        OBVIOUS
    <2> HIDE DEF V
    <2> QED BY <2>1, <2>2 DEF Alive
<1>2. ASSUME NEW v \in Alive(Transitions(S))
      PROVE  v \in V
    <2>1. v \in Valuations
        BY DEF Alive
    <2>2. PICK w \in Alive(Transitions(S)) : <<v, w>> \in Transitions(S)
        BY AliveStep
    <2>3. ASSUME NEW c \in Present(S)
          PROVE  \E l \in c : TrueAt(l, v)
        <3>1. c \in S /\ ~ IsInitial(c) /\ leadingAttribute(c) # "step_next"
            BY DEF Present
        <3>2. \A e \in Transitions(S) : HoldsAt(c, e[1], e[2])
            BY <3>1 DEF Transitions
        <3>3. HoldsAt(c, <<v, w>>[1], <<v, w>>[2])
            BY <2>2, <3>2
        <3>4. HoldsAt(c, v, w)
            BY <3>3
        <3>5. PICK l \in c : HoldsLit(l, v, w)
            BY <3>4 DEF HoldsAt
        <3>6. c \in Clauses /\ OneKind(c) /\ c # {}
            BY <3>1 DEF Proper
        <3>7. l.attr # "step_next"
            BY <3>1, <3>6, KindOfLead DEF NextPart
        <3> QED BY <3>5, <3>7, HoldsAtMoment DEF moment
    <2> QED BY <2>1, <2>3 DEF PresentHolds
<1> QED BY <1>1, <1>2

-----------------------------------------------------------------------------
(***************************************************************************)
(* The first moment.                                                       *)
(***************************************************************************)
\* What two clauses without literals of the next moment leave.
LEMMA MergedNow ==
  ASSUME NEW c \in Clauses, NEW d \in Clauses, OneKind(c), OneKind(d), c # {}, d # {},
         leadingAttribute(c) # "step_next", leadingAttribute(d) # "step_next"
  PROVE  \A l \in Merged(c, d) : /\ l.attr \in {"initial", "universal"}
                                 /\ \E k \in Left(c, d) : Key(l) = Key(k)
<1> DEFINE a == leadingAttribute(c)
           b == leadingAttribute(d)
<1>1. a \in {"initial", "universal", "step_now"} /\ b \in {"initial", "universal", "step_now"}
    BY LeadingKind DEF Attributes
<1>2. Merged(c, d) = {setAttribute(k, transform(a, b, k.attr)) : k \in c \ {lead(c)}} \cup
                     {setAttribute(k, transform(b, a, k.attr)) : k \in d \ {lead(d)}}
    BY DEF Merged, Transformed, lead
<1>3. Front(c) = c /\ Front(d) = d
    BY KindOfLead
<1> DEFINE z == IF "initial" \in {a, b} THEN "initial" ELSE "universal"
<1>4. \A x : transform(a, b, x) = z /\ transform(b, a, x) = z
    BY <1>1 DEF transform
<1>5. z \in {"initial", "universal"}
    OBVIOUS
<1>6. \A k \in (c \ {lead(c)}) \cup (d \ {lead(d)}) : k \in Left(c, d)
    BY <1>3 DEF Left
<1> HIDE DEF a, b, z
<1>7. ASSUME NEW l \in Merged(c, d)
      PROVE  \E k \in Left(c, d) : l = setAttribute(k, z)
    BY <1>2, <1>4, <1>6
<1>8. \A k : setAttribute(k, z).attr = z /\ Key(setAttribute(k, z)) = Key(k)
    BY DEF setAttribute, Key
<1> QED BY <1>5, <1>7, <1>8

\* In a saturated set what is said of the first moment can be met.
LEMMA FirstMoment ==
  ASSUME NEW S, Proper(S), Resolved("normal", S)
  PROVE  \E x \in Valuations : \A c \in S :
            leadingAttribute(c) # "step_next" => \E l \in c : TrueAt(l, x)
<1> DEFINE C == {c \in S : leadingAttribute(c) # "step_next"}
<1>1. \A c \in S : c \in Clauses /\ OneKind(c) /\ c # {} /\ IsFiniteSet(c)
    BY DEF Proper
<1>2. ASSUME NEW c \in C, NEW d \in C, NEW x \in Valuations, Complementary(c, d),
             \A l \in Left(c, d) : ~ TrueAt(l, x)
      PROVE  \E e \in C : Keys(Front(e)) \subseteq Keys(Left(c, d))
    <2> DEFINE r == Merged(c, d)
    <2>1. \A l \in r : l.attr \in {"initial", "universal"} /\ \E k \in Left(c, d) : Key(l) = Key(k)
        BY <1>1, MergedNow
    <2>2. areCompatible("normal", leadingAttribute(c), leadingAttribute(d))
        BY DEF areCompatible
    <2>3. r \in Clauses /\ OneKind(r)
        BY <1>1, <2>2, MergedOneKind DEF Modes
    <2> HIDE DEF r
    <2>4. \A l \in r : ~ TrueAt(l, x)
        BY <1>2, <2>1, SameKeyTrue
    <2>5. isCorrect("normal", r)
        <3> SUFFICES ASSUME NEW k \in r, NEW l \in r, k.prop = l.prop, k.neg # l.neg
                     PROVE  FALSE
            BY DEF isCorrect
        <3>1. k \in Literals /\ l \in Literals
            BY <2>3 DEF Clauses
        <3>2. (TrueAt(k, x) <=> (k.neg <=> k.prop \notin x))
              /\ (TrueAt(l, x) <=> (l.neg <=> l.prop \notin x))
            BY <3>1, SignTrue
        <3>3. k.neg \in BOOLEAN /\ l.neg \in BOOLEAN
            BY <3>1 DEF Literals
        <3>4. ~ TrueAt(k, x) /\ ~ TrueAt(l, x)
            BY <2>4
        <3> QED BY <3>2, <3>3, <3>4
    <2>6. r \in resolveMaximals("normal", c, d)
        BY <2>2, <2>5 DEF resolveMaximals, r
    <2>7. PICK e \in S : Covers("normal", e, r)
        BY <1>2, <2>6 DEF Resolved, CoveredBy
    <2>8. e \in Clauses /\ OneKind(e) /\ e # {}
        BY <1>1
    <2>9. NextPart(e) = {}
        <3>1. CASE e \subseteq r
            BY <2>1, <3>1 DEF NextPart
        <3>2. CASE EveryMoment("normal", e)
            BY <3>2 DEF EveryMoment, areEqual, NextPart
        <3> QED BY <2>7, <3>1, <3>2 DEF Covers
    <2>10. e \in C /\ Front(e) = e
        BY <2>8, <2>9, KindOfLead
    <2>11. Keys(e) \subseteq Keys(r)
        BY <2>7, <2>8, CoversKeys
    <2>12. Keys(r) \subseteq Keys(Left(c, d))
        BY <2>1 DEF Keys
    <2> QED BY <2>10, <2>11, <2>12
<1>3. C \in SUBSET S /\ \A c \in C : Front(c) = c
    BY <1>1, KindOfLead
<1>4. \A c, d \in C, x \in Valuations :
        Complementary(c, d) /\ (\A l \in Left(c, d) : ~ TrueAt(l, x)) =>
          \E e \in C : Keys(Front(e)) \subseteq Keys(Left(c, d))
    BY <1>2
<1>5. \A c \in S : leadingAttribute(c) # "step_next" => c \in C
    OBVIOUS
<1> HIDE DEF C
<1>6. \E x \in Valuations : \A c \in C : \E l \in Front(c) : TrueAt(l, x)
    BY <1>3, <1>4, FrontModel
<1> QED BY <1>3, <1>5, <1>6

\* A saturated set without the empty clause has a model.
LEMMA SaturatedModel ==
  ASSUME NEW S, Proper(S), Resolved("normal", S)
  PROVE  Satisfiable(S)
<1>1. PICK x \in Valuations : \A c \in S :
         leadingAttribute(c) # "step_next" => \E l \in c : TrueAt(l, x)
    BY FirstMoment
<1>2. PresentHolds(S, x)
    BY <1>1 DEF PresentHolds, Present
<1>3. x \in Alive(Transitions(S))
    BY <1>2, AlivePresent
<1>4. ASSUME NEW c \in S, IsInitial(c)
      PROVE  HoldsAt(c, x, x)
    <2>1. c \in Clauses /\ OneKind(c) /\ c # {}
        BY DEF Proper
    <2>2. leadingAttribute(c) # "step_next"
        BY <1>4, <2>1, KindOfLead
    <2>3. PICK l \in c : TrueAt(l, x)
        BY <1>1, <2>2
    <2> QED BY <2>3, HoldsAtMoment DEF HoldsAt, moment
<1>5. x \in Starts(S)
    BY <1>3, <1>4 DEF Starts
<1> QED BY <1>5 DEF Satisfiable

\* What covers a set of clauses has no more models than they.
LEMMA CoveringModels ==
  ASSUME NEW m \in Modes, NEW S, Proper(S), NEW R \in SUBSET Clauses,
         \A d \in R : OneKind(d) /\ d # {} /\ CoveredBy(m, S, d)
  PROVE  /\ Alive(Transitions(S)) \subseteq Alive(Transitions(R))
         /\ Starts(S) \subseteq Starts(R)
<1> DEFINE T == Transitions(S)
           A == Alive(T)
<1>1. ASSUME NEW d \in R
      PROVE  Entails(S, d)
    <2>1. PICK c \in S : Covers(m, c, d)
        BY DEF CoveredBy
    <2>2. c \in Clauses /\ OneKind(c) /\ c # {}
        BY DEF Proper
    <2> QED BY <2>1, <2>2, Membership, CoversEntails
<1>2. \A v \in A : \E w \in A : <<v, w>> \in Transitions(R)
    <2> SUFFICES ASSUME NEW v \in A PROVE \E w \in A : <<v, w>> \in Transitions(R)
        OBVIOUS
    <2>1. PICK w \in A : <<v, w>> \in T
        BY AliveStep
    <2> DEFINE e == <<v, w>>
    <2>2. e \in T /\ e[1] = v /\ e[2] = w /\ {e[1], e[2]} \subseteq A
        BY <2>1
    <2> HIDE DEF e, A, T
    <2>3. \A c \in R : ~ IsInitial(c) => HoldsAt(c, e[1], e[2])
        BY <1>1, <2>2 DEF Entails, A, T
    <2>4. e \in Valuations \X Valuations
        BY <2>2 DEF T, Transitions
    <2>5. e \in Transitions(R)
        BY <2>3, <2>4 DEF Transitions
    <2> QED BY <2>5 DEF e
<1>3. A \subseteq Alive(Transitions(R))
    <2>1. A \in SUBSET Valuations
        BY DEF Alive
    <2> HIDE DEF A
    <2> QED BY <1>2, <2>1 DEF Alive
<1>4. Starts(S) \subseteq Starts(R)
    <2> SUFFICES ASSUME NEW v \in Starts(S), NEW c \in R, IsInitial(c) PROVE HoldsAt(c, v, v)
        BY <1>3, StartsAlive DEF Starts
    <2> QED BY <1>1 DEF Entails
<1> QED BY <1>3, <1>4

-----------------------------------------------------------------------------
(***************************************************************************)
(* What saturate leaves.  The invariants that completeness needs besides   *)
(* those of soundness: no two active clauses were activated at a time, and *)
(* in normal mode none was put into Active by hand.                        *)
(***************************************************************************)
OneAtATime == \A e, f \in active : e.at = f.at => e = f

NoPreset == mode = "normal" => preset = {}

GivenForms == \A c \in given : OneKind(c) /\ c # {}

\* The clauses of a loop search, and what they say of the moments themselves.
LoopForms ==
  mode = "loopSearch" => preset \subseteq given /\ \A c \in Held \cup given : StepKind(c)

LoopSound ==
  mode = "loopSearch" =>
    \A c \in Held, e \in Transitions(given) : HoldsAt(c, e[1], e[2])

\* Nobody resolves two clauses of getForLoop: what they yield is covered, or
\* of no use at the moments that a model of the clauses behind them passes.
PresetResolved ==
  mode = "loopSearch" =>
    \A v \in Alive(Transitions(background)), c \in preset, d \in preset :
      Complementary(c, d) =>
        \A r \in resolveMaximals(mode, c, d) :
          CoveredBy(mode, Held, r) \/ \E l \in NowPart(r) : TrueAt(l, v)

CInv ==
  MInv /\ OneAtATime /\ NoPreset /\ GivenForms /\ LoopForms /\ LoopSound /\ PresetResolved

\* Complementary clauses are so both ways, and so is their resolvent.
LEMMA ResolveSymmetric ==
  ASSUME NEW m, NEW c \in Clauses, NEW d \in Clauses, IsFiniteSet(c), IsFiniteSet(d),
         c # {}, d # {}, OneKind(c), OneKind(d), Complementary(c, d)
  PROVE  /\ Complementary(d, c) /\ c # d
         /\ resolveMaximals(m, c, d) = resolveMaximals(m, d, c)
<1>1. lead(c) \in Literals /\ lead(d) \in Literals
    BY LeadingLiteral DEF lead, Clauses
<1>2. Key(lead(c)) = Key(negate(lead(d)))
    BY DEF Complementary, lead
<1>3. /\ lead(c).prop = lead(d).prop /\ lead(c).neg = ~ lead(d).neg
      /\ lead(c).neg \in BOOLEAN /\ lead(d).neg \in BOOLEAN
    BY <1>1, <1>2 DEF Key, negate, Literals
<1>4. Key(lead(d)) = Key(negate(lead(c)))
    BY <1>3 DEF Key, negate
<1>5. c # d
    BY <1>3
<1>6. areCompatible(m, leadingAttribute(c), leadingAttribute(d))
         = areCompatible(m, leadingAttribute(d), leadingAttribute(c))
    BY DEF areCompatible
<1>7. Merged(c, d) = Merged(d, c)
    BY MergedSymmetric
<1> QED BY <1>4, <1>5, <1>6, <1>7 DEF Complementary, lead, resolveMaximals

\* When saturate returns without a contradiction, all that is held is active,
\* and every two active clauses but those of getForLoop have been resolved.
LEMMA Leaves ==
  ASSUME MInv, OneAtATime, pc = "idle", passive = {}, ~ success
  PROVE  /\ Held = LitsOf(active) /\ Proper(Held)
         /\ \A c, d \in Held :
              Complementary(c, d) =>
                \A r \in resolveMaximals(mode, c, d) :
                  {c, d} \subseteq preset \/ CoveredBy(mode, Held, r)
<1>1. TypeOK /\ Shape /\ ResolventsKept /\ AllFinite
    BY DEF MInv, IInv
<1>2. todo = {} /\ kept = {} /\ working = {} /\ passive = {}
    BY <1>1 DEF Shape
<1>3. Held = LitsOf(active)
    BY <1>2 DEF Held, LitsOf
<1>4. Proper(Held)
    <2>1. IsFiniteSet(LitsOf(active))
        <3> DEFINE litsOf == [e \in active |-> e.lits]
        <3>1. litsOf \in Surjection(active, LitsOf(active))
            BY DEF Surjection, LitsOf
        <3> HIDE DEF litsOf
        <3> QED BY <1>1, <3>1, FS_Surjection DEF TypeOK
    <2>2. Held \subseteq Clauses
        BY <1>1, HeldType DEF Held
    <2> QED BY <1>1, <1>3, <2>1, <2>2 DEF Proper, Shape, AllFinite
<1>5. ASSUME NEW c \in Held, NEW d \in Held, Complementary(c, d),
             NEW r \in resolveMaximals(mode, c, d), ~ ({c, d} \subseteq preset)
      PROVE  CoveredBy(mode, Held, r)
    <2>1. PICK e \in active : c = e.lits
        BY <1>3 DEF LitsOf
    <2>2. PICK f \in active : d = f.lits
        BY <1>3 DEF LitsOf
    <2>3. /\ c \in Clauses /\ IsFiniteSet(c) /\ c # {} /\ OneKind(c)
          /\ d \in Clauses /\ IsFiniteSet(d) /\ d # {} /\ OneKind(d)
        BY <1>4 DEF Proper
    <2>4. Complementary(d, c) /\ c # d /\ r \in resolveMaximals(mode, d, c)
        BY <1>5, <2>3, ResolveSymmetric
    <2>5. e.at \in Nat /\ f.at \in Nat
        BY <1>1 DEF TypeOK, Entries
    <2>6. e.at # f.at
        BY <2>1, <2>2, <2>4 DEF OneAtATime
    <2>7. CASE e.at < f.at
        BY <1>1, <1>5, <2>1, <2>2, <2>7 DEF ResolventsKept
    <2>8. CASE f.at < e.at
        BY <1>1, <1>5, <2>1, <2>2, <2>4, <2>8 DEF ResolventsKept
    <2> QED BY <2>5, <2>6, <2>7, <2>8
<1> QED BY <1>3, <1>4, <1>5

\* The verdict of saturate in normal mode.
LEMMA VerdictRight ==
  ASSUME CInv
  PROVE  Verdict
<1> SUFFICES ASSUME Returned, mode = "normal" PROVE success <=> ~ Satisfiable(given)
    BY DEF Verdict
<1>1. MInv /\ OneAtATime /\ NoPreset /\ GivenForms
    BY DEF CInv
<1>2. CASE success
    <2>1. {} \in Held
        BY <1>1, <1>2 DEF MInv, Refuted, Held
    <2>2. Entails(given, {})
        BY <1>1, <2>1 DEF MInv, Sound
    <2> QED BY <1>2, <2>2 DEF Entails, Satisfiable
<1>3. CASE ~ success
    <2>1. pc = "idle" /\ passive = {}
        BY <1>3 DEF Returned
    <2>2. Proper(Held) /\ Resolved("normal", Held)
        BY <1>1, <1>3, <2>1, Leaves DEF Resolved, NoPreset
    <2>3. Satisfiable(Held)
        BY <2>2, SaturatedModel
    <2>4. given \in SUBSET Clauses /\ \A d \in given : OneKind(d) /\ d # {} /\ CoveredBy("normal", Held, d)
        BY <1>1 DEF MInv, IInv, TypeOK, NothingLost, GivenForms
    <2>5. Starts(Held) \subseteq Starts(given)
        BY <2>2, <2>4, CoveringModels DEF Modes
    <2> QED BY <1>3, <2>3, <2>5 DEF Satisfiable
<1> QED BY <1>2, <1>3

\* The step that establishes OneAtATime.
LEMMA OneAtATimeNext ==
  ASSUME IInv, OneAtATime, [Next]_vars
  PROVE  OneAtATime'
<1>1. TypeOK /\ Shape
    BY DEF IInv
<1>2. CASE active' = active
    BY <1>2 DEF OneAtATime
<1>3. ASSUME NEW c \in passive, Activate(c)
      PROVE  OneAtATime'
    <2> DEFINE new == [id |-> c.id, lits |-> c.lits, at |-> clock]
    <2>1. active' \subseteq active \cup {new}
        BY <1>3 DEF Activate
    <2>2. new.at = clock
        OBVIOUS
    <2>3. \A e \in active : e.at < clock /\ e.at \in Nat /\ clock \in Nat
        BY <1>1 DEF Shape, TypeOK, Entries
    <2> HIDE DEF new
    <2> QED BY <2>1, <2>2, <2>3 DEF OneAtATime
<1>4. CASE GetForLoop
    <2>1. active' = {e \in active : IsStep(e)} \cup {stepForm(e) : e \in universals}
        BY <1>4 DEF GetForLoop, getForLoop
    <2>2. \A e : stepForm(e).at = e.at
        BY DEF stepForm
    <2>3. \A e \in universals : e \in active /\ ~ IsStep(e)
        BY DEF universals, IsUniversal, IsStep, areEqual
    <2> QED BY <2>1, <2>2, <2>3 DEF OneAtATime
<1>5. active' = active \/ GetForLoop \/ \E c \in passive : Activate(c)
    BY DEF Next, Push, Saturate, Step, SelectRedundant, Simplify, Insert, SimplifyByFS, EndFSR,
           EndIteration, EndSaturate, searchVars, vars
<1> QED BY <1>2, <1>3, <1>4, <1>5

\* What is given is of one kind and says something.
LEMMA GivenNext ==
  ASSUME MInv, GivenForms, [Next]_vars
  PROVE  GivenForms' /\ Held' \subseteq Clauses /\ given' \subseteq Clauses
<1>1. IInv /\ TypeOK' /\ Shape'
    BY TypeNext, ShapeNext DEF MInv, IInv
<1>2. Held' \subseteq Clauses /\ given' \subseteq Clauses
    BY <1>1 DEF TypeOK, Held, LitsOf, Entries, Indexed
<1>3. ASSUME NEW lits \in Inputs \cup Candidates, Push(lits)
      PROVE  GivenForms'
    <2>1. OneKind(lits) /\ lits # {}
        BY SaturationAssumption DEF OneKind, AttributesOf, NextPart
    <2>2. given' \subseteq given \cup {lits}
        BY <1>3 DEF Push
    <2> QED BY <2>1, <2>2 DEF GivenForms
<1>4. CASE GetForLoop
    <2>1. given' = LitsOf(active')
        BY <1>4 DEF GetForLoop
    <2> QED BY <1>1, <1>2, <2>1 DEF GivenForms, Shape, Held
<1>5. CASE given' = given
    BY <1>2, <1>5 DEF GivenForms
<1>6. given' = given \/ GetForLoop \/ \E lits \in Inputs \cup Candidates : Push(lits)
    BY StepFrame DEF Next, Saturate, vars, callerVars
<1> QED BY <1>2, <1>3, <1>4, <1>5, <1>6

\* Resolving clauses of a loop search gives clauses of a loop search, which
\* hold where both hold.
LEMMA LoopResolve ==
  ASSUME NEW c \in Clauses, NEW d \in Clauses, IsFiniteSet(c), IsFiniteSet(d),
         c # {}, d # {}, StepKind(c), StepKind(d), Complementary(c, d),
         areCompatible("loopSearch", leadingAttribute(c), leadingAttribute(d))
  PROVE  /\ \A v, w : HoldsAt(c, v, w) /\ HoldsAt(d, v, w) => HoldsAt(Merged(c, d), v, w)
         /\ StepKind(Merged(c, d))
         /\ leadingAttribute(c) = "step_next" /\ leadingAttribute(d) = "step_next"
         /\ Merged(c, d) = (c \ {lead(c)}) \cup (d \ {lead(d)})
<1>1. OneKind(c) /\ OneKind(d)
    BY DEF OneKind, AttributesOf, StepKind
<1>2. leadingAttribute(c) \in {"step_now", "step_next"} /\ leadingAttribute(d) \in {"step_now", "step_next"}
    BY <1>1, LeadingKind DEF StepKind, Attributes
<1>3. leadingAttribute(c) = "step_next" /\ leadingAttribute(d) = "step_next"
    BY <1>2 DEF areCompatible
<1>4. \A k \in c \cup d : setAttribute(k, transform("step_next", "step_next", k.attr)) = k
    <2> SUFFICES ASSUME NEW k \in c \cup d
                 PROVE  setAttribute(k, transform("step_next", "step_next", k.attr)) = k
        OBVIOUS
    <2>1. k \in Literals /\ k.attr \in {"step_now", "step_next"}
        BY DEF Clauses, StepKind
    <2>2. transform("step_next", "step_next", k.attr) = k.attr
        BY <2>1 DEF transform
    <2> QED BY <2>1, <2>2 DEF setAttribute, Literals
<1>5. Merged(c, d) = (c \ {lead(c)}) \cup (d \ {lead(d)})
    <2>1. Merged(c, d) = {setAttribute(k, transform("step_next", "step_next", k.attr)) : k \in c \ {lead(c)}}
                     \cup {setAttribute(k, transform("step_next", "step_next", k.attr)) : k \in d \ {lead(d)}}
        BY <1>3 DEF Merged, Transformed, lead
    <2> QED BY <1>4, <2>1
<1>6. StepKind(Merged(c, d))
    BY <1>5 DEF StepKind
<1>7. ASSUME NEW v, NEW w, HoldsAt(c, v, w), HoldsAt(d, v, w)
      PROVE  HoldsAt(Merged(c, d), v, w)
    <2>1. PICK k \in c : HoldsLit(k, v, w)
        BY <1>7 DEF HoldsAt
    <2>2. PICK l \in d : HoldsLit(l, v, w)
        BY <1>7 DEF HoldsAt
    <2>3. ~ (k = lead(c) /\ l = lead(d))
        <3>1. lead(c) \in c /\ lead(d) \in d /\ lead(c).attr = "step_next" /\ lead(d).attr = "step_next"
            BY <1>1, <1>3, LeadingLiteral DEF lead
        <3>2. ~ (TrueAt(lead(c), w) /\ TrueAt(lead(d), w))
            BY <3>1, ResolvedUpon DEF lead
        <3> QED BY <2>1, <2>2, <3>1, <3>2, HoldsAtMoment DEF moment
    <2> QED BY <1>5, <2>1, <2>2, <2>3 DEF HoldsAt
<1> QED BY <1>3, <1>5, <1>6, <1>7

\* Among clauses of a loop search only parts cover.
LEMMA LoopCovers ==
  ASSUME NEW c, NEW d, StepKind(c), Covers("loopSearch", c, d)
  PROVE  c \subseteq d
BY DEF Covers, StepKind, EveryMoment, areEqual

\* FSR on step clauses, at one pair of moments.
LEMMA CutHolds ==
  ASSUME NEW c \in Clauses, NEW l \in c, NEW v, NEW w,
         HoldsAt(c, v, w), HoldsAt((c \ {l}) \cup {negate(l)}, v, w)
  PROVE  HoldsAt(c \ {l}, v, w)
<1>1. l \in Literals /\ negate(l) \in Literals /\ negate(l).attr = l.attr
    BY DEF Clauses, Literals, negate
<1>2. ~ (HoldsLit(l, v, w) /\ HoldsLit(negate(l), v, w))
    <2> SUFFICES ASSUME HoldsLit(l, v, w), HoldsLit(negate(l), v, w) PROVE FALSE
        OBVIOUS
    <2> DEFINE m == moment(l.attr, v, w)
    <2>1. TrueAt(l, m) /\ TrueAt(negate(l), m)
        BY <1>1, HoldsAtMoment
    <2> HIDE DEF m
    <2> QED BY <1>1, <2>1, NegatedTrue
<1> QED BY <1>2 DEF HoldsAt

\* A step of saturate in loop-search mode concludes nothing that fails at a
\* pair of moments where all it holds does not.
LEMMA LoopStepHolds ==
  ASSUME TypeOK, Shape, AllFinite, mode = "loopSearch",
         \A c \in Held : StepKind(c), Step
  PROVE  /\ \A c \in Held' : StepKind(c)
         /\ \A v, w : (\A c \in Held : HoldsAt(c, v, w)) => \A c \in Held' : HoldsAt(c, v, w)
<1>1. Held \subseteq Clauses /\ \A c \in Held : OneKind(c) /\ IsFiniteSet(c)
    BY HeldType DEF Shape, Held, AllFinite
<1>2. ASSUME NEW d \in Held', d \notin Held
      PROVE  StepKind(d) /\ \A v, w : (\A c \in Held : HoldsAt(c, v, w)) => HoldsAt(d, v, w)
    <2>1. CASE Resolvent(d)
        <3>1. PICK e, f \in Held : /\ e # {} /\ f # {} /\ Complementary(e, f)
                                   /\ d \in resolveMaximals(mode, e, f)
            BY <2>1 DEF Resolvent
        <3>2. d = Merged(e, f) /\ areCompatible("loopSearch", leadingAttribute(e), leadingAttribute(f))
            BY <3>1 DEF resolveMaximals
        <3>3. StepKind(e) /\ StepKind(f)
            OBVIOUS
        <3> QED BY <1>1, <3>1, <3>2, <3>3, LoopResolve
    <2>2. CASE Shortened(d)
        <3>1. PICK c, e \in Held : \E l \in c :
                /\ d = c \ {l} /\ e # {}
                /\ Covers(mode, e, (c \ {l}) \cup {negate(l)})
            BY <2>2 DEF Shortened
        <3>2. PICK l \in c : /\ d = c \ {l} /\ e # {}
                             /\ Covers(mode, e, (c \ {l}) \cup {negate(l)})
            BY <3>1
        <3>3. ~ EveryMoment(mode, e)
            BY <3>2 DEF EveryMoment, StepKind, areEqual
        <3>4. e \subseteq (c \ {l}) \cup {negate(l)}
            BY <3>2, <3>3 DEF Covers
        <3>5. ASSUME NEW v, NEW w, \A x \in Held : HoldsAt(x, v, w)
              PROVE  HoldsAt(d, v, w)
            <4>1. HoldsAt((c \ {l}) \cup {negate(l)}, v, w)
                BY <3>4, <3>5 DEF HoldsAt
            <4> QED BY <1>1, <3>2, <3>5, <4>1, CutHolds
        <3> QED BY <3>2, <3>5 DEF StepKind
    <2> QED BY <1>2, <2>1, <2>2, NewClauses
<1> QED BY <1>2

\* A step of saturate keeps the forms of a loop search, and what they say.
LEMMA LoopStep ==
  ASSUME MInv, LoopForms, LoopSound, Step
  PROVE  LoopForms' /\ LoopSound'
<1>1. TypeOK /\ Shape /\ AllFinite /\ mode' = mode /\ given' = given /\ preset' = preset
    BY StepFrame DEF MInv, IInv
<1>2. CASE mode = "normal"
    BY <1>1, <1>2 DEF LoopForms, LoopSound
<1>3. CASE mode = "loopSearch"
    <2>1. preset \subseteq given /\ \A c \in Held \cup given : StepKind(c)
        BY <1>3 DEF LoopForms
    <2>2. /\ \A c \in Held' : StepKind(c)
          /\ \A v, w : (\A c \in Held : HoldsAt(c, v, w)) => \A c \in Held' : HoldsAt(c, v, w)
        BY <1>1, <1>3, <2>1, LoopStepHolds
    <2>3. \A c \in Held', e \in Transitions(given) : HoldsAt(c, e[1], e[2])
        BY <1>3, <2>2 DEF LoopSound
    <2> QED BY <1>1, <2>1, <2>2, <2>3 DEF LoopForms, LoopSound
<1> QED BY <1>1, <1>2, <1>3 DEF TypeOK, Modes

\* What getForLoop makes of an active clause.
Copied(c, d) ==
  \/ leadingAttribute(c) = "step_next" /\ d = c
  \/ leadingAttribute(c) \in {"universal", "step_now"} /\ d = Retag(c, "step_next")

\* It copies every active clause that is not initial, and nothing else.
LEMMA CopiesMade ==
  ASSUME TypeOK, Shape
  PROVE  /\ \A x \in LitsOf(getForLoop) : \E c \in LitsOf(active) : Copied(c, x)
         /\ \A c \in LitsOf(active) :
              leadingAttribute(c) = "initial" \/ \E x \in LitsOf(getForLoop) : Copied(c, x)
<1>1. getForLoop = {e \in active : IsStep(e)} \cup {stepForm(e) : e \in universals}
    BY DEF getForLoop
<1>2. \A e \in active : e.lits \in Clauses /\ OneKind(e.lits) /\ e.lits # {} /\ e.lits \in LitsOf(active)
    BY DEF TypeOK, Entries, Shape, Held, LitsOf
<1>3. \A e \in active : IsStep(e) <=> leadingAttribute(e.lits) = "step_next"
    BY DEF IsStep
<1>4. \A e \in active : IsUniversal(e) <=> leadingAttribute(e.lits) \in {"universal", "step_now"}
    BY DEF IsUniversal, areEqual
<1>5. \A e \in universals : stepForm(e).lits = Retag(e.lits, "step_next")
    BY DEF stepForm
<1>6. ASSUME NEW x \in LitsOf(getForLoop)
      PROVE  \E c \in LitsOf(active) : Copied(c, x)
    <2>1. PICK f \in getForLoop : x = f.lits
        BY <1>6 DEF LitsOf
    <2>2. CASE f \in active /\ IsStep(f)
        BY <1>2, <1>3, <2>1, <2>2 DEF Copied
    <2>3. CASE \E e \in universals : f = stepForm(e)
        BY <1>2, <1>4, <1>5, <2>1, <2>3 DEF Copied, universals
    <2> QED BY <1>1, <2>1, <2>2, <2>3
<1>7. ASSUME NEW c \in LitsOf(active), leadingAttribute(c) # "initial"
      PROVE  \E x \in LitsOf(getForLoop) : Copied(c, x)
    <2>1. PICK e \in active : c = e.lits
        BY DEF LitsOf
    <2>2. CASE leadingAttribute(c) = "step_next"
        <3>1. e \in getForLoop
            BY <1>1, <1>3, <2>1, <2>2
        <3> QED BY <2>1, <2>2, <3>1 DEF Copied, LitsOf
    <2>3. CASE leadingAttribute(c) \in {"universal", "step_now"}
        <3>1. e \in universals
            BY <1>4, <2>1, <2>3 DEF universals
        <3>2. stepForm(e) \in getForLoop /\ stepForm(e).lits = Retag(c, "step_next")
            BY <1>1, <1>5, <2>1, <3>1
        <3>3. Retag(c, "step_next") \in LitsOf(getForLoop)
            BY <3>2 DEF LitsOf
        <3> QED BY <2>3, <3>3 DEF Copied
    <2> QED BY <1>2, <1>7, <2>1, <2>2, <2>3, LeadingKind DEF Attributes
<1> QED BY <1>6, <1>7

\* A loop search starts from those copies.
LEMMA CopiedClauses ==
  ASSUME TypeOK, Shape, GetForLoop
  PROVE  /\ Held' = preset' /\ given' = preset'
         /\ \A d \in preset' : \E c \in LitsOf(active) : Copied(c, d)
         /\ \A c \in LitsOf(active) :
              leadingAttribute(c) = "initial" \/ \E d \in preset' : Copied(c, d)
<1>1. /\ active' = getForLoop /\ given' = LitsOf(active') /\ preset' = given'
      /\ passive' = {} /\ pc = "idle" /\ UNCHANGED <<todo, kept, working>>
    BY DEF GetForLoop
<1>2. todo' = {} /\ kept' = {} /\ working' = {}
    BY <1>1 DEF Shape
<1>3. Held' = LitsOf(active')
    BY <1>1, <1>2 DEF Held, LitsOf
<1>4. preset' = LitsOf(getForLoop)
    BY <1>1
<1> QED BY <1>1, <1>3, <1>4, CopiesMade

\* A copy is a clause of a loop search, led by the same key.
LEMMA CopyParts ==
  ASSUME NEW c \in Clauses, OneKind(c), c # {}, IsFiniteSet(c), isCorrect("normal", c),
         NEW d, Copied(c, d)
  PROVE  /\ d \in Clauses /\ OneKind(d) /\ d # {} /\ IsFiniteSet(d) /\ StepKind(d)
         /\ leadingAttribute(d) = "step_next" /\ ~ IsInitial(d) /\ leadingAttribute(c) # "initial"
         /\ Key(lead(d)) = Key(lead(c))
<1>1. CASE leadingAttribute(c) = "step_next" /\ d = c
    <2>1. StepKind(c)
        BY <1>1, LeadingKind DEF StepKind
    <2>2. ~ IsInitial(c)
        BY <1>1, KindOfLead
    <2> QED BY <1>1, <2>1, <2>2
<1>2. CASE leadingAttribute(c) \in {"universal", "step_now"} /\ d = Retag(c, "step_next")
    <2>0. \A l \in c : /\ setAttribute(l, "step_next").attr = "step_next"
                      /\ Key(setAttribute(l, "step_next")) = Key(l)
        BY DEF setAttribute, Key
    <2>1. /\ d \in Clauses /\ OneKind(d) /\ IsFiniteSet(d) /\ d # {} /\ NextPart(d) = d
          /\ \A l \in d : l.attr = "step_next"
        <3>1. d \in Clauses /\ OneKind(d) /\ IsFiniteSet(d)
            BY <1>2, RetagType, RetagOneKind, RetagFinite DEF Attributes
        <3>2. d # {} /\ \A l \in d : l.attr = "step_next"
            BY <1>2, <2>0 DEF Retag
        <3> QED BY <3>1, <3>2 DEF NextPart
    <2>2. leadingAttribute(d) = "step_next"
        BY <2>1 DEF leadingAttribute
    <2>3. StepKind(d) /\ ~ IsInitial(d)
        BY <2>1, <2>2, KindOfLead DEF StepKind
    <2>4. Front(d) = d
        BY <2>1, <2>2 DEF Front
    <2>5. Keys(d) = Keys(c)
        BY <1>2, <2>0 DEF Keys, Retag
    <2>6. lead(c) \in c /\ \A k \in c : ~ LiteralLess(lead(c), k)
        BY HasFront DEF lead
    <2>7. \A l \in c : l \in Literals /\ l.attr = leadingAttribute(c) /\ l.prop \in Nat /\ l.neg \in BOOLEAN
        BY <1>2, LeadingKind, PropAssumption DEF Clauses, Literals
    <2>8. ASSUME NEW l \in c, Key(l) # Key(lead(c))
          PROVE  l.prop < lead(c).prop
        <3>1. l.prop # lead(c).prop
            <4> SUFFICES ASSUME l.prop = lead(c).prop PROVE FALSE
                OBVIOUS
            <4>1. l.neg # lead(c).neg
                BY <2>8 DEF Key
            <4>2. areEqual("normal", l.attr, lead(c).attr)
                BY <2>6, <2>7 DEF areEqual
            <4> QED BY <2>6, <4>1, <4>2 DEF isCorrect
        <3>2. ~ (lead(c).prop < l.prop)
            BY <1>2, <2>6, <2>7 DEF LiteralLess
        <3> QED BY <2>6, <2>7, <3>1, <3>2
    <2>9. Leads(Key(lead(c)), Keys(Front(d)))
        <3>1. Key(lead(c)) \in Keys(c)
            BY <2>6 DEF Keys
        <3>2. \A l : Key(l)[1] = l.prop
            BY DEF Key
        <3>3. \A j \in Keys(c) \ {Key(lead(c))} : j[1] < Key(lead(c))[1]
            BY <2>8, <3>2 DEF Keys
        <3> QED BY <2>4, <2>5, <3>1, <3>3 DEF Leads
    <2>10. Key(lead(d)) = Key(lead(c))
        BY <2>1, <2>9, FrontLeads
    <2> QED BY <1>2, <2>1, <2>2, <2>3, <2>10
<1> QED BY <1>1, <1>2 DEF Copied

\* What resolution leaves of a universal clause and of its copy.
LEMMA CopyRest ==
  ASSUME NEW c \in Clauses, OneKind(c), c # {}, IsFiniteSet(c), isCorrect("normal", c),
         leadingAttribute(c) \in {"universal", "step_now"}
  PROVE  LET d == Retag(c, "step_next")
         IN  d \ {lead(d)} = Retag(c \ {lead(c)}, "step_next")
<1> DEFINE d == Retag(c, "step_next")
           move(l) == setAttribute(l, "step_next")
<1>1. Copied(c, d)
    BY DEF Copied
<1>2. lead(c) \in c /\ \A l \in c : l \in Literals /\ l.attr = leadingAttribute(c)
    BY HasFront, LeadingKind DEF lead, Clauses
<1>3. d \in Clauses /\ Key(lead(d)) = Key(lead(c)) /\ lead(d) \in d
    BY <1>1, CopyParts, HasFront DEF lead
<1>4. \A l \in c : move(l) \in Literals /\ move(l).attr = "step_next" /\ Key(move(l)) = Key(l)
    BY <1>2, RetagLiteral DEF Attributes
<1>5. \A l \in d : l \in Literals /\ l.attr = "step_next"
    BY <1>4 DEF Retag
<1>6. ASSUME NEW k \in Literals, NEW l \in Literals, k.attr = l.attr, Key(k) = Key(l)
      PROVE  k = l
    BY <1>6, LiteralEq DEF Key
<1> HIDE DEF d, move
<1>7. \A l \in c : move(l) = lead(d) <=> l = lead(c)
    BY <1>2, <1>3, <1>4, <1>5, <1>6
<1>8. d = {move(l) : l \in c} /\ Retag(c \ {lead(c)}, "step_next") = {move(l) : l \in c \ {lead(c)}}
    BY DEF d, move, Retag
<1>9. d \ {lead(d)} = Retag(c \ {lead(c)}, "step_next")
    BY <1>7, <1>8
<1> QED BY <1>9 DEF d

\* The resolvent of a step clause and a universal one, and of two universal
\* ones.
LEMMA MergedOver ==
  ASSUME NEW c \in Clauses, NEW d \in Clauses, OneKind(c), OneKind(d), c # {}, d # {},
         leadingAttribute(d) \in {"universal", "step_now"}
  PROVE  /\ leadingAttribute(c) = "step_next" =>
              Merged(c, d) = (c \ {lead(c)}) \cup Retag(d \ {lead(d)}, "step_next")
         /\ leadingAttribute(c) \in {"universal", "step_now"} =>
              Merged(c, d) = Retag(c \ {lead(c)}, "universal") \cup Retag(d \ {lead(d)}, "universal")
<1> DEFINE a == leadingAttribute(c)
           b == leadingAttribute(d)
<1>1. Merged(c, d) = {setAttribute(k, transform(a, b, k.attr)) : k \in c \ {lead(c)}}
                 \cup {setAttribute(k, transform(b, a, k.attr)) : k \in d \ {lead(d)}}
    BY DEF Merged, Transformed, lead
<1>2. \A k \in d : k.attr = b
    BY LeadingKind
<1>3. ASSUME a = "step_next"
      PROVE  Merged(c, d) = (c \ {lead(c)}) \cup Retag(d \ {lead(d)}, "step_next")
    <2>1. \A k \in c : setAttribute(k, transform(a, b, k.attr)) = k
        <3> SUFFICES ASSUME NEW k \in c PROVE setAttribute(k, transform(a, b, k.attr)) = k
            OBVIOUS
        <3>1. k \in Literals /\ k.attr \in {"step_now", "step_next"}
            BY <1>3, LeadingKind DEF Clauses
        <3>2. transform(a, b, k.attr) = k.attr
            BY <1>3, <3>1 DEF transform
        <3> QED BY <3>1, <3>2 DEF setAttribute, Literals
    <2>2. transform(b, a, b) = "step_next"
        BY <1>3 DEF transform
    <2> HIDE DEF a, b
    <2> QED BY <1>1, <1>2, <2>1, <2>2 DEF Retag
<1>4. ASSUME a \in {"universal", "step_now"}
      PROVE  Merged(c, d) = Retag(c \ {lead(c)}, "universal") \cup Retag(d \ {lead(d)}, "universal")
    <2>1. \A x : transform(a, b, x) = "universal" /\ transform(b, a, x) = "universal"
        BY <1>4 DEF transform
    <2> HIDE DEF a, b
    <2> QED BY <1>1, <2>1 DEF Retag
<1> QED BY <1>3, <1>4

\* The resolvent of two copies is that of the clauses they are copies of, or
\* its copy.
LEMMA CopiesResolve ==
  ASSUME NEW c \in Clauses, NEW d \in Clauses, OneKind(c), OneKind(d), c # {}, d # {},
         IsFiniteSet(c), IsFiniteSet(d), isCorrect("normal", c), isCorrect("normal", d),
         NEW x, NEW y, Copied(c, x), Copied(d, y), Complementary(x, y),
         NEW r \in resolveMaximals("loopSearch", x, y)
  PROVE  /\ Complementary(c, d) /\ StepKind(r) /\ r \in Clauses
         /\ \E s \in resolveMaximals("normal", c, d) :
              s \in Clauses /\ (s = r \/ ((\A l \in s : l.attr = "universal") /\ r = Retag(s, "step_next")))
<1>1. /\ x \in Clauses /\ OneKind(x) /\ x # {} /\ IsFiniteSet(x) /\ StepKind(x)
      /\ leadingAttribute(x) = "step_next" /\ leadingAttribute(c) # "initial"
      /\ Key(lead(x)) = Key(lead(c))
      /\ y \in Clauses /\ OneKind(y) /\ y # {} /\ IsFiniteSet(y) /\ StepKind(y)
      /\ leadingAttribute(y) = "step_next" /\ leadingAttribute(d) # "initial"
      /\ Key(lead(y)) = Key(lead(d))
    BY CopyParts
<1>2. Complementary(c, d)
    BY <1>1 DEF Complementary, lead, Key, negate
<1>3. /\ r = Merged(x, y) /\ isCorrect("loopSearch", r)
      /\ areCompatible("loopSearch", leadingAttribute(x), leadingAttribute(y))
    BY DEF resolveMaximals
<1>4. StepKind(r) /\ r = (x \ {lead(x)}) \cup (y \ {lead(y)}) /\ r \in Clauses
    BY <1>1, <1>3, LoopResolve DEF Clauses
<1> DEFINE s == Merged(c, d)
<1>5. areCompatible("normal", leadingAttribute(c), leadingAttribute(d))
    BY <1>1 DEF areCompatible
<1>6. s \in Clauses
    BY <1>5, MergedOneKind DEF Modes
<1>7. OneKind(r)
    BY <1>4 DEF StepKind, OneKind, AttributesOf
<1>8. isCorrect("normal", r)
    BY <1>3, <1>4, <1>7, CorrectInModes DEF Modes
<1>9. s = r \/ ((\A l \in s : l.attr = "universal") /\ r = Retag(s, "step_next"))
    <2>1. CASE leadingAttribute(c) = "step_next" /\ leadingAttribute(d) = "step_next"
        BY <1>3, <2>1 DEF Copied
    <2>2. CASE leadingAttribute(c) = "step_next" /\ leadingAttribute(d) # "step_next"
        <3>1. x = c /\ y = Retag(d, "step_next") /\ leadingAttribute(d) \in {"universal", "step_now"}
            BY <2>2 DEF Copied
        <3>2. y \ {lead(y)} = Retag(d \ {lead(d)}, "step_next")
            BY <3>1, CopyRest
        <3>3. s = (c \ {lead(c)}) \cup Retag(d \ {lead(d)}, "step_next")
            BY <2>2, <3>1, MergedOver
        <3> QED BY <1>4, <3>1, <3>2, <3>3
    <2>3. CASE leadingAttribute(c) # "step_next" /\ leadingAttribute(d) = "step_next"
        <3>1. y = d /\ x = Retag(c, "step_next") /\ leadingAttribute(c) \in {"universal", "step_now"}
            BY <2>3 DEF Copied
        <3>2. x \ {lead(x)} = Retag(c \ {lead(c)}, "step_next")
            BY <3>1, CopyRest
        <3>3. Merged(d, c) = (d \ {lead(d)}) \cup Retag(c \ {lead(c)}, "step_next")
            BY <2>3, <3>1, MergedOver
        <3> QED BY <1>4, <3>1, <3>2, <3>3, MergedSymmetric
    <2>4. CASE leadingAttribute(c) # "step_next" /\ leadingAttribute(d) # "step_next"
        <3>1. /\ x = Retag(c, "step_next") /\ leadingAttribute(c) \in {"universal", "step_now"}
              /\ y = Retag(d, "step_next") /\ leadingAttribute(d) \in {"universal", "step_now"}
            BY <2>4 DEF Copied
        <3> DEFINE t == (c \ {lead(c)}) \cup (d \ {lead(d)})
        <3>2. r = Retag(t, "step_next")
            <4>1. /\ x \ {lead(x)} = Retag(c \ {lead(c)}, "step_next")
                  /\ y \ {lead(y)} = Retag(d \ {lead(d)}, "step_next")
                BY <3>1, CopyRest
            <4> QED BY <1>4, <4>1 DEF Retag
        <3>3. s = Retag(t, "universal")
            <4>1. s = Retag(c \ {lead(c)}, "universal") \cup Retag(d \ {lead(d)}, "universal")
                BY <3>1, MergedOver
            <4> QED BY <4>1 DEF Retag
        <3>4. t \in Clauses
            BY DEF Clauses
        <3> HIDE DEF t, s
        <3>5. r = Retag(s, "step_next")
            BY <3>2, <3>3, <3>4, RetagTwice DEF Attributes
        <3>6. \A l \in s : l.attr = "universal"
            BY <3>3 DEF Retag, setAttribute
        <3> QED BY <3>5, <3>6
    <2> QED BY <2>1, <2>2, <2>3, <2>4
<1>10. isCorrect("normal", s)
    <2>1. CASE s = r
        BY <1>8, <2>1
    <2>2. CASE r = Retag(s, "step_next")
        <3> SUFFICES ASSUME NEW k \in s, NEW l \in s, k.prop = l.prop, k.neg # l.neg PROVE FALSE
            BY DEF isCorrect
        <3> DEFINE i == setAttribute(k, "step_next")
                   j == setAttribute(l, "step_next")
        <3>1. i \in r /\ j \in r
            BY <2>2 DEF Retag
        <3>2. i.prop = j.prop /\ i.neg # j.neg /\ i.attr = j.attr
            BY DEF setAttribute
        <3> QED BY <1>8, <3>1, <3>2 DEF isCorrect, areEqual
    <2> QED BY <1>9, <2>1, <2>2
<1>11. s \in resolveMaximals("normal", c, d)
    BY <1>5, <1>10 DEF resolveMaximals
<1> QED BY <1>2, <1>4, <1>6, <1>9, <1>11

\* What two copies of clauses of a saturated set yield is covered by a copy,
\* or of no use at a moment where what is said of the present holds.
LEMMA CopiesCovered ==
  ASSUME NEW S, Proper(S), \A c \in S : isCorrect("normal", c), Resolved("normal", S),
         NEW R, \A x \in R : \E c \in S : Copied(c, x),
         \A c \in S : leadingAttribute(c) = "initial" \/ \E x \in R : Copied(c, x),
         NEW v, PresentHolds(S, v),
         NEW x \in R, NEW y \in R, Complementary(x, y),
         NEW r \in resolveMaximals("loopSearch", x, y)
  PROVE  CoveredBy("loopSearch", R, r) \/ \E l \in NowPart(r) : TrueAt(l, v)
<1>1. \A c \in S : c \in Clauses /\ OneKind(c) /\ c # {} /\ IsFiniteSet(c) /\ isCorrect("normal", c)
    BY DEF Proper
<1>2. PICK c \in S : Copied(c, x)
    OBVIOUS
<1>3. PICK d \in S : Copied(d, y)
    OBVIOUS
<1>4. /\ Complementary(c, d) /\ StepKind(r) /\ r \in Clauses
      /\ \E s \in resolveMaximals("normal", c, d) :
           s \in Clauses /\ (s = r \/ ((\A l \in s : l.attr = "universal") /\ r = Retag(s, "step_next")))
    BY <1>1, <1>2, <1>3, CopiesResolve
<1>5. PICK s \in resolveMaximals("normal", c, d) :
         s \in Clauses /\ (s = r \/ ((\A l \in s : l.attr = "universal") /\ r = Retag(s, "step_next")))
    BY <1>4
<1>6. PICK e \in S : Covers("normal", e, s)
    BY <1>4, <1>5 DEF Resolved, CoveredBy
<1>7. e \in Clauses /\ OneKind(e) /\ e # {} /\ \A l \in e : l \in Literals
    BY <1>1 DEF Clauses
<1>8. \A l \in s : l.attr \in {"universal", "step_now", "step_next"}
    BY <1>4, <1>5 DEF StepKind
<1>9. (\E l \in s : l.attr # "universal") => s = r
    BY <1>5
<1>10. CASE leadingAttribute(e) = "step_next"
    <2>1. PICK l \in e : l.attr = "step_next"
        BY <1>7, <1>10, KindOfLead DEF NextPart
    <2>2. ~ EveryMoment("normal", e)
        BY <2>1 DEF EveryMoment, areEqual
    <2>3. e \subseteq s
        BY <1>6, <2>2 DEF Covers
    <2>4. s = r
        BY <1>9, <2>1, <2>3
    <2>5. e \in R
        BY <1>10 DEF Copied
    <2> QED BY <2>3, <2>4, <2>5, CoversSubset DEF CoveredBy
<1>11. CASE leadingAttribute(e) = "initial"
    <2>1. PICK l \in e : l.attr = "initial"
        BY <1>7, <1>11, LeadingKind
    <2>2. ~ EveryMoment("normal", e)
        BY <2>1 DEF EveryMoment, areEqual
    <2> QED BY <1>6, <1>8, <2>1, <2>2 DEF Covers
<1>12. CASE leadingAttribute(e) \in {"universal", "step_now"}
    <2>1. Retag(e, "step_next") \in R
        BY <1>12 DEF Copied
    <2>2. \A l \in e : l.attr = leadingAttribute(e) /\ setAttribute(l, l.attr) = l
        BY <1>7, <1>12, LeadingKind DEF setAttribute, Literals
    <2>3. Retag(e, leadingAttribute(e)) = e
        BY <2>2 DEF Retag
    <2>4. leadingAttribute(e) \in Attributes
        BY <1>12 DEF Attributes
    <2>5. PICK a \in Attributes : Retag(e, a) \subseteq s
        BY <1>6, <2>3, <2>4 DEF Covers
    <2>6. PICK k \in e : TRUE
        BY <1>7
    <2>7. setAttribute(k, a) \in s /\ setAttribute(k, a).attr = a
        BY <2>5 DEF Retag, setAttribute
    <2>8. CASE a = "step_next"
        BY <1>9, <2>1, <2>5, <2>7, <2>8, CoversSubset DEF CoveredBy
    <2>9. CASE a = "universal"
        <3>1. s # r
            BY <1>4, <2>7, <2>9 DEF StepKind
        <3>2. Retag(e, "step_next") = Retag(Retag(e, a), "step_next")
            BY <1>7, RetagTwice DEF Attributes
        <3>3. Retag(e, "step_next") \subseteq r
            BY <1>5, <2>5, <3>1, <3>2 DEF Retag
        <3> QED BY <2>1, <3>3, CoversSubset DEF CoveredBy
    <2>10. CASE a = "step_now"
        <3>1. s = r
            BY <1>9, <2>7, <2>10
        <3>2. e \in Present(S)
            BY <1>7, <1>12, KindOfLead DEF Present
        <3>3. PICK l \in e : TrueAt(l, v)
            BY <3>2 DEF PresentHolds
        <3>4. setAttribute(l, a) \in NowPart(r)
            BY <2>5, <2>10, <3>1 DEF Retag, NowPart, setAttribute
        <3>5. TrueAt(setAttribute(l, a), v)
            BY <3>3 DEF TrueAt, setAttribute
        <3> QED BY <3>4, <3>5
    <2> QED BY <1>8, <2>7, <2>8, <2>9, <2>10 DEF Attributes
<1> QED BY <1>7, <1>10, <1>11, <1>12, LeadingKind DEF Attributes

\* getForLoop.
LEMMA LoopTurn ==
  ASSUME CInv, GetForLoop
  PROVE  LoopForms' /\ LoopSound' /\ PresetResolved'
<1> DEFINE S == Held
<1>1. MInv /\ IInv /\ TypeOK /\ Shape /\ OneAtATime /\ NoPreset /\ AllFinite /\ Correct
    BY DEF CInv, MInv, IInv
<1>2. /\ pc = "idle" /\ passive = {} /\ ~ success /\ mode = "normal"
      /\ mode' = "loopSearch" /\ background' = given
    BY DEF GetForLoop
<1>3. S = LitsOf(active) /\ Proper(S) /\ Resolved("normal", S)
    BY <1>1, <1>2, Leaves DEF Resolved, NoPreset
<1>4. /\ Held' = preset' /\ given' = preset'
      /\ \A d \in preset' : \E c \in S : Copied(c, d)
      /\ \A c \in S : leadingAttribute(c) = "initial" \/ \E d \in preset' : Copied(c, d)
    BY <1>1, <1>3, CopiedClauses
<1>5. \A c \in S : c \in Clauses /\ OneKind(c) /\ c # {} /\ IsFiniteSet(c) /\ isCorrect("normal", c)
    BY <1>1, <1>3 DEF Proper, Correct
<1>6. \A d \in preset' : StepKind(d) /\ d # {} /\ ~ IsInitial(d)
    BY <1>4, <1>5, CopyParts
<1>7. LoopForms'
    BY <1>4, <1>6 DEF LoopForms
<1>8. LoopSound'
    BY <1>4, <1>6 DEF LoopSound, Transitions
<1>9. PresetResolved'
    <2> SUFFICES ASSUME NEW v \in Alive(Transitions(given)), NEW x \in preset', NEW y \in preset',
                        Complementary(x, y), NEW r \in resolveMaximals("loopSearch", x, y)
                 PROVE  CoveredBy("loopSearch", preset', r) \/ \E l \in NowPart(r) : TrueAt(l, v)
        BY <1>2, <1>4 DEF PresetResolved
    <2>1. ASSUME NEW c \in Present(S)
          PROVE  \E l \in c : TrueAt(l, v)
        <3>1. c \in S /\ ~ IsInitial(c) /\ leadingAttribute(c) # "step_next"
            BY DEF Present
        <3>2. Entails(given, c) /\ c \in Clauses /\ c # {}
            BY <1>1, <1>5, <3>1 DEF MInv, Sound
        <3>3. NextPart(c) = {}
            BY <1>5, <3>1, KindOfLead
        <3> QED BY <3>1, <3>2, <3>3, TrueNow
    <2>2. PresentHolds(S, v)
        BY <2>1 DEF PresentHolds
    <2> HIDE DEF S
    <2> QED BY <1>3, <1>4, <1>5, <2>2, CopiesCovered
<1> QED BY <1>7, <1>8, <1>9

\* push_back.
LEMMA LoopPush ==
  ASSUME CInv, NEW lits \in Inputs \cup Candidates, Push(lits)
  PROVE  LoopForms' /\ LoopSound' /\ PresetResolved'
<1>1. /\ mode' = mode /\ preset' = preset /\ background' = background
      /\ Held \subseteq Held' /\ given \subseteq given'
      /\ mode = "loopSearch" => lits \in Candidates
    BY DEF Push, Held, LitsOf
<1>2. \/ Held' = Held /\ given' = given
      \/ Held' \subseteq Held \cup {lits} /\ given' = given \cup {lits}
    <2> DEFINE fresh == [id |-> nextId, lits |-> lits]
    <2>1. /\ UNCHANGED <<active, todo, kept, working>>
          /\ \/ UNCHANGED <<passive, given>>
             \/ passive' = passive \cup {fresh} /\ given' = given \cup {lits}
        BY DEF Push
    <2>2. fresh.lits = lits
        OBVIOUS
    <2> HIDE DEF fresh
    <2> QED BY <2>1, <2>2 DEF Held, LitsOf
<1>3. mode = "loopSearch" => StepKind(lits) /\ ~ IsInitial(lits)
    <2>1. lits \in Candidates => \A l \in lits : l.attr = "step_next"
        BY SaturationAssumption DEF NextPart
    <2> QED BY <1>1, <2>1 DEF StepKind, IsInitial, AttributesOf
<1>4. LoopForms'
    BY <1>1, <1>2, <1>3 DEF CInv, LoopForms
<1>5. LoopSound'
    <2> SUFFICES ASSUME mode = "loopSearch", NEW c \in Held', NEW e \in Transitions(given')
                 PROVE  HoldsAt(c, e[1], e[2])
        BY <1>1 DEF LoopSound
    <2>1. e \in Transitions(given)
        BY <1>1 DEF Transitions
    <2>2. c \in Held => HoldsAt(c, e[1], e[2])
        BY <2>1 DEF CInv, LoopSound
    <2>3. c \notin Held => c = lits /\ lits \in given'
        BY <1>2
    <2> QED BY <1>3, <2>2, <2>3 DEF Transitions
<1>6. PresetResolved'
    BY <1>1 DEF CInv, PresetResolved, CoveredBy
<1> QED BY <1>4, <1>5, <1>6

\* A step of saturate keeps what is covered so.
LEMMA PresetStep ==
  ASSUME CInv, Step
  PROVE  PresetResolved'
<1>1. /\ mode' = mode /\ preset' = preset /\ background' = background
      /\ TypeOK /\ Shape /\ LoopForms /\ GivenForms /\ PresetResolved
    BY StepFrame DEF CInv, MInv, IInv
<1> SUFFICES ASSUME mode = "loopSearch", NEW v \in Alive(Transitions(background)),
                    NEW c \in preset, NEW d \in preset, Complementary(c, d),
                    NEW r \in resolveMaximals(mode, c, d)
             PROVE  CoveredBy(mode', Held', r) \/ \E l \in NowPart(r) : TrueAt(l, v)
    BY <1>1 DEF PresetResolved
<1>2. c \in Clauses /\ d \in Clauses /\ OneKind(c) /\ OneKind(d) /\ c # {} /\ d # {}
    BY <1>1 DEF TypeOK, LoopForms, GivenForms
<1>3. r = Merged(c, d) /\ areCompatible(mode, leadingAttribute(c), leadingAttribute(d))
    BY DEF resolveMaximals
<1>4. r \in Clauses
    BY <1>2, <1>3, MergedOneKind DEF Modes
<1>5. CoveredBy(mode, Held, r) \/ \E l \in NowPart(r) : TrueAt(l, v)
    BY <1>1 DEF PresetResolved
<1> QED BY <1>1, <1>4, <1>5, CoverageKept

\* The invariant of completeness is inductive.
LEMMA CInvNext ==
  ASSUME CInv, [Next]_vars
  PROVE  CInv'
<1>1. MInv /\ IInv /\ OneAtATime /\ NoPreset /\ GivenForms
    BY DEF CInv, MInv
<1>2. MInv'
    <2>1. IInv'
        BY <1>1, TypeNext, ShapeNext, NothingLostNext, ResolventsNext, ActiveReducedNext DEF IInv
    <2> QED BY <1>1, <2>1, MNext DEF MInv
<1>3. OneAtATime' /\ GivenForms'
    BY <1>1, OneAtATimeNext, GivenNext
<1>4. NoPreset'
    BY <1>1, StepFrame DEF NoPreset, Next, Push, Saturate, GetForLoop, vars, callerVars
<1>5. LoopForms' /\ LoopSound' /\ PresetResolved'
    <2>1. CASE UNCHANGED <<searchVars, mode, given, preset, background>>
        <3>1. UNCHANGED <<Held, mode, given, preset, background>>
            BY <2>1 DEF searchVars, Held
        <3> QED BY <3>1 DEF CInv, LoopForms, LoopSound, PresetResolved
    <2>2. CASE Saturate
        BY <2>1, <2>2 DEF Saturate
    <2>3. CASE UNCHANGED vars
        BY <2>1, <2>3 DEF vars, callerVars
    <2>4. CASE Step
        BY <2>4, LoopStep, PresetStep DEF CInv
    <2> QED BY <2>2, <2>3, <2>4, LoopTurn, LoopPush DEF Next
<1> QED BY <1>2, <1>3, <1>4, <1>5 DEF CInv

\* It holds.
LEMMA Completeness == Spec => []CInv
<1>1. Init => CInv
    <2> SUFFICES ASSUME Init PROVE CInv
        OBVIOUS
    <2>1. mode = "normal" /\ active = {} /\ given = {} /\ preset = {}
        BY DEF Init
    <2> QED BY <2>1, InitMInv DEF CInv, OneAtATime, NoPreset, GivenForms, LoopForms, LoopSound,
                                 PresetResolved
<1>2. CInv /\ [Next]_vars => CInv'
    BY CInvNext
<1> QED BY <1>1, <1>2, PTL DEF Spec

\* In loop-search mode the step_now clauses that are left say which moments
\* have a successor.
LEMMA ProjectionRight ==
  ASSUME CInv
  PROVE  Projection
<1> DEFINE T == Transitions(given)
<1> SUFFICES ASSUME Returned, mode = "loopSearch", NEW v \in Alive(Transitions(background))
             PROVE  (\E w \in Valuations : <<v, w>> \in T) <=>
                    (~ success /\ \A c \in NowClauses : HoldsAt(c, v, v))
    BY DEF Projection
<1>1. MInv /\ OneAtATime /\ GivenForms /\ LoopForms /\ LoopSound /\ PresetResolved
      /\ TypeOK /\ NothingLost /\ Shape
    BY DEF CInv, MInv, IInv
<1>2. ASSUME NEW w \in Valuations, <<v, w>> \in T
      PROVE  ~ success /\ \A c \in NowClauses : HoldsAt(c, v, v)
    <2>1. \A c \in Held : HoldsAt(c, <<v, w>>[1], <<v, w>>[2])
        BY <1>1, <1>2 DEF LoopSound
    <2>2. \A c \in Held : HoldsAt(c, v, w)
        BY <2>1
    <2>3. ~ success
        <3> SUFFICES ASSUME success PROVE FALSE
            OBVIOUS
        <3>1. {} \in Held
            BY <1>1 DEF MInv, Refuted, Held
        <3> QED BY <2>2, <3>1 DEF HoldsAt
    <2>4. ASSUME NEW c \in NowClauses
          PROVE  HoldsAt(c, v, v)
        <3>1. c \in Held /\ leadingAttribute(c) = "step_now"
            BY DEF NowClauses, Held
        <3>2. c \in Clauses /\ OneKind(c) /\ c # {}
            BY <1>1, <3>1, HeldType DEF Held, Shape, NowClauses
        <3>3. PICK l \in c : HoldsLit(l, v, w)
            BY <2>2, <3>1 DEF HoldsAt
        <3>4. l.attr = "step_now"
            BY <3>1, <3>2, LeadingKind
        <3>5. HoldsLit(l, v, v)
            BY <3>3, <3>4 DEF HoldsLit
        <3> QED BY <3>5 DEF HoldsAt
    <2> QED BY <2>3, <2>4
<1>3. ASSUME ~ success, \A c \in NowClauses : HoldsAt(c, v, v)
      PROVE  \E w \in Valuations : <<v, w>> \in T
    <2>1. pc = "idle" /\ passive = {}
        BY <1>3 DEF Returned
    <2>2. /\ Held = LitsOf(active) /\ Proper(Held)
          /\ \A c, d \in Held :
               Complementary(c, d) =>
                 \A r \in resolveMaximals(mode, c, d) :
                   {c, d} \subseteq preset \/ CoveredBy(mode, Held, r)
        BY <1>1, <1>3, <2>1, Leaves
    <2>3. \A c \in Held : StepKind(c) /\ c \in Clauses /\ OneKind(c) /\ c # {}
        BY <1>1, <2>2 DEF LoopForms, Proper
    <2>4. v \in Valuations
        BY DEF Alive
    <2>5. PresentHolds(Held, v)
        <3> SUFFICES ASSUME NEW c \in Present(Held) PROVE \E l \in c : TrueAt(l, v)
            BY DEF PresentHolds
        <3>1. c \in Held /\ leadingAttribute(c) # "step_next"
            BY DEF Present
        <3>2. leadingAttribute(c) = "step_now"
            BY <2>3, <3>1, LeadingKind DEF StepKind, Attributes
        <3>3. HoldsAt(c, v, v)
            BY <1>3, <2>2, <3>1, <3>2 DEF NowClauses
        <3> QED BY <3>3, HoldsAtMoment DEF HoldsAt, moment
    <2>6. ResolvedAt("loopSearch", Held, v)
        BY <1>1, <2>2 DEF ResolvedAt, PresetResolved
    <2>7. PICK w \in Valuations : <<v, w>> \in Transitions(Held)
        BY <2>2, <2>3, <2>4, <2>5, <2>6, HasSuccessor DEF Modes
    <2>8. <<v, w>> \in Valuations \X Valuations
        BY <2>4
    <2>9. ASSUME NEW d \in given
          PROVE  HoldsAt(d, <<v, w>>[1], <<v, w>>[2])
        <3>1. PICK c \in Held : Covers("loopSearch", c, d)
            BY <1>1 DEF NothingLost, CoveredBy
        <3>2. c \subseteq d
            BY <2>3, <3>1, LoopCovers DEF LoopForms
        <3>3. ~ IsInitial(c)
            BY <2>3 DEF IsInitial, AttributesOf, StepKind
        <3>4. HoldsAt(c, <<v, w>>[1], <<v, w>>[2])
            BY <2>7, <3>3 DEF Transitions
        <3> QED BY <3>2, <3>4 DEF HoldsAt
    <2>10. <<v, w>> \in T
        BY <2>8, <2>9 DEF Transitions
    <2> QED BY <2>10
<1> QED BY <1>2, <1>3

-----------------------------------------------------------------------------
(***************************************************************************)
(* The theorems.                                                           *)
(***************************************************************************)
\* When saturate returns in normal mode it has reported a contradiction
\* exactly when the clauses it was given have no model.
THEOREM SaturateDecides == Spec => []Verdict
<1>1. CInv => Verdict
    BY VerdictRight
<1> QED BY <1>1, Completeness, PTL

\* When saturate returns in loop-search mode its step_now clauses hold at
\* exactly those moments, of the moments a model passes, that have a successor.
THEOREM SaturateProjects == Spec => []Projection
<1>1. CInv => Projection
    BY ProjectionRight
<1> QED BY <1>1, Completeness, PTL
=============================================================================
