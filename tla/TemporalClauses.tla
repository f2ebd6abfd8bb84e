--------------------------- MODULE TemporalClauses ---------------------------
(***************************************************************************)
(* The data the STL-TIM engine works on: literals with a temporal          *)
(* attribute, clauses, the literal order, the resolution rule and the      *)
(* subsumption tests (src/src/stl_tim: attribute, literal, clause, infer,  *)
(* keycomparator, subsumptionindex).                                       *)
(*                                                                         *)
(* A clause of the code is a vector of literals kept sorted and duplicate  *)
(* free; here it is the set of those literals.  The empty set is the empty *)
(* clause.  A proposition is its symbol id, the key the code orders by.    *)
(* Everything the code looks up in the global mode tables takes the mode   *)
(* as its first argument m.                                                *)
(***************************************************************************)
EXTENDS Integers, FiniteSets

CONSTANT Prop                    \* the symbol ids in use

ASSUME PropAssumption == Prop \subseteq Nat

Modes      == {"normal", "loopSearch"}
Attributes == {"initial", "universal", "step_now", "step_next"}
Literals   == [prop : Prop, neg : BOOLEAN, attr : Attributes]
Clauses    == SUBSET Literals

(***************************************************************************)
(* The mode tables.                                                        *)
(***************************************************************************)
\* Variant: the equality table is not exchanged when the mode changes.
areEqualInBothModes(m, a, b) == a = b \/ {a, b} = {"universal", "step_now"}

areEqual(m, a, b) ==
  \/ a = b
  \/ m = "normal" /\ {a, b} = {"universal", "step_now"}

\* Variant: every two attributes are compatible.
areCompatibleAll(m, a, b) == m = "normal" \/ {a, b} \subseteq {"universal", "step_next"}

\* Variant: initial clauses resolve with initial clauses only.
areCompatibleInitialApart(m, a, b) ==
  IF m = "normal" THEN a = b \/ "initial" \notin {a, b}
                  ELSE {a, b} \subseteq {"universal", "step_next"}

areCompatible(m, a, b) ==
  IF m = "normal" THEN {a, b} # {"initial", "step_next"}
                  ELSE {a, b} \subseteq {"universal", "step_next"}

\* Variant: "the only place where it is not commutative" made commutative.
transformCommutative(lead, other, a) ==
  LET pair == {lead, other}
  IN  CASE "initial" \in pair /\ "step_next" \notin pair -> "initial"
        [] pair \subseteq {"universal", "step_now"}      -> "universal"
        [] pair = {"universal", "step_next"} /\ a = "universal" -> "step_next"
        [] OTHER -> a

\* What the attribute a of a literal becomes in a resolvent, when its clause
\* is led by attribute lead and the other clause by attribute other.  Outside
\* the tables AttributeTransformer throws; the exception is the last value.
transform(lead, other, a) ==
  LET pair == {lead, other}
  IN  CASE "initial" \in pair /\ "step_next" \notin pair -> "initial"
        [] pair \subseteq {"universal", "step_now"}      -> "universal"
        [] /\ "step_next" \in pair /\ "initial" \notin pair
           /\ a \in {"step_now", "step_next"}            ->
             IF lead = "step_now" THEN "step_next" ELSE a
        [] pair = {"universal", "step_next"} /\ a = "universal" -> "step_next"
        [] OTHER                                         -> "AttributeException"

(***************************************************************************)
(* Literals and their order: step_next above step_now, then the symbol id; *)
(* the sign takes no part.                                                 *)
(***************************************************************************)
negate(l)          == [prop |-> l.prop, neg |-> ~ l.neg, attr |-> l.attr]
setAttribute(l, a) == [prop |-> l.prop, neg |-> l.neg, attr |-> a]

LiteralLess(k, l) ==
  \/ k.attr = "step_now" /\ l.attr = "step_next"
  \/ /\ ~ (k.attr = "step_next" /\ l.attr = "step_now")
     /\ k.prop < l.prop

\* index_key_comparator: the order of index keys ignores the attribute.
KeyLess(k, l) ==
  \/ k.prop < l.prop
  \/ k.prop = l.prop /\ ~ k.neg /\ l.neg

Key(l)     == <<l.prop, l.neg>>
Keys(lits) == {Key(l) : l \in lits}

(***************************************************************************)
(* Clauses.                                                                *)
(***************************************************************************)
NowPart(lits)  == {l \in lits : l.attr = "step_now"}
NextPart(lits) == {l \in lits : l.attr = "step_next"}
Retag(lits, a) == {setAttribute(l, a) : l \in lits}

\* front() of the sorted vector of a non-empty clause.
getLeadingLiteral(lits) ==
  CHOOSE l \in lits : \A k \in lits : ~ LiteralLess(l, k)

\* The attribute of the leading literal: step_next literals sort first.
leadingAttribute(lits) ==
  IF NextPart(lits) # {} THEN "step_next"
                         ELSE (CHOOSE l \in lits : TRUE).attr

isCorrect(m, lits) ==
  ~ \E k, l \in lits : /\ k.prop = l.prop
                       /\ k.neg # l.neg
                       /\ areEqual(m, k.attr, l.attr)

\* The three kinds of clause the adaptor builds (make_iclause, make_uclause,
\* make_sclause) and every inference preserves.
AttributesOf(lits) == {l.attr : l \in lits}
OneKind(lits) ==
  \/ AttributesOf(lits) \subseteq {"initial"}
  \/ AttributesOf(lits) \subseteq {"universal"}
  \/ AttributesOf(lits) \subseteq {"step_now", "step_next"}

(***************************************************************************)
(* resolveMaximals: resolve two clauses on their leading literals.  The    *)
(* result is the set of clauses produced, empty or a singleton: nothing    *)
(* when the attributes cannot be unified or when the merge meets a         *)
(* complementary pair.                                                     *)
(***************************************************************************)
Transformed(lits, lead, other) ==
  {setAttribute(l, transform(lead, other, l.attr)) : l \in lits}

Merged(c, d) ==
  LET a == leadingAttribute(c)
      b == leadingAttribute(d)
  IN  Transformed(c \ {getLeadingLiteral(c)}, a, b) \cup
      Transformed(d \ {getLeadingLiteral(d)}, b, a)

Complementary(c, d) == Key(getLeadingLiteral(c)) = Key(negate(getLeadingLiteral(d)))

\* Variant: complementary literals of a resolvent go unnoticed.
resolveMaximalsUnchecked(m, c, d) ==
  IF areCompatible(m, leadingAttribute(c), leadingAttribute(d))
  THEN {Merged(c, d)} ELSE {}

resolveMaximals(m, c, d) ==
  IF /\ areCompatible(m, leadingAttribute(c), leadingAttribute(d))
     /\ isCorrect(m, Merged(c, d))
  THEN {Merged(c, d)}
  ELSE {}

(***************************************************************************)
(* Subsumption.                                                            *)
(***************************************************************************)
\* c is included in d up to the attribute equality of the mode.
SubsumesHelper(m, c, d) ==
  \A k \in c : \E l \in d : Key(k) = Key(l) /\ areEqual(m, k.attr, l.attr)

\* clauseSubsumes without its test on clause ids.
clauseSubsumesHelper(m, c, d) ==
  \/ c = {}
  \/ /\ d # {}
     /\ Cardinality(c) <= Cardinality(d)
     /\ LET a == leadingAttribute(c)
            b == leadingAttribute(d)
        IN  IF areEqual(m, a, "universal")
            THEN IF b = "step_next"
                 THEN Retag(c, "step_next") \subseteq d \/ Retag(c, "step_now") \subseteq d
                 ELSE SubsumesHelper(m, c, d)
            ELSE a = b /\ SubsumesHelper(m, c, d)

(***************************************************************************)
(* The tests of the trie index.  A clause is stored under one path: its    *)
(* step_now part when it is a step clause with one, else all of it.        *)
(***************************************************************************)
Path(lits) ==
  IF leadingAttribute(lits) = "step_next" /\ NowPart(lits) # {}
  THEN NowPart(lits) ELSE lits

\* The stretches of a query that a forward search walks.
Stretches(lits) ==
  IF leadingAttribute(lits) = "step_next"
  THEN {NextPart(lits), NowPart(lits)} ELSE {lits}

\* Variant: two step clauses are compared by their paths only.
forwardTestDataByPath(m, c, d) ==
  LET a == leadingAttribute(c)
      b == leadingAttribute(d)
  IN  IF b = "step_next" THEN areEqual(m, a, "universal") \/ a = "step_next"
      ELSE areEqual(m, a, b) \/ (b = "initial" /\ areEqual(m, a, "universal"))

\* Does the indexed clause c, reached through its path, subsume the query d?
forwardTestData(m, c, d) ==
  LET a == leadingAttribute(c)
      b == leadingAttribute(d)
  IN  CASE b = "initial"  -> a = "initial" \/ areEqual(m, a, "universal")
        [] areEqual(m, b, "universal") -> areEqual(m, a, "universal")
        [] b = "step_now" /\ ~ areEqual(m, b, "universal") -> a = "step_now"
        [] b = "step_next" ->
             \/ areEqual(m, a, "universal")
             \/ a = "step_next" /\ SubsumesHelper(m, c, d)

\* Variant: two step clauses are compared by their paths only.
backwardTestDataByPath(m, c, d) ==
  areEqual(m, leadingAttribute(c), leadingAttribute(d))

\* Is the indexed clause d, reached through its path, subsumed by c?
backwardTestData(m, c, d) ==
  LET a == leadingAttribute(c)
      b == leadingAttribute(d)
  IN  CASE a = "initial"  -> b = "initial"
        [] areEqual(m, a, "universal") -> areEqual(m, b, "universal")
        [] a = "step_now" /\ ~ areEqual(m, a, "universal") ->
             b = "step_now" \/ (b = "step_next" /\ SubsumesHelper(m, c, d))
        [] a = "step_next" -> b = "step_next" /\ SubsumesHelper(m, c, d)

indexForward(m, c, d) ==
  /\ \E s \in Stretches(d) : Keys(Path(c)) \subseteq Keys(s)
  /\ forwardTestData(m, c, d)

indexBackward(m, c, d) ==
  /\ Keys(Path(c)) \subseteq Keys(Path(d))
  /\ backwardTestData(m, c, d)

(***************************************************************************)
(* The reference notion of redundancy.  A universal clause (and, in normal *)
(* mode, a clause of step_now literals only) speaks of every moment, so it *)
(* may be moved to any attribute; other clauses are compared literally.    *)
(***************************************************************************)
EveryMoment(m, c) ==
  \A l \in c : areEqual(m, l.attr, "universal")

Covers(m, c, d) ==
  \/ c \subseteq d
  \/ EveryMoment(m, c) /\ \E a \in Attributes : Retag(c, a) \subseteq d

CoveredBy(m, S, d) == \E c \in S : Covers(m, c, d)
=============================================================================
