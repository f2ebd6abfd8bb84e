----------------------------- MODULE SortedClauses -----------------------------
(***************************************************************************)
(* The algorithms on sorted vectors of literals behind the definitions on  *)
(* sets in TemporalClauses: how a vector comes about (SortedLiteralList,   *)
(* stl_tim/literallist.h), the walk of isCorrect over neighbours           *)
(* (stl_tim/clause.h), the walks of two iterators that decide subsumption  *)
(* and merge resolvents (stl_tim/infer.cc), one turn of a loop a step.     *)
(*                                                                         *)
(* A vector is a sequence of literals from the greatest down, p and q are  *)
(* positions in the vectors c and d.  One call is made in a behaviour.     *)
(***************************************************************************)
EXTENDS TemporalClauses, SequencesExt

CONSTANTS
  Lists,       \* lists of literals as the clause constructors get them
  Held         \* the clauses the engine may hold and compare

ASSUME SortedAssumption ==
  /\ \A list \in Lists : list \in Seq(Literals) /\ OneKind(ToSet(list))
  /\ \A lits \in Held : lits \in Clauses /\ IsFiniteSet(lits) /\ OneKind(lits)

VARIABLES
  mode,
  task,        \* the function called: "build", "subsumes" or "resolve"
  pc,          \* the loop it is in, "returned" at the end
  list,        \* the argument of "build"
  c, d,        \* the arguments of the others; "build" makes c of the sorted d
  p, q,        \* the iterators
  merged,      \* the resolvent so far
  result       \* FALSE also stands for the 0 of resolveMaximals

vars == <<mode, task, pc, list, c, d, p, q, merged, result>>

Descending(s) == \A i \in 1 .. Len(s) - 1 : LiteralLess(s[i + 1], s[i])

\* The vectors of the clauses; in a correct one no two literals are
\* equivalent.
vectors ==
  UNION {{s \in [1 .. Cardinality(lits) -> lits] :
            /\ ToSet(s) = lits
            /\ \A i, j \in 1 .. Len(s) : i < j => LiteralLess(s[j], s[i])} : lits \in Held}

\* Loop searches hold no initial clauses.
HeldIn(m) ==
  {s \in vectors : /\ isCorrect(m, ToSet(s))
                   /\ m = "loopSearch" => AttributesOf(ToSet(s)) # {"initial"}}

Init ==
  /\ mode \in Modes
  /\ p = 1 /\ q = 1 /\ merged = <<>> /\ result = FALSE
  /\ \/ /\ task = "build" /\ pc = "sort"
        /\ list \in Lists
        /\ c = <<>> /\ d = <<>>
     \/ /\ task = "subsumes" /\ pc = "sizes"
        /\ list = <<>>
        /\ c \in HeldIn(mode) /\ d \in HeldIn(mode)
     \/ /\ task = "resolve" /\ pc = "conditions"
        /\ list = <<>>
        /\ c \in HeldIn(mode) \ {<<>>} /\ d \in HeldIn(mode) \ {<<>>}
        /\ Complementary(ToSet(c), ToSet(d))

return(value) == pc' = "returned" /\ result' = value

-----------------------------------------------------------------------------
(***************************************************************************)
(* The vector of a list, and the test for a tautology.                     *)
(***************************************************************************)
sameLiteral(k, l) == Key(k) = Key(l) /\ areEqual(mode, k.attr, l.attr)
contrary(k, l)    == k.prop = l.prop /\ k.neg # l.neg /\ areEqual(mode, k.attr, l.attr)

\* std::sort: the sign takes no part in the order, so contrary literals may
\* come in either order, and equal ones on both sides of a contrary one.
sortings(s) ==
  {t \in {[i \in 1 .. Len(s) |-> s[f[i]]] : f \in Bijection(1 .. Len(s), 1 .. Len(s))} :
     \A i, j \in 1 .. Len(s) : i < j => ~ LiteralLess(t[i], t[j])}

MaintainStructure ==
  /\ pc = "sort" /\ pc' = "unique"
  /\ d' \in sortings(list)
  /\ UNCHANGED <<mode, task, list, c, p, q, merged, result>>

\* std::unique and erase: c is what is kept of d before q.
DropEqual ==
  /\ pc = "unique"
  /\ IF q > Len(d)
     THEN pc' = "neighbours" /\ UNCHANGED <<c, q>>
     ELSE /\ c' = IF c # <<>> /\ sameLiteral(Last(c), d[q]) THEN c ELSE Append(c, d[q])
          /\ q' = q + 1 /\ pc' = pc
  /\ UNCHANGED <<mode, task, list, d, p, merged, result>>

\* isCorrect: i is at p, j behind it.
CheckNeighbours ==
  /\ pc = "neighbours"
  /\ IF p >= Len(c) THEN return(TRUE) /\ p' = p
     ELSE IF contrary(c[p], c[p + 1]) THEN return(FALSE) /\ p' = p
     ELSE p' = p + 1 /\ UNCHANGED <<pc, result>>
  /\ UNCHANGED <<mode, task, list, c, d, q, merged>>

-----------------------------------------------------------------------------
(***************************************************************************)
(* Subsumption.                                                            *)
(***************************************************************************)
\* clauseSubsumesHelper and the choice of implementationDependentSubsumes.
CompareSizes ==
  /\ pc = "sizes"
  /\ LET a == c[1].attr
         b == d[1].attr
     IN  IF c = <<>> THEN return(TRUE)
         ELSE IF Len(c) > Len(d) \/ ~ (areEqual(mode, a, "universal") \/ a = b) THEN return(FALSE)
         ELSE /\ pc' = IF areEqual(mode, a, "universal") /\ b = "step_next" THEN "as next" ELSE "as is"
              /\ result' = result
  /\ UNCHANGED <<mode, task, list, c, d, p, q, merged>>

\* implementationDependentSubsumesHelper
WalkAsIs ==
  /\ pc = "as is"
  /\ IF p > Len(c) \/ q > Len(d)
     THEN return(p > Len(c)) /\ UNCHANGED <<p, q>>
     ELSE IF LiteralLess(c[p], d[q])
     THEN q' = q + 1 /\ UNCHANGED <<p, pc, result>>
     ELSE IF sameLiteral(c[p], d[q])
     THEN p' = p + 1 /\ q' = q + 1 /\ UNCHANGED <<pc, result>>
     ELSE return(FALSE) /\ UNCHANGED <<p, q>>
  /\ UNCHANGED <<mode, task, list, c, d, merged>>

atNext == q <= Len(d) /\ d[q].attr = "step_next"

\* Variant: the second case goes on with c where the first left it.
WalkAsNextOn ==
  /\ pc = "as next"
  /\ IF p <= Len(c) /\ atNext /\ c[p].prop < d[q].prop
     THEN q' = q + 1 /\ UNCHANGED <<p, pc, result>>
     ELSE IF p <= Len(c) /\ atNext /\ Key(c[p]) = Key(d[q])
     THEN p' = p + 1 /\ q' = q + 1 /\ UNCHANGED <<pc, result>>
     ELSE IF p > Len(c)
     THEN return(TRUE) /\ UNCHANGED <<p, q>>
     ELSE pc' = "skip next" /\ p' = p /\ UNCHANGED <<q, result>>
  /\ UNCHANGED <<mode, task, list, c, d, merged>>

\* The "ugliest" case: c as a clause about the next moment ...
WalkAsNext ==
  /\ pc = "as next"
  /\ IF p <= Len(c) /\ atNext /\ c[p].prop < d[q].prop
     THEN q' = q + 1 /\ UNCHANGED <<p, pc, result>>
     ELSE IF p <= Len(c) /\ atNext /\ Key(c[p]) = Key(d[q])
     THEN p' = p + 1 /\ q' = q + 1 /\ UNCHANGED <<pc, result>>
     ELSE IF p > Len(c)
     THEN return(TRUE) /\ UNCHANGED <<p, q>>
     ELSE pc' = "skip next" /\ p' = 1 /\ UNCHANGED <<q, result>>
  /\ UNCHANGED <<mode, task, list, c, d, merged>>

SkipNext ==
  /\ pc = "skip next"
  /\ IF atNext THEN q' = q + 1 /\ pc' = pc
               ELSE q' = q /\ pc' = "as now"
  /\ UNCHANGED <<mode, task, list, c, d, p, merged, result>>

\* ... and as one about the present.
WalkAsNow ==
  /\ pc = "as now"
  /\ IF p > Len(c) \/ q > Len(d)
     THEN return(p > Len(c)) /\ UNCHANGED <<p, q>>
     ELSE IF c[p].prop < d[q].prop
     THEN q' = q + 1 /\ UNCHANGED <<p, pc, result>>
     ELSE IF Key(c[p]) = Key(d[q])
     THEN p' = p + 1 /\ q' = q + 1 /\ UNCHANGED <<pc, result>>
     ELSE return(FALSE) /\ UNCHANGED <<p, q>>
  /\ UNCHANGED <<mode, task, list, c, d, merged>>

-----------------------------------------------------------------------------
(***************************************************************************)
(* Resolution.                                                             *)
(***************************************************************************)
\* resolveMaximals leaves out the first literals if they may be resolved.
CheckConditions ==
  /\ pc = "conditions"
  /\ IF areCompatible(mode, c[1].attr, d[1].attr)
     THEN pc' = "merge" /\ p' = 2 /\ q' = 2 /\ result' = result
     ELSE return(FALSE) /\ UNCHANGED <<p, q>>
  /\ UNCHANGED <<mode, task, list, c, d, merged>>

fromC == setAttribute(c[p], transform(c[1].attr, d[1].attr, c[p].attr))
fromD == setAttribute(d[q], transform(d[1].attr, c[1].attr, d[q].attr))

takeC == merged' = Append(merged, fromC) /\ p' = p + 1 /\ q' = q
takeD == merged' = Append(merged, fromD) /\ q' = q + 1 /\ p' = p

\* Variant: propositions are compared first.
dGoesFirstByProposition == fromC.prop < fromD.prop \/ LiteralLess(fromC, fromD)

\* Is the literal of d the greater one?
dGoesFirst == LiteralLess(fromC, fromD)

Merge ==
  /\ pc = "merge" /\ p <= Len(c) /\ q <= Len(d)
  /\ IF sameLiteral(fromC, fromD)
     THEN merged' = Append(merged, fromC) /\ p' = p + 1 /\ q' = q + 1 /\ UNCHANGED <<pc, result>>
     ELSE IF contrary(fromC, fromD)
     THEN return(FALSE) /\ UNCHANGED <<merged, p, q>>
     ELSE (IF dGoesFirst THEN takeD ELSE takeC) /\ UNCHANGED <<pc, result>>
  /\ UNCHANGED <<mode, task, list, c, d>>

\* One of the two is read to its end.
TakeRest ==
  /\ pc = "merge" /\ (p > Len(c) \/ q > Len(d))
  /\ IF p <= Len(c) THEN takeC /\ UNCHANGED <<pc, result>>
     ELSE IF q <= Len(d) THEN takeD /\ UNCHANGED <<pc, result>>
     ELSE return(TRUE) /\ UNCHANGED <<merged, p, q>>
  /\ UNCHANGED <<mode, task, list, c, d>>

Step ==
  \/ MaintainStructure \/ DropEqual \/ CheckNeighbours
  \/ CompareSizes \/ WalkAsIs \/ WalkAsNext \/ SkipNext \/ WalkAsNow
  \/ CheckConditions \/ Merge \/ TakeRest

Done == pc = "returned" /\ UNCHANGED vars

Next == Step \/ Done

Spec == Init /\ [][Next]_vars
-----------------------------------------------------------------------------
(***************************************************************************)
(* Properties.                                                             *)
(***************************************************************************)
\* What a walk returns is what TemporalClauses says of the sets of literals:
\* looking at neighbours finds every contrary pair, looking at each literal
\* once decides subsumption, also in the "ugliest" case that walks twice with
\* one iterator carried over, and the merge meets every contrary pair.
WalksDecide ==
  pc = "returned" =>
    CASE task = "build"    -> /\ result = isCorrect(mode, ToSet(list))
                              /\ ToSet(c) = ToSet(list)
      [] task = "subsumes" -> result = clauseSubsumesHelper(mode, ToSet(c), ToSet(d))
      [] task = "resolve"  -> resolveMaximals(mode, ToSet(c), ToSet(d)) =
                                (IF result THEN {ToSet(merged)} ELSE {})

\* SortedLiteralList: "attempt to insert into a wrong place!" is never
\* printed, as every literal put at the end is less than the one before it;
\* and what is kept of the input is sorted and without duplicates as well.
InDescendingOrder ==
  /\ Descending(merged)
  /\ task = "build" /\ result => Descending(c)
=============================================================================
