---------------------------- MODULE SNFSemantics ----------------------------
(***************************************************************************)
(* What a set of SNF clauses means, independently of the engine.  A model  *)
(* is an infinite sequence of valuations; a valuation is the set of the    *)
(* propositions true at a moment.  An initial clause speaks of the first   *)
(* moment, every other clause of each moment and its successor.            *)
(***************************************************************************)
EXTENDS TemporalClauses

Valuations == SUBSET Prop

\* One literal, at a moment v followed by the moment w.
HoldsLit(l, v, w) ==
  (l.prop \in (IF l.attr = "step_next" THEN w ELSE v)) # l.neg

HoldsAt(lits, v, w) == \E l \in lits : HoldsLit(l, v, w)

IsInitial(lits) == lits # {} /\ AttributesOf(lits) = {"initial"}

\* The pairs of consecutive moments that the non-initial clauses of S allow.
Transitions(S) ==
  LET T == {c \in S : ~ IsInitial(c)}
  IN  {e \in Valuations \X Valuations : \A c \in T : HoldsAt(c, e[1], e[2])}

\* The moments from which a model of the non-initial clauses can go on for
\* ever: the greatest set of moments each with a successor in the set.
Alive(T) ==
  UNION {V \in SUBSET Valuations : \A v \in V : \E w \in V : <<v, w>> \in T}

Starts(S) ==
  LET T == Transitions(S)
  IN  {v \in Alive(T) : \A c \in S : IsInitial(c) => HoldsAt(c, v, v)}

Satisfiable(S) == Starts(S) # {}

\* Every model of S is a model of the clause lits.  The empty clause and the
\* clauses that speak of all moments are judged at every moment that some
\* model of the non-initial clauses passes, wherever it starts.
Entails(S, lits) ==
  LET T == Transitions(S)
      A == Alive(T)
  IN  IF lits = {} THEN Starts(S) = {}
      ELSE IF IsInitial(lits)
      THEN \A v \in Starts(S) : HoldsAt(lits, v, v)
      ELSE \A e \in T : {e[1], e[2]} \subseteq A => HoldsAt(lits, e[1], e[2])
=============================================================================
