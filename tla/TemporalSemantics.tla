-------------------------- MODULE TemporalSemantics --------------------------
(***************************************************************************)
(* What a temporal problem means: SNF clauses over the given symbols and   *)
(* eventuality clauses "at every moment, C or sometime l".  A run goes     *)
(* through moments, each with the eventuality clauses still owed there.    *)
(***************************************************************************)
EXTENDS SNFSemantics, Sequences

\* What is owed at moment v when owed was owed just before.
Owed(evs, v, owed) ==
  {i \in DOMAIN evs :
     /\ ~ HoldsLit(evs[i].eventuality, v, v)
     /\ i \in owed \/ ~ HoldsAt(evs[i].present, v, v)}

Moments(props, evs) ==
  {n \in (SUBSET props) \X SUBSET DOMAIN evs :
     /\ Owed(evs, n[1], {}) \subseteq n[2]
     /\ n[2] \subseteq Owed(evs, n[1], DOMAIN evs)}

\* The steps from moment to moment that the clauses allow.
Moves(props, clauses, evs) ==
  {e \in Moments(props, evs) \X Moments(props, evs) :
     /\ \A c \in clauses : IsInitial(c) \/ HoldsAt(c, e[1][1], e[2][1])
     /\ e[2][2] = Owed(evs, e[2][1], e[1][2])}

\* The moments of W lie on runs inside W that pay whatever they owe: from
\* each there is a step, and no part of W in which an eventuality clause is
\* owed throughout keeps all its steps to itself.
Runs(T, evs, W) ==
  /\ \A m \in W : \E n \in W : <<m, n>> \in T
  /\ \A i \in DOMAIN evs : \A X \in SUBSET {m \in W : i \in m[2]} :
       X # {} => \E m \in X, n \in W \ X : <<m, n>> \in T

Begins(clauses, evs, n) ==
  /\ n[2] = Owed(evs, n[1], {})
  /\ \A c \in clauses : IsInitial(c) => HoldsAt(c, n[1], n[1])

\* Has the problem a model over the symbols in props?
SatisfiableProblem(props, clauses, evs) ==
  LET T == Moves(props, clauses, evs)
  IN  \E W \in SUBSET Moments(props, evs) :
        /\ \E n \in W : Begins(clauses, evs, n)
        /\ Runs(T, evs, W)
=============================================================================
