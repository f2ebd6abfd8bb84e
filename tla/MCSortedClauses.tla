---------------------------- MODULE MCSortedClauses ----------------------------
(***************************************************************************)
(* An instance of SortedClauses for TLC.                                   *)
(***************************************************************************)
EXTENDS SortedClauses

ThreeProps == {1, 2, 3}

Of(props, attrs) == {l \in Literals : l.prop \in props /\ l.attr \in attrs}
Some(props, a)   == {lits \in SUBSET Of(props, {a}) : isCorrect("normal", lits)}

\* Every correct universal clause over three propositions, initial ones over
\* two, step clauses with two propositions now and three at the next moment.
Correct ==
  UNION { Some({1, 2, 3}, "universal"), Some({1, 2}, "initial"),
          {now \cup nxt : now \in Some({1, 2}, "step_now"), nxt \in Some({1, 2, 3}, "step_next")} }

\* Any three literals over two propositions, in any order.
Short ==
  {<<>>} \cup
  UNION {[1 .. 3 -> Of({1, 2}, attrs)] : attrs \in {{"universal"}, {"step_now", "step_next"}}}
=============================================================================
