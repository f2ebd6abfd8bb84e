---------------------------- MODULE MCSaturation ----------------------------
(***************************************************************************)
(* Instances of Saturation for TLC.                                        *)
(***************************************************************************)
EXTENDS SaturationMeaning

lit(x, a)  == [prop |-> x, neg |-> FALSE, attr |-> a]
nlit(x, a) == [prop |-> x, neg |-> TRUE, attr |-> a]
Signed(x, a) == {lit(x, a), nlit(x, a)}

I(lits) == Retag(lits, "initial")
U(lits) == Retag(lits, "universal")
S(now, next) ==
  {setAttribute(e[1], e[2]) : e \in (now \X {"step_now"}) \cup (next \X {"step_next"})}

p == lit(1, "initial")   np == nlit(1, "initial")
q == lit(2, "initial")   nq == nlit(2, "initial")

\* Two propositions, a pool in which every kind of clause meets every other,
\* with one that push_back drops and with clauses that subsume each other, and
\* from which loops for the literal ~q arise.
Pool ==
  { I({p}), I({np, q}), I({nq}), U({p, np}),
    U({np, nq}), U({p, q}), U({np, q}), U({nq}),
    S({np}, {q}), S({q}, {p}), S({}, {np, q}), S({nq}, {nq}), S({p}, {}), S({p,nq}, {np,q}) }

\* The loop candidates.
NotQ == { S({}, {nq}), S({}, {p, nq}), S({}, {np, nq}) }

TwoProps == {1, 2}
=============================================================================
