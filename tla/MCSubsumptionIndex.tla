-------------------------- MODULE MCSubsumptionIndex --------------------------
(***************************************************************************)
(* Instances of SubsumptionIndex for TLC.                                  *)
(***************************************************************************)
EXTENDS SubsumptionIndex

Numbered(pool) == {[id |-> i, lits |-> pool[i]] : i \in DOMAIN pool}

lit(x, a)  == [prop |-> x, neg |-> FALSE, attr |-> a]
nlit(x, a) == [prop |-> x, neg |-> TRUE, attr |-> a]

I(lits) == Retag(lits, "initial")
U(lits) == Retag(lits, "universal")
S(now, nxt) ==
  {setAttribute(e[1], e[2]) : e \in (now \X {"step_now"}) \cup (nxt \X {"step_next"})}

p == lit(1, "initial")   np == nlit(1, "initial")
q == lit(2, "initial")   nq == nlit(2, "initial")
r == lit(3, "initial")   nr == nlit(3, "initial")

\* Paths of one to three keys that share, extend and complement each other;
\* two pointers to equal clauses; step clauses, stored under the one part
\* and asked for by either.
Mixed == Numbered(<<
  U({r, q, p}), U({q}), U({r, nq}), I({r, p}), I({r, p}),
  S({q}, {p}), S({q}, {nq, p}), S({}, {q, p}) >>)

ThreeProps == {1, 2, 3}
=============================================================================
