------------------------------ MODULE MCSearch ------------------------------
(***************************************************************************)
(* Instances of Search for TLC.  Symbols 1 and 2 are the problem's, 3 and  *)
(* 4 are left for the literals that augmentation makes.                    *)
(***************************************************************************)
EXTENDS LoopMeaning

lit(p)  == [prop |-> p, neg |-> FALSE, attr |-> "universal"]
nlit(p) == [prop |-> p, neg |-> TRUE, attr |-> "universal"]

I(lits) == Retag(lits, "initial")
U(lits) == Retag(lits, "universal")
S(now, next) ==
  {setAttribute(e[1], e[2]) : e \in (now \X {"step_now"}) \cup (next \X {"step_next"})}
E(lits, l) == [present |-> lits, eventuality |-> l]

\* For breadth-first order: step clauses that alternate, freeze or fix 1.
Clause ==
  { S({}, {nlit(1)}), S({lit(1), nlit(2)}, {lit(2)}), S({nlit(1)}, {lit(1)}),
    S({lit(1)}, {lit(1)}), S({nlit(1)}, {nlit(1)}), U({lit(1), lit(2)}), I({lit(1)}) }
Sometime ==
  { E({}, lit(2)), E({nlit(2)}, nlit(2)), E({lit(2)}, lit(1)), E({nlit(1)}, nlit(1)) }

\* For depth-first order: more about the present, three clauses at a time.
DepthClause ==
  { S({nlit(2)}, {nlit(1)}), S({lit(1)}, {nlit(1), lit(2)}), U({nlit(1), nlit(2)}),
    U({lit(2)}), I({lit(1), lit(2)}), I({nlit(2)}) }
DepthSometime == { E({}, lit(1)), E({nlit(2)}, lit(2)), E({lit(1)}, nlit(2)) }

TwoSymbols  == {1, 2}
FourSymbols == {1, 2, 3, 4}
NoClauses == {}
=============================================================================
