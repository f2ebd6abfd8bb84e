--------------------------- MODULE MCClauseContainer ---------------------------
(***************************************************************************)
(* Instances of ClauseContainer for TLC.                                   *)
(***************************************************************************)
EXTENDS ClauseContainer

lit(x, a)  == [prop |-> x, neg |-> FALSE, attr |-> a]
nlit(x, a) == [prop |-> x, neg |-> TRUE, attr |-> a]

\* A universal clause and one it subsumes, a step clause, one about the
\* present only (what a loop candidate is made of), a tautology.
Mixed == {
  {nlit(1, "universal")},
  {lit(2, "universal"), nlit(1, "universal")},
  {nlit(2, "step_now"), lit(1, "step_next")},
  {lit(2, "step_now")},
  {lit(1, "universal"), nlit(1, "universal")} }

TwoProps == {1, 2}
=============================================================================
