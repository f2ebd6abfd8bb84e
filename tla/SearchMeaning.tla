---------------------------- MODULE SearchMeaning ----------------------------
(***************************************************************************)
(* What the prover promises: the properties checked of Search.             *)
(***************************************************************************)
EXTENDS Search, TemporalSemantics

SearchTypeOK ==
  /\ TypeOK
  /\ stage \in Stages
  /\ \A i \in DOMAIN events : events[i] \in Eventualities
  /\ turn \in 0..(Len(events) + 1)
  /\ {somethingNew, loopFound, unreported} \subseteq BOOLEAN
  /\ saved \subseteq Entries /\ base \subseteq Entries
  /\ \A i \in DOMAIN loop : loop[i] \in Clauses
  /\ verdict \in {"none", "Satisfiable", "Unsatisfiable"}
  /\ since \in Nat

Problem == SatisfiableProblem(Symbols, given, events)

\* A contradiction is never found in a problem that has a model.
UnsatisfiableIsRight == verdict = "Unsatisfiable" => ~ Problem

\* "nothing new -> no proof (clauseset is saturated)".
SatisfiableIsRight == verdict = "Satisfiable" => Problem

\* What the code does promise: the answer Satisfiable is right unless, in the
\* last round, a temporal resolvent became active and saturate said nothing
\* of it.
SatisfiableIfReported == verdict = "Satisfiable" /\ ~ unreported => Problem

\* The moments of the loop: those that falsify a clause of the candidate.
InLoop(v) == loop = <<>> \/ \E i \in DOMAIN loop : ~ HoldsAt(loop[i], v, v)

\* The candidates of one loop search only ever shrink.
Shrinks ==
  [][stage = "iterated" /\ stage' = "candidate" =>
       \A v \in Valuations : InLoop(v)' => InLoop(v)]_allVars

\* The pretest decides what it can: of a problem with eventuality clauses a
\* round is entered only if the left-hand side of some of them is not
\* guaranteed to be false.
PretestDecides ==
  UsePretest /\ events # <<>> /\ stage = "eventualities" /\ turn = 1 =>
    \E i \in DOMAIN events : ~ notMaximal(events[i].present)

\* search returns.
Terminates == stage = "step" ~> stage = "done"
=============================================================================
