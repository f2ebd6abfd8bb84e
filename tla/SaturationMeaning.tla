-------------------------- MODULE SaturationMeaning --------------------------
(***************************************************************************)
(* What saturate promises: the properties checked of Saturation.           *)
(***************************************************************************)
EXTENDS Saturation, SNFSemantics

\* Every clause is a set of literals of one kind, without complementary
\* literals, and its leading literal has the attribute the engine tests, so
\* that a clause shortened, merged or rewritten still fits every index.
WellFormed ==
  \A c \in Held : /\ OneKind(c)
                  /\ isCorrect("normal", c)
                  /\ c # {} => getLeadingLiteral(c).attr = leadingAttribute(c)

\* The engine is sound: resolution, factoring, FSR and the rewriting of
\* attributes never produce a clause that the pushed clauses do not entail.
Sound == \A c \in Held : Entails(given, c)

\* Redundancy elimination loses nothing: whatever was pushed stays covered
\* by a clause the engine still holds.
NothingLost == \A c \in given : CoveredBy(mode, Held, c)

\* The given-clause loop misses no inference: of two active clauses that may
\* be resolved, e the older, the resolvent is held or covered.  Two clauses
\* put into Active by getForLoop are exempt, nobody resolves them.
ResolventsKept ==
  \A e, f \in active :
    /\ e.at < f.at
    /\ ~ ({e.lits, f.lits} \subseteq preset)
    /\ Complementary(e.lits, f.lits)
    => \A r \in resolveMaximals(mode, e.lits, f.lits) : CoveredBy(mode, Held, r)

\* No clause in Active is covered by one that was activated later through
\* the index: what the index can see, backward subsumption has removed.
ActiveReduced ==
  \A e, f \in active :
    e.at < f.at /\ f.lits \notin preset => ~ indexBackward(mode, f.lits, e.lits)

Returned == pc = "idle" /\ calls > 0 /\ (success \/ passive = {})

\* The engine is complete in normal mode: when saturate returns, it reports a
\* contradiction exactly when the clauses have no model.
Verdict ==
  Returned /\ mode = "normal" => (success <=> ~ Satisfiable(given))

\* In loop-search mode saturate projects onto the present: when it returns,
\* the moments that satisfy its step_now clauses are exactly those that have
\* a successor (contradiction: none has).  Moments that no model of the
\* clauses behind the search can pass do not count: getForLoop leaves out
\* what is said of the present by universal clauses.
NowClauses == {c \in LitsOf(active) : leadingAttribute(c) = "step_now"}
Projection ==
  Returned /\ mode = "loopSearch" =>
    LET T == Transitions(given)
    IN  \A v \in Alive(Transitions(background)) :
          (\E w \in Valuations : <<v, w>> \in T) <=>
          (~ success /\ \A c \in NowClauses : HoldsAt(c, v, v))

\* A step never forgets: what some held clause covered is still covered.
Monotone ==
  [][mode' = mode => \A c \in Held : CoveredBy(mode, Held', c)]_vars

\* The engine implements the abstract clause set: each step of saturate only
\* concludes what follows from the clauses it holds, drops only what they
\* cover, and no contradiction is reported without the empty clause.
D == INSTANCE Deduction WITH clauses <- Held, contradiction <- success
ImplementsDeduction == D!DSpec

\* Every call of saturate returns.
Returns == (pc = "select") ~> (pc = "idle")
=============================================================================
