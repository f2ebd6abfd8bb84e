------------------------------ MODULE Saturation ------------------------------
(***************************************************************************)
(* ClauseSet::saturate (src/src/stl_tim/stl_tim.cc) with the two halves of *)
(* the clause set, Active and Passive, and the calls its users make on it: *)
(* push_back and saturate from the prover, getForLoop when a loop search   *)
(* takes its own copy of the set and turns to loop-search mode.            *)
(*                                                                         *)
(* saturate is the given-clause loop: select the best passive clause, drop *)
(* it if an active clause subsumes it, otherwise remove the active clauses *)
(* it subsumes, make it active, resolve it with the active clauses, thin   *)
(* the list of resolvents (newlist) out, shorten the survivors by forward  *)
(* subsumption resolution (FSR) and put them into Passive.  One action per *)
(* iteration of each of those loops.                                       *)
(***************************************************************************)
EXTENDS TemporalClauses

CONSTANTS
  UseFSR,       \* the option --FSR
  Inputs,       \* clauses a user may push in normal mode
  Candidates,   \* clauses a loop search may push after getForLoop
  MaxPush,      \* bound: clauses pushed in normal mode
  MaxLoopPush,  \* bound: clauses pushed in loop-search mode; 0 for no search
  MaxCalls      \* bound: calls of saturate in normal mode

ASSUME SaturationAssumption ==
  /\ UseFSR \in BOOLEAN
  /\ Inputs \subseteq {c \in Clauses : OneKind(c) /\ c # {} /\ IsFiniteSet(c)}
  /\ Candidates \subseteq {c \in Clauses : c = NextPart(c) /\ c # {} /\ IsFiniteSet(c)}
  /\ MaxPush \in Nat /\ MaxLoopPush \in Nat /\ MaxCalls \in Nat

VARIABLES
  pc,           \* where saturate is; "idle" when the caller has control
  mode,         \* the mode tables in force
  active,       \* Active: entries in the order "at" they were activated
  passive,      \* Passive
  todo,         \* newlist, the part not yet simplified
  kept,         \* newlist, the part that survived simplification
  working,      \* the clause under FSR, a singleton; {} otherwise
  untried,      \* the literals of working that FSR has still to try
  success,      \* the empty clause has been derived: result.first
  anythingNew,  \* result.second
  nextId,       \* Clause::id_unused
  clock,        \* number of activations so far
  pushed, calls,\* counters of the caller's operations, for the bounds
  given,        \* history: every clause pushed, or put in by getForLoop
  background,   \* history: what was pushed before the turn to loop search
  preset        \* history: the clauses getForLoop put straight into Active

searchVars == <<active, passive, todo, kept, working, untried>>
resultVars == <<success, anythingNew>>
callerVars == <<mode, pushed, calls, given, background, preset>>
vars == <<pc, searchVars, resultVars, nextId, clock, callerVars>>

Indexed == [id : Nat, lits : Clauses]
Entries == [id : Nat, lits : Clauses, at : Nat]

LitsOf(S) == {e.lits : e \in S}

\* Every clause the engine still holds, wherever it is in the loop.
Held == LitsOf(active) \cup LitsOf(passive) \cup LitsOf(todo)
          \cup LitsOf(kept) \cup LitsOf(working)

TypeOK ==
  /\ pc \in {"idle", "select", "simplify", "insert", "fsr"}
  /\ mode \in Modes
  /\ active \subseteq Entries /\ IsFiniteSet(active)
  /\ passive \subseteq Indexed
  /\ todo \subseteq Indexed
  /\ kept \subseteq Indexed
  /\ working \subseteq Indexed
  /\ untried \subseteq Literals
  /\ success \in BOOLEAN /\ anythingNew \in BOOLEAN
  /\ nextId \in Nat /\ clock \in Nat
  /\ pushed \in Nat /\ calls \in Nat
  /\ given \subseteq Clauses
  /\ background \subseteq Clauses
  /\ preset \subseteq Clauses

Init ==
  /\ pc = "idle" /\ mode = "normal"
  /\ active = {} /\ passive = {}
  /\ todo = {} /\ kept = {} /\ working = {} /\ untried = {}
  /\ success = FALSE /\ anythingNew = FALSE
  /\ nextId = 1 /\ clock = 0
  /\ pushed = 0 /\ calls = 0
  /\ given = {} /\ background = {} /\ preset = {}

-----------------------------------------------------------------------------
(***************************************************************************)
(* The orders and tests of Active and Passive.                             *)
(***************************************************************************)
\* passiveClauseComparator: weight, then leading key, then id.
SelectedBefore(c, d) ==
  LET w == Cardinality(c.lits)
      x == Cardinality(d.lits)
  IN  \/ w < x
      \/ /\ w = x
         /\ \/ KeyLess(getLeadingLiteral(c.lits), getLeadingLiteral(d.lits))
            \/ /\ Key(getLeadingLiteral(c.lits)) = Key(getLeadingLiteral(d.lits))
               /\ c.id < d.id

\* forwardSubsumption of Active and of Passive returns the id of a subsuming
\* clause, 0 for none and always 0 for the empty clause.
forwardSubsumed(S, lits) ==
  /\ lits # {}
  /\ \E e \in S : indexForward(mode, e.lits, lits)

\* Variant: the wrong way round.
backwardSubsumedReversed(S, lits) ==
  {e \in S : indexBackward(mode, e.lits, lits)}

backwardSubsumed(S, lits) ==
  {e \in S : indexBackward(mode, lits, e.lits)}

\* Variant: only clauses led by the same attribute are resolved.
PartnersOfAKind(S, lits) ==
  {e \in S : /\ Complementary(e.lits, lits)
             /\ leadingAttribute(e.lits) = leadingAttribute(lits)
             /\ resolveMaximals(mode, e.lits, lits) # {}}

\* Active::resolve: the partners of c in the order they became active.
Partners(S, lits) ==
  {e \in S : /\ Complementary(e.lits, lits)
             /\ resolveMaximals(mode, e.lits, lits) # {}}

resolve(S, lits) ==
  LET P == Partners(S, lits)
  IN  {[id   |-> nextId + Cardinality({f \in P : f.at < e.at}),
        lits |-> Merged(e.lits, lits)] : e \in P}

\* clauseSubsumes tells two clauses from one by their ids.
clauseSubsumes(c, d) ==
  c.id # d.id /\ clauseSubsumesHelper(mode, c.lits, d.lits)

\* Thinning newlist out: the first empty clause is kept and removes every
\* other resolvent; otherwise another resolvent that has not itself been
\* removed must subsume p.
innerSubsumed(p) ==
  LET others == (todo \cup kept) \ {p}
  IN  IF p.lits = {} THEN \E e \in kept : e.lits = {}
      ELSE \/ \E e \in others : e.lits = {}
           \/ \E e \in others : clauseSubsumes(e, p)

redundant(p) ==
  \/ innerSubsumed(p)
  \/ forwardSubsumed(active, p.lits)
  \/ forwardSubsumed(passive, p.lits)

-----------------------------------------------------------------------------
(***************************************************************************)
(* The caller.                                                             *)
(***************************************************************************)
\* Adaptor::push_back: a tautology is dropped, its id is spent.
Push(lits) ==
  /\ pc = "idle" /\ ~ success
  /\ IF mode = "normal" THEN pushed < MaxPush /\ lits \in Inputs
                        ELSE pushed < MaxLoopPush /\ lits \in Candidates
  /\ pushed' = pushed + 1
  /\ nextId' = nextId + 1
  /\ IF isCorrect(mode, lits)
     THEN /\ passive' = passive \cup {[id |-> nextId, lits |-> lits]}
          /\ given' = given \cup {lits}
     ELSE UNCHANGED <<passive, given>>
  /\ UNCHANGED <<pc, mode, active, todo, kept, working, untried, resultVars,
                 clock, calls, background, preset>>

Saturate ==
  /\ pc = "idle" /\ ~ success
  /\ IF mode = "normal" THEN calls < MaxCalls
                        ELSE pushed > 0 /\ calls = 0
  /\ pc' = "select"
  /\ anythingNew' = FALSE
  /\ calls' = calls + 1
  /\ UNCHANGED <<searchVars, success, nextId, clock, mode, pushed, given,
                 background, preset>>

\* Adaptor::getForLoop on the saturated set: the universal clauses are
\* rewritten to step clauses of step_next literals only, step clauses are
\* taken as they are, initial clauses stay behind.  The rewritten clauses get
\* new ids in the order of Active: by leading key, then by age.
IsUniversal(e) == areEqual("normal", leadingAttribute(e.lits), "universal")
IsStep(e)      == leadingAttribute(e.lits) = "step_next"

LoopBefore(e, f) ==
  LET k == getLeadingLiteral(e.lits)
      l == getLeadingLiteral(f.lits)
  IN  KeyLess(k, l) \/ (Key(k) = Key(l) /\ e.at < f.at)

universals == {e \in active : IsUniversal(e)}

stepForm(e) ==
  [id   |-> nextId + Cardinality({f \in universals : LoopBefore(f, e)}),
   lits |-> Retag(e.lits, "step_next"),
   at   |-> e.at]

\* Variant: universal clauses stay behind as well.
getForLoopStepsOnly == {e \in active : IsStep(e)}

getForLoop == {e \in active : IsStep(e)} \cup {stepForm(e) : e \in universals}

\* A loop search takes a copy of the set, straight into Active, and calls
\* saturate on it once.
GetForLoop ==
  /\ pc = "idle" /\ mode = "normal"
  /\ calls > 0 /\ ~ success /\ passive = {}
  /\ MaxLoopPush > 0
  /\ active' = getForLoop
  /\ nextId' = nextId + Cardinality(universals)
  /\ mode' = "loopSearch"
  /\ background' = given
  /\ given' = LitsOf(active')
  /\ preset' = given'
  /\ pushed' = 0
  /\ calls' = 0
  /\ UNCHANGED <<pc, passive, todo, kept, working, untried, resultVars, clock>>

-----------------------------------------------------------------------------
(***************************************************************************)
(* The loop of saturate.                                                   *)
(***************************************************************************)
\* Variant: the redundant clause is left in Passive.
SelectRedundantAgain(c) ==
  /\ pc = "select"
  /\ \A d \in passive \ {c} : SelectedBefore(c, d)
  /\ forwardSubsumed(active, c.lits)
  /\ UNCHANGED vars

\* Passive::select followed by the DISCOUNT redundancy test.
SelectRedundant(c) ==
  /\ pc = "select"
  /\ \A d \in passive \ {c} : SelectedBefore(c, d)
  /\ forwardSubsumed(active, c.lits)
  /\ passive' = passive \ {c}
  /\ UNCHANGED <<pc, active, todo, kept, working, untried, resultVars,
                 nextId, clock, callerVars>>

\* Select, simplify Active by the selected clause, activate it, resolve.
Activate(c) ==
  /\ pc = "select"
  /\ \A d \in passive \ {c} : SelectedBefore(c, d)
  /\ ~ forwardSubsumed(active, c.lits)
  /\ passive' = passive \ {c}
  /\ LET removed == backwardSubsumed(active, c.lits)
         now     == (active \ removed)
                      \cup {[id |-> c.id, lits |-> c.lits, at |-> clock]}
     IN  /\ active' = now
         /\ anythingNew' = (anythingNew \/ removed # {})
         /\ todo' = resolve(now, c.lits)
         /\ nextId' = nextId + Cardinality(Partners(now, c.lits))
  /\ clock' = clock + 1
  /\ pc' = "simplify"
  /\ UNCHANGED <<kept, working, untried, success, callerVars>>

\* One iteration of the loop that thins newlist out.
Simplify(p) ==
  /\ pc = "simplify"
  /\ \A q \in todo \ {p} : p.id < q.id
  /\ todo' = todo \ {p}
  /\ kept' = IF redundant(p) THEN kept ELSE kept \cup {p}
  /\ pc' = IF todo' = {} THEN "insert" ELSE "simplify"
  /\ UNCHANGED <<active, passive, working, untried, resultVars, nextId, clock,
                 callerVars>>

\* One iteration of the loop that puts what rests of newlist into Passive.
Insert(p) ==
  /\ pc = "insert"
  /\ \A q \in kept \ {p} : p.id < q.id
  /\ kept' = kept \ {p}
  /\ anythingNew' = TRUE
  /\ success' = (success \/ p.lits = {})
  /\ IF ~ success' /\ UseFSR /\ mode # "loopSearch"
     THEN /\ working' = {p}
          /\ untried' = p.lits
          /\ pc' = "fsr"
          /\ UNCHANGED passive
     ELSE /\ passive' = passive \cup {p}
          /\ UNCHANGED <<pc, working, untried>>
  /\ UNCHANGED <<active, todo, nextId, clock, callerVars>>

\* Forward subsumption resolution on one literal: if an active clause
\* subsumes the clause with l negated, l is erased.
SimplifyByFS(p, l) ==
  /\ pc = "fsr"
  /\ \A k \in untried \ {l} : LiteralLess(k, l)
  /\ untried' = untried \ {l}
  /\ LET negated == (p.lits \ {l}) \cup {negate(l)}
         shorter == [p EXCEPT !.lits = p.lits \ {l}]
     IN  IF forwardSubsumed(active, negated)
         THEN /\ working' = {shorter}
              /\ success' = (success \/ shorter.lits = {})
         ELSE UNCHANGED <<working, success>>
  /\ nextId' = nextId + 1
  /\ UNCHANGED <<pc, active, passive, todo, kept, anythingNew, clock, callerVars>>

EndFSR ==
  /\ pc = "fsr"
  /\ untried = {}
  /\ passive' = passive \cup working
  /\ working' = {}
  /\ pc' = "insert"
  /\ UNCHANGED <<active, todo, kept, untried, resultVars, nextId, clock, callerVars>>

\* No resolvent at all, or the last one has been inserted: contradiction
\* found, or back to selection.
EndIteration ==
  /\ \/ pc = "simplify" /\ todo = {}
     \/ pc = "insert" /\ kept = {}
  /\ pc' = IF success THEN "idle" ELSE "select"
  /\ UNCHANGED <<searchVars, resultVars, nextId, clock, callerVars>>

EndSaturate ==
  /\ pc = "select" /\ passive = {}
  /\ pc' = "idle"
  /\ UNCHANGED <<searchVars, resultVars, nextId, clock, callerVars>>

Step ==
  \/ \E c \in passive : SelectRedundant(c) \/ Activate(c)
  \/ \E p \in todo : Simplify(p)
  \/ \E p \in kept : Insert(p)
  \/ \E p \in working, l \in untried : SimplifyByFS(p, l)
  \/ EndFSR
  \/ EndIteration
  \/ EndSaturate

Next ==
  \/ \E lits \in Inputs \cup Candidates : Push(lits)
  \/ Saturate
  \/ GetForLoop
  \/ Step

Spec == Init /\ [][Next]_vars

\* saturate is a single thread: nothing but a signal delays its next step.
FairSpec == Spec /\ WF_vars(Step)
=============================================================================
