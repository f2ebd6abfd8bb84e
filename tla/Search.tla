-------------------------------- MODULE Search --------------------------------
(***************************************************************************)
(* The prover (src/src/prover/search.h) and what it drives: augmentation   *)
(* and temporal resolvents (temporal_resolution/classicalrule.h), the      *)
(* breadth-first loop search (loop_search/loopsearch.h) and, underneath    *)
(* both, the clause set of module Saturation.                              *)
(*                                                                         *)
(* Saturation holds one clause set.  A loop search works on its own copies *)
(* while the prover's clause set rests: it is kept in saved, and base is   *)
(* the copy every iteration of the loop search starts from.                *)
(***************************************************************************)
EXTENDS Saturation, Sequences

CONSTANTS
  Symbols,        \* the symbol ids of the problem
  Eventualities,  \* eventuality clauses a problem may have
  MaxEventualities, \* bound: eventuality clauses in a problem
  DFS,            \* the option --DFS: back to the first eventuality on success
  UsePretest      \* the option --pretest

Plain == [prop : Symbols, neg : BOOLEAN, attr : {"universal"}]

ASSUME SearchAssumption ==
  /\ Symbols \subseteq Prop /\ IsFiniteSet(Prop)
  /\ \A lits \in Inputs : \A l \in lits : l.prop \in Symbols
  /\ \A n \in Prop \ Symbols, m \in Symbols : m < n
  /\ Cardinality(Prop \ Symbols) >= MaxEventualities
  /\ Eventualities \subseteq [present : SUBSET Plain, eventuality : Plain]
  /\ MaxEventualities \in Nat
  /\ DFS \in BOOLEAN /\ UsePretest \in BOOLEAN

VARIABLES
  stage,        \* where search is: what it does when saturate returns
  events,       \* elist: the eventuality clauses in the order of the input
  turn,         \* the eventuality clause the inner loop is at
  somethingNew,
  saved,        \* the clauses of the prover's set during a loop search
  base,         \* LoopList::myClauseSet
  loop,         \* the LoopList: the candidate, a sequence of clauses
  loopFound,    \* myLoopFound of the last loop search
  verdict,      \* what search returned; "none" before
  since,        \* history: clock when temporal resolvents were last added
  unreported    \* history: in this round saturate activated a temporal
                \* resolvent and returned with anythingNew still false

proverVars == <<stage, events, turn, somethingNew, verdict, since, unreported>>
loopVars   == <<saved, base, loop, loopFound>>
allVars    == <<vars, proverVars, loopVars>>

Stages == {"reading", "step", "augmented", "eventualities", "candidate",
           "iterated", "found", "resolved", "done"}

SearchInit ==
  /\ Init
  /\ stage = "reading" /\ verdict = "none"
  /\ events = <<>> /\ turn = 0
  /\ somethingNew = FALSE /\ since = 0 /\ unreported = FALSE
  /\ saved = {} /\ base = {} /\ loop = <<>> /\ loopFound = FALSE

-----------------------------------------------------------------------------
(***************************************************************************)
(* Building clauses.                                                       *)
(***************************************************************************)
make_uclause(lits)      == Retag(lits, "universal")
make_sclause(now, next) == Retag(now, "step_now") \cup Retag(next, "step_next")

\* Several push_back in a row: ids in order, tautologies dropped.
Pushed(seq) ==
  {[id |-> nextId + i - 1, lits |-> seq[i]] :
      i \in {j \in DOMAIN seq : isCorrect(mode, seq[j])}}

\* The call of saturate, whatever was called before it.
CallSaturate ==
  /\ pc' = "select"
  /\ anythingNew' = FALSE
  /\ success' = FALSE

\* saturate has returned.
Back(at) == pc = "idle" /\ stage = at

\* The eventuality literals, sorted and made unique.  The order ignores the
\* sign; literals that differ in sign only stay in the order of the input.
\* Each literal is taken once.  The code drops equal neighbours only, so that
\* of p, ~p, p the literal p stays twice; its second augmentation clause is
\* the first one again, which covers it.
EventualityLiterals == {events[i].eventuality : i \in DOMAIN events}

FirstAt(l) ==
  CHOOSE i \in DOMAIN events :
    events[i].eventuality = l /\ \A j \in 1..(i - 1) : events[j].eventuality # l

SortedBefore(k, l) == k.prop < l.prop \/ (k.prop = l.prop /\ FirstAt(k) < FirstAt(l))

sortedEventualities ==
  [i \in 1..Cardinality(EventualityLiterals) |->
     CHOOSE l \in EventualityLiterals :
       Cardinality({k \in EventualityLiterals : SortedBefore(k, l)}) = i - 1]

\* Variant: the next symbol but one.
makeLiteralBeyond(l) ==
  [prop |-> Cardinality(Symbols) + 1 +
              (CHOOSE i \in DOMAIN sortedEventualities : sortedEventualities[i] = l),
   neg |-> FALSE, attr |-> "universal"]

\* TemporalRule::makeLiteral: the symbol w_l, interned after all the others
\* when augmentation first asks for it.
makeLiteral(l) ==
  [prop |-> CHOOSE n \in Prop :
              Cardinality({m \in Prop \ Symbols : m <= n}) =
                (CHOOSE i \in DOMAIN sortedEventualities : sortedEventualities[i] = l),
   neg |-> FALSE, attr |-> "universal"]

-----------------------------------------------------------------------------
(***************************************************************************)
(* Reading the problem, and the first two saturations.                     *)
(***************************************************************************)
AddClause(lits) ==
  /\ stage = "reading" /\ events = <<>>
  /\ Push(lits)
  /\ UNCHANGED <<proverVars, loopVars>>

\* make_eclause keeps the present part as a universal clause, with an id.
AddEventuality(e) ==
  /\ stage = "reading" /\ Len(events) < MaxEventualities
  /\ events' = Append(events, e)
  /\ nextId' = nextId + 1
  /\ UNCHANGED <<pc, searchVars, resultVars, clock, callerVars, stage, turn,
                 somethingNew, verdict, since, unreported, loopVars>>

StartSearch ==
  /\ stage = "reading"
  /\ stage' = "step"
  /\ CallSaturate
  /\ UNCHANGED <<searchVars, nextId, clock, callerVars, events, turn,
                 somethingNew, verdict, since, unreported, loopVars>>

\* search returns.
Return(answer) ==
  /\ stage' = "done" /\ verdict' = answer
  /\ UNCHANGED <<vars, events, turn, somethingNew, since, unreported, loopVars>>

Contradiction ==
  /\ \E at \in {"step", "augmented", "resolved"} : Back(at)
  /\ success
  /\ Return("Unsatisfiable")

augmentation ==
  [i \in DOMAIN sortedEventualities |->
     LET l == sortedEventualities[i]
     IN  make_sclause({negate(makeLiteral(l))}, {l, makeLiteral(l)})]
  \o
  [i \in DOMAIN events |->
     make_uclause(events[i].present \cup
                    {events[i].eventuality, makeLiteral(events[i].eventuality)})]

Augment ==
  /\ Back("step") /\ ~ success
  /\ stage' = "augmented"
  /\ passive' = passive \cup Pushed(augmentation)
  /\ nextId' = nextId + Len(augmentation)
  /\ CallSaturate
  /\ UNCHANGED <<active, todo, kept, working, untried, clock, callerVars, events,
                 turn, somethingNew, verdict, since, unreported, loopVars>>

-----------------------------------------------------------------------------
(***************************************************************************)
(* The main loop.                                                          *)
(***************************************************************************)
\* The pretest asks for each eventuality clause whether its present part has
\* a literal that resolves with no leading literal of Active.  The flag it
\* computes is true before the test and is only ever set to true, so the
\* branch that returns Satisfiable on it is never taken.
notMaximal(lits) ==
  \E l \in lits : \A e \in active : Key(getLeadingLiteral(e.lits)) # Key(negate(l))

StartRound ==
  /\ \/ Back("augmented") /\ ~ success
     \/ stage = "eventualities" /\ turn > Len(events) /\ somethingNew
  /\ stage' = "eventualities"
  /\ turn' = 1
  /\ somethingNew' = FALSE
  /\ unreported' = FALSE
  /\ UNCHANGED <<vars, events, verdict, since, loopVars>>

NothingNew ==
  /\ stage = "eventualities" /\ turn > Len(events) /\ ~ somethingNew
  /\ Return("Satisfiable")

\* LoopList: getForLoop takes what it needs of the set, rewritten.  Making a
\* clause set puts the mode back to normal; search turns it to loop search.
inLoopOrder(S) ==
  [i \in 1..Cardinality(S) |->
     CHOOSE e \in S : Cardinality({f \in S : LoopBefore(f, e)}) = i - 1]

LoopSearch ==
  /\ stage = "eventualities" /\ turn \in DOMAIN events
  /\ stage' = "candidate"
  /\ saved' = active
  /\ base' = getForLoop
  /\ nextId' = nextId + Cardinality(universals) + 1
  /\ loop' = <<{}>>
  /\ loopFound' = FALSE
  /\ mode' = "loopSearch"
  /\ UNCHANGED <<pc, searchVars, resultVars, clock, pushed, calls, given, background,
                 preset, events, turn, somethingNew, verdict, since, unreported>>

\* Variant: the eventuality literal is added to the first candidate only.
stepClausesFirst ==
  [i \in DOMAIN loop |->
     make_sclause({}, IF loop[i] = {} THEN {events[turn].eventuality} ELSE loop[i])]

\* The eventuality literal itself is added to every clause of the candidate.
stepClauses ==
  [i \in DOMAIN loop |-> make_sclause({}, loop[i] \cup {events[turn].eventuality})]

\* One iteration of inferenceBFS up to the call of saturate, on a fresh copy.
LoopIteration ==
  /\ stage = "candidate" /\ pc = "idle" /\ loop # <<>>
  /\ active' = base
  /\ passive' = Pushed(stepClauses)
  /\ nextId' = nextId + Len(stepClauses)
  /\ stage' = "iterated"
  /\ CallSaturate
  /\ UNCHANGED <<todo, kept, working, untried, clock, callerVars, events, turn,
                 somethingNew, verdict, since, unreported, loopVars>>

\* next_false_as_universal: the step_now clauses of Active, in its order.
nextFalse ==
  LET S == inLoopOrder({e \in active : leadingAttribute(e.lits) = "step_now"})
  IN  [i \in DOMAIN S |-> S[i].lits]

\* Variant: the wrong way round.
subsumesOrEqualSwapped(first, second) ==
  \A i \in DOMAIN first :
    {j \in DOMAIN second : clauseSubsumesHelper(mode, second[j], first[i])} # {}

subsumesOrEqual(first, second) ==
  \A j \in DOMAIN second : \E i \in DOMAIN first :
    clauseSubsumesHelper(mode, first[i], second[j])

NextCandidate ==
  /\ Back("iterated") /\ ~ success
  /\ nextFalse # <<>>
  /\ ~ subsumesOrEqual(nextFalse, loop)
  /\ stage' = "candidate"
  /\ loop' = nextFalse
  /\ UNCHANGED <<vars, events, turn, somethingNew, verdict, since, unreported, saved, base,
                 loopFound>>

\* The search ends: a loop in true, no loop, or the candidate has come back.
\* LoopList::search restores the mode and the copies of the set go away.
LoopReturns ==
  /\ Back("iterated")
  /\ \/ success /\ loop' = <<>> /\ loopFound' = TRUE
     \/ ~ success /\ nextFalse = <<>> /\ loop' = <<>> /\ loopFound' = FALSE
     \/ ~ success /\ nextFalse # <<>> /\ subsumesOrEqual(nextFalse, loop)
        /\ loop' = nextFalse /\ loopFound' = TRUE
  /\ stage' = IF loopFound' THEN "found" ELSE "eventualities"
  /\ turn' = IF loopFound' THEN turn ELSE turn + 1
  /\ mode' = "normal"
  /\ active' = saved /\ passive' = {}
  /\ saved' = {} /\ base' = {}
  /\ success' = FALSE /\ anythingNew' = FALSE
  /\ UNCHANGED <<pc, todo, kept, working, untried, nextId, clock, pushed, calls, given,
                 background, preset, events, somethingNew, verdict, since, unreported>>

\* Variant: the present part of the eventuality clause is forgotten.
temporalResolventsBare ==
  LET e    == events[turn]
      notw == negate(makeLiteral(e.eventuality))
      L    == IF loop = <<>> THEN <<{}>> ELSE loop
  IN  [i \in 1..(2 * Len(L)) |->
        IF i % 2 = 1 THEN make_sclause({notw}, L[(i + 1) \div 2] \cup {e.eventuality})
                     ELSE make_uclause(L[i \div 2] \cup {e.eventuality})]

\* generateResolvents: two clauses for each clause of the loop, or for the
\* empty clause when the loop is in true.
temporalResolvents ==
  LET e    == events[turn]
      notw == negate(makeLiteral(e.eventuality))
      L    == IF loop = <<>> THEN <<{}>> ELSE loop
  IN  [i \in 1..(2 * Len(L)) |->
        IF i % 2 = 1 THEN make_sclause({notw}, L[(i + 1) \div 2] \cup {e.eventuality})
                     ELSE make_uclause(L[i \div 2] \cup {e.eventuality} \cup e.present)]

generateResolvents ==
  /\ stage = "found"
  /\ stage' = "resolved"
  /\ mode' = "normal"
  /\ passive' = passive \cup Pushed(temporalResolvents)
  /\ nextId' = nextId + Len(temporalResolvents)
  /\ CallSaturate
  /\ since' = clock
  /\ UNCHANGED <<active, todo, kept, working, untried, clock, pushed, calls, given,
                 background, preset, events, turn, somethingNew, verdict, unreported,
                 loopVars>>

\* After the saturation with the temporal resolvents.
NextEventuality ==
  /\ Back("resolved") /\ ~ success
  /\ somethingNew' = (somethingNew \/ anythingNew)
  /\ turn' = IF anythingNew /\ DFS THEN Len(events) + 1 ELSE turn + 1
  /\ unreported' = (unreported \/ (~ anythingNew /\ clock > since))
  /\ stage' = "eventualities"
  /\ UNCHANGED <<vars, events, verdict, since, loopVars>>

\* A step of saturate on the clause set in use.
SaturateStep ==
  /\ Step
  /\ UNCHANGED <<proverVars, loopVars>>

ProverStep ==
  \/ StartSearch \/ Augment \/ StartRound \/ NothingNew \/ Contradiction
  \/ LoopSearch \/ LoopIteration \/ NextCandidate \/ LoopReturns
  \/ generateResolvents \/ NextEventuality
  \/ SaturateStep

Finished == stage = "done" /\ UNCHANGED allVars

SearchNext ==
  \/ \E lits \in Inputs : AddClause(lits)
  \/ \E e \in Eventualities : AddEventuality(e)
  \/ ProverStep
  \/ Finished

SearchSpec == SearchInit /\ [][SearchNext]_allVars

\* One thread runs: the builder stops reading at some point, and from then on
\* nothing but a signal delays the prover.
FairSearchSpec == SearchSpec /\ WF_allVars(ProverStep)
=============================================================================
