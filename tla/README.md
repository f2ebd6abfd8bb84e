# TRP++ in TLA+

TRP++ decides propositional linear-time temporal logic. A problem is a set of
clauses in separated normal form (SNF): *initial* clauses speak of the first
moment, *universal* clauses of every moment, *step* clauses of a moment and its
successor, *eventuality* clauses say "at every moment: C, or sometime l". The
program answers `Unsatisfiable` or `Satisfiable`. It is one thread with a signal handler;
what makes it hard is less concurrency than long sequences of small destructive
steps (clauses are removed, shortened, rewritten; tree nodes are deleted under the
walk that deletes them), tests whose meaning depends on a global mode, and
completeness arguments that rest on what an earlier step left behind.

Paths below are relative to the repository; `stl_tim/x` is short for
`src/src/stl_tim/x`.

## The system

| component | state | operations | interacts with |
|---|---|---|---|
| clause data (`stl_tim/attribute, literal, clause, symbol`) | symbol ids, the global mode tables | order, equality, compatibility, attribute transformers | everything |
| inference rules (`stl_tim/infer`) | none | `resolveMaximals`, `clauseSubsumes` | called by the clause set and the adaptor |
| subsumption index (`stl_tim/subsumptionindex`) | a trie of clause paths | insert, remove, forward and backward search | one in Active, one in Passive, one per list of resolvents |
| resolution index (`stl_tim/resolutionindex`) | clauses by leading literal | insert, remove, lookup, iteration | Active |
| clause set (`stl_tim/clauseset, stl_tim`) | Active, Passive, the list of resolvents | `saturate` | called through the adaptor |
| adaptor, TRIM (`src/src/adaptor`, `src/src/trim`) | the operation mode, the eventuality clauses | `push_back`, `saturate`, `getForLoop`, clause constructors, selecting iterators, `subsumesOrEqual`, `notMaximal` | prover, loop search, builder |
| temporal resolution (`src/src/temporal_resolution`) | none | augmentation, temporal resolvents | prover |
| loop search (`src/src/loop_search`) | its own copy of a clause set, the candidate | `search` | prover, saturate |
| prover (`src/src/prover`) | the clause set, `somethingNew` | `search` | all of the above |
| builder and parser (`src/src/builder`) | the clauses read, symbol ids by first mention | one operation per grammar rule | clause set |
| containers (`src/src/misc/compound_container.h, iterators.h`) | positions in the resolution index and in Passive | nested iterators over both | adaptor, loop search |
| interrupts and timer (`src/src/interrupthandler.h`, `src/src/misc/timer.h`) | the pending signal, the times | handler, polling, report and question | prover, saturate |
| options, main | flags, the answer printed | checks, catch clauses, output | all of the above |
| statistics, tracing | counters, output | | |

What makes them correct, and what is hard to test:

* the rules are sound, and rewriting attributes moves no literal to another moment;
* redundancy elimination (five different places in `saturate`) loses nothing;
* the given-clause loop skips no inference although clauses vanish around it;
* the answer of `saturate` is right, and in loop-search mode it computes the right
  projection;
* a loop search finds the loop if there is one, from a copy of the set in which half
  of each universal clause is missing;
* the prover terminates with the right answer;
* the trie of the subsumption index answers like a set of clauses, though its walks
  delete nodes and map links while callers further up hold iterators to them;
* the two indexes of Active and the two of Passive never part, and a nested iterator
  comes to every clause once, also when one half is empty and its end is read from
  no memory at all;
* what is read from the files is what is searched, in the order of propositions asked
  for, and every wrong file is refused;
* no signal is lost, kills the search or spoils the times reported.

`PROJECT.json` lists the hazards at their lines.

## The modules

| module | what it is |
|---|---|
| `TemporalClauses` | attributes, mode tables, literals, clauses, resolution, subsumption, the tests of the index; no state |
| `Saturation` | `ClauseSet::saturate` and the calls made on a clause set: a state machine, one action per loop iteration of the code |
| `SNFSemantics` | reference: transition semantics of SNF clauses, satisfiability, entailment |
| `SaturationMeaning` | properties of `Saturation` that need the semantics, and the refinement of `Deduction` |
| `Deduction` | abstract specification of a clause set: draw entailed conclusions, forget what the rest covers |
| `SaturationProofs` | theorems about what `Saturation` keeps, concludes and finds, and that it implements `Deduction` |
| `OrderLemmas` | lemmas on orders and on the front of a sorted clause, for the proof modules |
| `Search` | the prover: reads a problem, augments it, searches for loops, adds temporal resolvents; extends `Saturation` and drives it |
| `TemporalSemantics` | reference: satisfiability with eventualities |
| `SearchMeaning` | properties of `Search` |
| `LoopMeaning` | the exact loop, computed by repeated steps on the graph of moments, and the property that the search finds it |
| `SearchProofs` | theorems about the answers of the prover and the loops it finds |
| `SubsumptionIndex` | the trie and its four recursive walks, one call, loop turn or return a step |
| `ClauseIndex` | abstract specification of a subsumption index: a set of clauses that answers one call at a time |
| `SubsumptionIndexProofs` | theorems about the trie, and that it implements `ClauseIndex` |
| `SortedClauses` | the algorithms on sorted vectors: making a clause, `isCorrect`, subsumption, the merge of a resolvent, one loop turn a step |
| `SortedClausesProofs` | theorems about these algorithms: they compute what `TemporalClauses` says of sets |
| `ClauseContainer` | Active, Passive, ids of a bounded width, the resolution index and the nested iterators as data structures |
| `ClauseContainerProofs` | theorems about Passive and the ids, the two indexes of Active, and the walks |
| `FrontEnd` | `main`: options, order file and input, the grammar, the builder, symbol ids, what is printed |
| `FrontEndProofs` | theorems about what `FrontEnd` accepts, orders and builds |
| `Interrupts` | signals, their processing, the timer |
| `InterruptsProofs` | theorems about `Interrupts` |
| `MCSaturation`, `MCSearch`, `MCSubsumptionIndex`, `MCSortedClauses`, `MCClauseContainer`, `MCFrontEnd` | the instances TLC checks |

`Saturation` uses the indexes as predicates over sets of clauses. That the trie is
such a set is what `SubsumptionIndex` shows (it implements `ClauseIndex`, stated with
the same predicates), and that Active and Passive are one set of clauses each, however
their indexes and ids work, is what `ClauseContainer` shows. `FrontEnd` ends where
`Search` begins: the clauses it pushes are the problems `Search` reads. `Interrupts`
takes the search as any sequence of poll points.

### Abstractions

* A clause is the set of its literals. The code keeps a sorted vector without
  duplicates; in the other modules the merge in `resolveMaximals` and the walks in
  `infer.cc` are the set they compute and the test they decide, and `SortedClauses`
  shows that they are. `getLeadingLiteral` is the maximum
  of the literal order, as `front()` is.
* A proposition is its symbol id, because the code orders literals by it.
* `transform` folds the ten transformer classes into one definition by cases; outside
  their tables the value is `"AttributeException"`, which no clause may contain
  (`TypeOK`).
* Everything that reads the global tables takes the mode as an argument.
* In `Saturation` the two indexes are predicates (`indexForward`, `indexBackward`,
  `Partners`): which clauses a search returns, by the path a clause is stored under
  (`Path`), the stretches of the query that are walked (`Stretches`) and the test at a
  node. `ClauseContainer` keeps the subsumption indexes as sets.
* In `Saturation` ids order resolvents and break ties in `Passive`, and are unbounded;
  their width (`clauseid_t`, 32 bits) is the constant `IdRange` of `ClauseContainer`.
* A file is a sequence of pieces (order section, opening, clause, closing, something
  the scanner does not know); where exactly inside a clause a file ends or goes wrong
  is not told apart, every such place is a syntax error.
* Tracing, statistics and clause info strings are left out.

### Saturation

`pc` is the place in the code: `idle` (the caller has control), `select` (top of the
`while`), `simplify` (the loop over `newlist`), `insert` (the loop that fills Passive),
`fsr` (the loop over the literals of one clause). The local variables `newlist`,
`current`, `success`, `anythingNew` are `todo`, `kept`, `working`, `untried`,
`success`, `anythingNew`. Actions: `Push`, `Saturate` and `GetForLoop` are the
caller's; `SelectRedundant` and `Activate` one iteration of selection, the latter with
backward subsumption, activation and resolution in one atomic step as nothing can
happen between them; `Simplify`, `Insert`, `SimplifyByFS`, `EndFSR` one iteration each;
`EndIteration`, `EndSaturate` the exits. `given`, `background`, `preset`, `clock` are
history variables.

### Search

`stage` is the place in `Prover::search` and `LoopList::search`. The variables of
`Saturation` are the clause set in use: during a loop search, which works on copies,
the prover's own clauses rest in `saved`, `base` is the copy each iteration starts
from, `loop` the candidate. A problem is read clause by clause, first clauses, then
eventualities (the code keeps them in separate containers, so the order between the
two kinds does not matter). `since` and `unreported` are history variables: they say
whether, in the current round, a saturation activated a temporal resolvent and still
returned `anythingNew = FALSE`. The eventuality literals and the clauses of a candidate
are put into the order in which the code iterates over them by counting the elements
before each (`SortedBefore`). Each eventuality literal is augmented once: of `p, ~p, p`
`std::unique` would keep `p` twice, because the sort ignores the sign, and its augmentation
clause would be pushed a second time, where the first covers it.

A model of a problem (`SatisfiableProblem`) is not a single run but a set `W` of
moments: a moment is a valuation with the eventuality clauses owed there, from every
moment of `W` there is a step inside `W`, and no part of `W` in which one eventuality
is owed throughout keeps all its steps to itself (`Runs`). For finitely many moments
that is the same as one run that pays everything it owes.

### SubsumptionIndex

A node of the trie is the set of keys on the way to it, `trie` gives its list of clauses
and its counter of branches; what hangs under what is then a matter of inclusion
(`Under`). `stack` holds the calls of the recursion, each with its node, the rest of the
query, and the position of its iterator (`at`, a key or `End`). `Call` starts an
operation; `Begin` is the first call of a walk (a forward search with a step clause
walks twice); `InsertLink` and `InsertData` are the recursion of `insert`;
`EnterRemove`, `EnterBackward`, `EnterForward`, `Hit` what a call does before its loop;
`PassOver` and `Descend` a turn of the loop; `Return` the return, with the deletion of
the child if it is dead (`prune`) and the advance of the caller's iterator
(`continued`); `Finish` returns to the user. The iterator of `backwardSubsumes` is
advanced past a link before the link is erased; `continued` reads the map after the
deletion, and `FramesLive` says that this is the same.

### SortedClauses

A behaviour is one call. `MaintainStructure` sorts a list (in any of the orders
`std::sort` may give literals that differ in sign only), `DropEqual` is a turn of
`std::unique`, which drops equal neighbours; `CheckNeighbours` is the loop of `isCorrect`. `CompareSizes` chooses the walk, `WalkAsIs`
is `implementationDependentSubsumesHelper`, `WalkAsNext`, `SkipNext` and `WalkAsNow` are
the loops of the "ugliest case". `CheckConditions`, `Merge` and `TakeRest` are
`resolveMaximals`.

### ClauseContainer

`index` maps a leading key to the vector of its clauses, `activeTrie`, `passive` and
`passiveTrie` are the other three structures. `BackwardSubsumption` takes clauses out
of the trie, `RemoveDoomed` takes them out of the resolution index one by one, as
`Active::backwardSubsumption` does; in between the two differ by `doomed`. `passive` is
a `std::set`: an element equivalent under `passiveClauseComparator` is not inserted. A
walk is a pair of compound iterators `at` and `last`; the vector position of an end is
read from the map's `end()`, so it is any value (`Garbage`), and the model checks that
none of them matters.

### FrontEnd

`pc` is the place in `main`, `place` the place in the grammar, `ahead` what is left of
the file `trp_yyin`. `BuildAtom` is `build_atom`, one step for each atom of the piece in
front (`atoms` are done), so the table of symbols grows from left to right although the
lists of literals are put together from the right; then the rule of the whole piece is
reduced (`reduce`, with one action per rule). `Wrap` is `trp_yywrap`, which goes from the order file to the
input. The scanner hands on -1 for a character it does not know, which to the parser is
the end of the input: after the closing of the formula anything may follow. An
`Exception` ends the program with exit code 0, a string with 1.

### Interrupts

`Deliver` is the arrival of a signal between any two steps, so also between the read
(`TakeRead`) and the write (`TakeClear`) of `takeSignal`. `StopTimer`, `StartTimer` and
`Answer` are `processSignal`; the timer runs while the user is asked. The clock is that
of `ftime` with `K` ticks a second; it is assumed not to be set back. At the end of
standard input the answer is an uninitialised `char`, so it is any.

## The runs

| run | instance | what it shows |
|---|---|---|
| `saturation` | 2 propositions, any 3 of 14 clauses in any order, one of them a tautology, 2 calls, then a loop candidate of up to 2 clauses; FSR, fair | `TypeOK`, `WellFormed`, `Sound`, `NothingLost`, `ResolventsKept`, `ActiveReduced`, `Verdict`, `Monotone` in both modes, `Projection` and `ImplementsDeduction` across the turn, and every call returns (`Returns`) |
| `search_breadth` | 2 propositions and 2 new ones, any 2 of 7 clauses, up to 2 of 4 eventualities in any order, BFS, FSR | `UnsatisfiableIsRight`, `SatisfiableIfReported`, `LoopExact`, `Shrinks`, `Terminates` |
| `search_depth` | any 3 of 6 clauses, up to 2 of 3 eventualities, DFS, no FSR | the answers and termination in the default selection order, and the engine without FSR |
| `search_saturated` | as `search_breadth` | **violation** of `SatisfiableIsRight` |
| `search_pretest` | as `search_breadth` with `--pretest` | **violation** of `PretestDecides` |
| `index` | 8 clauses over 3 propositions whose paths share, extend and complement each other, three of them step clauses; any sequence of calls | `TrieShape`, `FramesLive`, `NoDeadNode`, the refinement `ImplementsClauseIndex`, every call returns |
| `container` | 5 clauses, 4 constructed, 3 ids, so that they wrap | the two indexes of Active agree, Passive loses nothing before the ids wrap, walks are exact and dereference no end |
| `frontend` | 3 names; right and wrong files of up to 6 pieces, with and without order file, every right and some wrong command lines | what is accepted, built and ordered; the program ends, with one answer exactly if the formula was closed or an empty initial clause read |
| `frontend_order` | the same inputs behind an order file `order(c,a).` | **violation** of `OrderedAsDescribed` |
| `frontend_orderfile` | as `frontend`, with an order file | **violation** of `OrderFileOnlyOrder` |
| `interrupts` | 2 ticks a second, 5 ticks, 3 signals | the timer, the questions, no killed search, what is recorded is reported |
| `sorted` | 277 clauses over 3 propositions in pairs, all lists of 3 literals over 2 | the walks over vectors compute what the definitions on sets say (`WalksDecide`), in order (`InDescendingOrder`) |

The bounds. Two propositions already give every pair of attributes, complementary
tails, factoring, clauses that shrink to the empty clause and resolvents that differ
in the present part only; the pools hold every kind of clause in a form that resolves
with, subsumes or is shortened by another of the pool. Three pushed clauses reach
resolvents of resolvents, removal of an active clause by a later one, and FSR in
chains; two calls show a set saturated again after more clauses, as the prover does.
Two eventualities are what it takes for a round in which one brings something the
other needs. In a loop search two clauses in a candidate are the first that can
subsume one another. Without FSR the verdict of a single call is proved
(`SaturateDecides`, for both values of `UseFSR`) and exercised by `search_depth`, whose
answers rest on it. `CHECK_DEADLOCK FALSE` stands in the run `saturation`, where the
bounds on the caller's operations stop the system, and only there.

The index run has no bound on the number of calls: with eight clauses every subset
that can be held is reached and every call is made on it. Three keys are the shortest
path on which a deletion goes on through a node with another branch. Four constructed
clauses give a vector of two, two keys, two clauses in Passive at once, and with three
ids a fourth clause that has the id of the first. Three signals are one taken and one
that overwrites another; five ticks cross a full second twice. In `sorted` universal
clauses have up to three literals and step clauses up to five, so that both parts of
a merge and both cases of the subsumption of a step clause take several turns.

Fairness is weak fairness of the code's own steps (`Step`, `ProverStep`): a single
thread runs on. In `Interrupts` it is that of the program's own steps and, at the end
of standard input, of the answer: nobody makes a user answer. Nothing obliges a caller
to call, or a problem to end being read before `StartSearch`; the latter is a step of
the prover.

### What the runs found

* **`Satisfiable` for unsatisfiable problems** (`search_saturated`). `saturate` reports
  `anythingNew` when an active clause was removed (`stl_tim/stl_tim.cc:79`) or a
  resolvent went into Passive (line 303). A temporal resolvent that becomes active
  without either leaves the flag false; `search` takes that as "nothing new" and stops
  (`src/src/prover/search.h:244-262`), although the next loop search would use the new
  clause. In clauses over 1 and 2: `1 or not 2 or next 2`; `next not 1`;
  `sometime 2`; `not 2 or sometime not 2`. From the next moment on 1 is false and so
  2, once true, stays; the eventualities demand that it becomes true and then false.
  `SatisfiableIfReported` is what does hold: without an unreported clause the answer
  is right.
* **The pretest does nothing** (`search_pretest`): its flag is initialised to true and
  only ever set to true (`src/src/prover/search.h:136, 164`). `PretestDecides` is about
  problems with eventuality clauses; in the trace the one there is fails the test, and
  the round begins all the same.
* **The order of propositions is the reverse of the documented one** (`frontend_order`):
  `order(P1,P3,P2)` makes `P2` the greatest, the appendix of the book
  (`src/doc/BookAppendix.tex:512-516`) says `P1`, and without an order section it says that
  propositions descend in the order of appearance. `OrderedAsDescribed` states it of the
  literal that leads a clause, which is what resolution works on; `IdsByFirstMention` says
  what ids the code gives.
* **An order file may begin the formula** (`frontend_orderfile`): "Order file may not
  contain anything but order sentance" (`src/src/builder/trp/parse.y:83`) is checked when a
  whole formula is reduced, and the end of the order file has cleared the flag by then
  (line 216), so the input may complete what the order file began. `AcceptedIsProblem` is
  about the two files read as one.

Read in the code while modelling, and kept visible in what the passing properties
say and do not say:

* Ids wrap: in a release build the assertion over the last id is empty
  (`stl_tim/clause.h:57`, `src/src/misc/assert.h:64`); two clauses of one id, weight and
  leading literal are then one to Passive, and a clause with id 0 hides those behind it
  in its list of the trie from forward subsumption (`forwardSubsumption`). `PassiveKeeps`
  promises equality only while no id was given twice.
* An empty universal or step clause passes the check for the empty clause, which only
  `build_initial` makes (`src/src/builder/builder.h:277`); selecting one reads the front of
  an empty vector, which is undefined. `FrontEnd` builds such clauses as the code does and
  `AcceptedIsProblem` excludes empty initial clauses only; the engine's modules assume
  that none is pushed (`SaturationAssumption`).
* `takeSignal` reads and then clears (`src/src/interrupthandler.h:59`): a signal in
  between is forgotten. `RecordedIsReported` says that something is reported, not
  that every signal is.

## The proofs

`SaturationProofs` proves for all symbols, clauses, options and bounds:

| theorem | property | in words |
|---|---|---|
| `TypeCorrect` | `TypeOK` | type correctness; no attribute pair outside the transformer's tables is ever resolved |
| `LosesNothing` | `NothingLost` | every clause pushed, or put in by getForLoop, stays covered |
| `KeepsResolvents` | `ResolventsKept` | no inference between active clauses is missing |
| `StaysReduced` | `ActiveReduced` | Active is reduced with respect to later clauses |
| `NeverForgets` | `Monotone` | no step drops what the rest does not cover |

The assumptions are those of the modules: symbols are naturals (`PropAssumption`);
users push finite non-empty clauses of one kind, loop searches push clauses of
`step_next` literals (`SaturationAssumption`), which is what the adaptor's constructors
make.

The argument. Covering (`Covers`) is the reference notion of redundancy: inclusion, or
inclusion after moving a clause that speaks of every moment. `Covers` is transitive.
The lemmas `SubsumesCovers`, `ForwardCovers` and `BackwardCovers` show that each of
the three subsumption tests of the code implies covering, on the clauses the engine
can hold. So every removal replaces a clause by one that covers it (`StepCovers`), and
coverage of the given clauses is preserved (`CoverageKept`). None of the properties is
inductive alone. The tests imply covering only for clauses of one kind, the rules may
be applied only to non-empty ones, and what an action may rely on depends on where the
loop is; so `IInv` adds to `TypeOK` the conjunct `Shape`: every clause held is of one
kind, Active holds no empty clause and the clauses waiting are empty only after a
contradiction, what is active was activated before the current clock value, and each
of the loop's work lists is empty outside its part of the loop. `ResolventsKept` is
preserved because a pair of active clauses is either old, and then its resolvent is
covered and stays so, or new, and then it has just been resolved (`PairsStep`, which
serves for the copies of a loop search too). `ActiveReduced` is preserved because backward subsumption runs
before every activation (`ActiveReducedNext`). `Invariance` proves `Spec => []IInv`
with one step per action, and the theorems follow from it.

Its second part is about soundness, under the same assumptions:

| theorem | property | in words |
|---|---|---|
| `SaturateSound` | `Sound` | every clause held is entailed by the clauses given |
| `ContradictionIsRight` | | a contradiction is reported only if the clauses given have no model |
| `StaysWellFormed` | `WellFormed` | clauses keep one kind, and the attribute the engine tests is that of the clause |
| `SaturateDeduces` | `ImplementsDeduction` | every step concludes what is entailed, or forgets what the rest covers |

The argument. A literal of an attribute is true at one of the two moments of a
transition (`HoldsAtMoment`), so an attribute transformer is sound when it leaves each
literal at the moment the premises speak of. `ResolveEntails` distinguishes the
resolvents that speak of one moment (`ResolvePresent`) from those of a step
(`ResolveStep`), where a universal premise may be read at the next moment because that
moment is one of the model too. A clause shortened by forward subsumption resolution
is a cut (`CutEntails`): with the literal reversed it is covered by a clause held, with
the literal as it is it is itself, and covering implies entailment (`CoversEntails`).
`StepConcludes` puts this together for every step, for any set that entails what is
held. Then `Sound` is preserved, but again not alone: the premises have to be of
one kind (`IInv`), correct also in normal mode (`Correct`; a universal clause rewritten
for a loop search must not turn out a tautology) and finite (`AllFinite`), or a sorted
vector of their literals need not have a front (`HasFront`). `Refuted` says that the
empty clause behind a contradiction is still held; as it is entailed, there is no
model. `MInv` is the conjunction. For the refinement `Deduction`'s set is `Held` and its
models are those of `SNFSemantics`: `StepD` maps a step of the loop to a conclusion
(by `StepConcludes`) and a forgetting (by `StepCovers`) at once, `PushD` and `LoopD` map
the caller's operations.

Its last part is about completeness, again for every set of propositions and every pool
of clauses:

| theorem | property | in words |
|---|---|---|
| `SaturateDecides` | `Verdict` | `saturate` reports a contradiction exactly if the clauses given have no model |
| `SaturateProjects` | `Projection` | in loop-search mode the clauses about the present are falsified exactly by the moments without a successor |

The argument. `GroundModel` is the completeness of resolution on leading literals for
clauses over finitely many ordered symbols: if what any two clauses that meet in a
symbol leave has a part that is there too, and the empty clause is not there, some
valuation satisfies all. It needs no induction over data: of the symbols at which every
valuation that is right below must fail there would be a least one, two clauses would
meet there, and what they leave would fail below. `FrontModel` says the same of clauses
with a front. From it `NextMoment` makes a successor for a moment, as a model of what
the step clauses leave to the next moment; `AlivePresent` concludes that the moments with
a successor are those that the clauses about the present allow, `SaturatedModel` that a
saturated set without the empty clause has a model. What the set was given is covered
by what is left, and so has the same models (`CoveringModels`); deletion needs no argument
of its own beyond `NothingLost` and `ResolventsKept`. For the projection the difficulty is
what the code leaves out: `getForLoop` rewrites a universal clause for the next moment
only and drops initial clauses, and the copies are not resolved with one another again.
`CInv` adds to `MInv` what the copies are (`LoopForms`, `GivenForms`), that everything held
is true on every step the clauses given allow (`LoopSound`), and that a resolvent of two
copies is covered or true at every moment that a run passes (`PresetResolved`), which is
shown when the mode turns, from `ResolventsKept` of the set copied (`CopiesResolve`,
`CopiesCovered`).

`SearchProofs` proves for every problem, every set of symbols and every combination of
the options:

| theorem | property | in words |
|---|---|---|
| `SearchTypeCorrect` | `SearchTypeOK` | type correctness of the whole prover |
| `UnsatisfiableRight` | `UnsatisfiableIsRight` | `Unsatisfiable` is answered only if the problem has no model |
| `SatisfiableRight` | `SatisfiableIfReported` | `Satisfiable` is right when the last round left no temporal resolvent unreported |
| `LoopIsLoop` | | what a loop search returns is a loop: no run leaves it, and from the second moment on the eventuality literal is false |
| `LoopHasAll` | | and it is the largest: every such set of moments that runs pass lies in it; without a loop there is none |
| `LoopIsExact` | `LoopExact` | so the loop is the one that repeated steps on the graph of moments compute |
| `CandidatesShrink` | | of the moments that runs pass, the next candidate has exactly those whose successors are all in this one with the literal false |

Assumed is `SearchAssumption` besides those of `Saturation`: finitely many symbols, those
of the problem above the others, and one of the others for each eventuality clause.

The argument. `SInv` is the types with `Shape` of the saturation and with what each stage
has (`Control`): where the prover's clauses are, which mode is set, of what form the
candidate is. The steps of `saturate` keep the rest as it is (`StepRuns`), so one lemma
per stage is left.

*Soundness.* `LoopInv` follows a loop search: the copies hold wherever the prover's
clauses do (`CopyOK`), and so does all that an iteration concludes, but for steps that
lead to a moment of the candidate without the eventuality literal (`IterationOK`); when
the new candidate subsumes the old one, the loop is closed (`LoopIsLoop`). `RightInv` says
that everything held is true in every model of the problem in which the new symbols are
true where an eventuality is owed: the model is a set of pairs of successive moments with
the set of its first moments (`Models`); a temporal resolvent is true there because of its
loop (`ResolventsHold`), and resolution adds consequences only (`ConcClosed`). The lemmas
up to `ProblemModel` turn a model in the sense of `SatisfiableProblem` into such a one
by adding the names of what is owed to its moments (`NamedMoment`), so no problem with a
model is refuted.

*Completeness.* `OwnInv` is about the prover's own clauses, wherever they rest: they
cover what was given, what augmentation added, the step clauses of the resolvents of the
loop just found, and the resolvents of the active ones. `SearchingInv` says what a loop
search works with; with the completeness of saturation it gives `IterationComplete`: a
moment whose every successor is in the candidate, with the literal false, is in the next
candidate. So no moment of a loop is ever lost (`IterationHasAll`). `RoundInv` puts the
searches of a round together. If nothing new was reported and nothing is unreported, no
clause became active while saturating with the resolvents of a loop; so the clauses in
which that loop was found are the clauses still, they cover its resolvents, and no part
of the runs owes an eventuality for ever (`DebtSettled`: such a part would lie in the loop,
where the resolvents forbid to owe). `ModelProblem` turns the runs of a saturated set of
this kind back into a model of the problem. `unreported` cannot be dropped: the run
`search_saturated` shows why.

*The reference of `LoopExact`.* `Persistent` and `NeverAfter` repeat a step that takes
moments away, as often as there are moments. `Repeating` shows that this defines a
function, and `RepeatedEnough` that it ends at the largest set the step leaves as it is:
each step either changes nothing, and then none after it does, or makes the set smaller.
With `PersistentAlive` and `NeverAfterIs`, `LoopFoundIs` compares that set with the loop,
one inclusion from `LoopInv` and the other from `HasAll` in `RoundInv`.

`SubsumptionIndexProofs` proves for every set of propositions,
every set of clauses and any number of calls:

| theorem | property | in words |
|---|---|---|
| `IndexImplements` | `ImplementsClauseIndex` | the trie and its four walks are a set of clauses that answers one call at a time |
| `IndexKeepsShape` | `TrieShape` | nodes hang together, the counters are the numbers of links, every clause is where remove looks for it |
| `IndexFramesLive` | `FramesLive` | no call stands at a deleted node, no iterator at an erased link |
| `IndexNoDeadNode` | `NoDeadNode` | between calls nothing empty is left over |
| `IndexTypeCorrect` | `IndexTypeOK` | type correctness |

Assumed are `PropAssumption` and `ItemsAssumption`: a clause in an index is finite, not
empty, of one kind, without complementary literals, and has an id above 0.

The argument. A node may be deleted only when the call for it returns, so what has to
be known is where the suspended calls stand. The invariant `IInv` is `Shape` of the
trie with `StackOK` (each frame stands at a node, its iterator at a live link, and the
frame above it at the end of that link), `ControlOK`, `WalksOK`, `RootOK` and `InsertOK`
(which part of the query each call has still to read), and `DeadOK`: while a walk runs,
only nodes on the path of the stack may be empty, and `Return` deletes them one by one.
`LinkShape` and `PruneShape` carry the counters over an insertion and a deletion;
`ContinuedOK` shows that advancing the iterator of the caller after the deletion gives
what advancing it before gives. The refinement mapping takes what is in the trie
together with what a running search has taken out. Its invariant `RInv` says that a
search is complete as far as it has come: every clause that the call should find is
already collected, or is still ahead (`Ahead`), under a link that a frame of the stack
has not passed or at the end of a walk not begun, and nothing is collected that is not
sought. The order of the keys is what makes this work: `PassOverR` and `ContinuedAt`
show that no clause sought lies under a link the iterators skip. At `Finish` nothing is
ahead, so the answer is that of the set.

`InterruptsProofs` and `ClauseContainerProofs` prove, for every resolution of the clock,
any number of signals and every width of clause ids:

| theorem | property | in words |
|---|---|---|
| `TimesExactly` | `TimerExact` | the timer has the time from start to stop without the printing |
| `AsksForInterrupts` | `AskedForInterrupt` | every question has a SIGINT of its own |
| `SurvivesSignals` | `NeverKilledSearching` | no signal kills a guarded program |
| `PassiveLosesNothing` | `PassiveKeeps` | no two clauses are one to Passive until the ids wrap |
| `ActiveStaysConsistent` | `ActiveConsistent` | the two indexes of Active hold the same clauses, each once, oldest first, and no vector is empty |
| `WalksExactly` | `WalkExact` | a walk with the nested iterators comes to every clause it should, once, in order, and dereferences no end |

The times: seconds and milliseconds taken apart give the difference (`Difference`,
division with remainder); `TimerOK` says that the timer runs exactly in the parts of
the program in which time counts, and has what was counted. The questions: a SIGINT
is counted once, as taken or as recorded (`MovesOn`); `HandledOK` is needed here too,
because a signal that killed the program between the read and the clear of
`takeSignal` would leave both. `PassiveLosesNothing`: size, leading key and id are
compared in this order, keys are totally ordered, so different ids are enough
(`IdsDecide`); until the wrap the ids in the set are those given (`IdsGiven`). The real
width, 2^32, is an instance that no run could reach.

The indexes: `Indexes` relates the map of vectors to the clauses of Active in the order
of their arrival; `InsertIndexes` and `RemoveIndexes` show what `push_back` and the search
for a pointer do to it, and why a vector that is emptied has to go. The invariant
`ContainerInv` needs that a clause is in one place only (`Apart`: pointers are compared,
and the same pointer may not be activated twice) and that any two clauses of Passive are
in order, also after the ids have wrapped (`InOrder`: an equivalent clause is not
inserted). The walks: `Position` says where an iterator can be, and `Passed` which clauses
are before it; `WalkAdvancesFirst` and `WalkAdvancesSecond` show that `++` passes exactly
the clause it stood at, within a vector, from a vector to the next one, from the map to
the set, and in the set. What an empty map's ends are read from does not occur in either,
so it cannot matter.

`FrontEndProofs` proves for every finite set of identifiers, all files and command lines:

| theorem | property | in words |
|---|---|---|
| `IdsInOrder` | `IdsByFirstMention` | the types; ids are 1 to their number, in the order of first mention across order file and input |
| `AcceptsProblems` | `AcceptedIsProblem` | what reaches the prover was, the two files read as one, one well-formed problem, closed in the input file |
| `BuildsExactly` | `BuiltExact` | the prover is given the clauses read, as they are meant, in order, without tautologies, and every eventuality clause with the literal it owes |

Assumed is `FrontEndAssumption`: a file is a sequence of pieces, and there are as many ids
as names. The argument. `Reads` is what every step needs to know of the files. `IdInv` adds
to `IdsByFirstMention` that different names have different ids; a step interns one atom
(`MentionedAtom`, and all earlier mentions come before it, `MentionedBefore`), or reduces a
piece whose atoms were all interned (`MentionedReduced`), or touches neither
(`MentionedStays`). From it come the facts about clauses: every name of a piece that
is reduced has an id (`HeadKnown`), and two literals of a list are complementary as built
exactly if they are as written (`ListCorrect`), so that `push_back` drops the tautologies
and nothing else (`KeptIs`). `Grammar` says for each place of the grammar what has been
read, and that the formula is only closed outside the order file. `BuiltInv` says that
the clause set and the eventuality clauses list the pieces read (`lists`): a clause behind
the others extends the list by a later place (`ListAppends`, `OneMorePiece`), and a new
symbol changes nothing because the names read before keep their ids (`MeaningStays`).

`SortedClausesProofs` proves for every set of propositions, all lists of literals and all
clauses held, in both modes:

| theorem | property | in words |
|---|---|---|
| `WalksRight` | `WalksDecide` | the walks over sorted vectors compute what `TemporalClauses` says of sets of literals |
| `VectorsInOrder` | `InDescendingOrder` | what they put together is in strict order, so "attempt to insert into a wrong place!" is never printed |

Assumed is `SortedAssumption`: lists and clauses have literals of one kind, clauses are
finite. The argument. Literals of one kind are in a strict weak order (`WeakOrder`), and
those that it leaves in one place are the same or contrary (`KindPlaces`); that is why
neighbours are enough. There is one invariant for each call. `Building`: what is kept of
the sorted list has the literals passed (`KeptOf`), and no two neighbours passed are
contrary; `NeighboursDecide` takes this to all pairs, since a pair in one place has
nothing but literals of that place between it. `Subsuming`: of two vectors, the literals
of the first that are passed are matched, and those that are left match nothing passed in
the second (`Walked`), for the relation the walk decides: the same literal in the mode
(`SameIn`), or the same moved to an attribute (`MovedTo`). `AsIsTurn` and `MovedTurn` say
what the order gives at each turn. The second of the two walks begins where the first
left the iterator of the second vector, and that is right because only `step_next`
literals were passed. `Resolving`: the resolvent has the transformed literals passed and
lies above all that are left (`MergedSoFar`); the transformers, where they change
attributes at all, give all literals of a clause the same one, so each half stays in order
(`MovedInOrder`), and in what is put together the places still tell the same and contrary
literals (`MergedIs`).

Only model-checked. Out of the prover's reach is liveness under fairness (`Returns`,
`Terminates`, `CallReturns`, `EndsWithAnswer`, `RecordedIsReported`). Not proved here:
`Shrinks` for the valuations that no run passes (`CandidatesShrink` proves it for the others).
`PretestDecides`, `SatisfiableIsRight`, `OrderedAsDescribed` and `OrderFileOnlyOrder` are
refuted.

## Not modelled

* `DFKrule.h` and `Passive::backwardSubsumption`: called by nobody. `stl_tim/alternatives`:
  older versions, in no build file.
* Statistics, tracing, exception classes, clause info strings: output only. The order of
  a dump is that of a walk in `ClauseContainer`.
* The copy constructor of the trie copies a value; it has no action. `operator--` of the
  compound iterator is used nowhere.
* Command-line splitting (generated by gengetopt) and the tables of flex and bison: the
  grammar and the token rules are modelled from their sources.
* Memory exhaustion, I/O errors after a file is open, a clock set back.

## Plan

What could come next: `Shrinks` also for the valuations that no run passes, which needs the
clauses about the present of two successive candidates compared literally; the safety part
of `EndsWithAnswer` (the exit code belongs to the answer printed); and a theorem that the
clause set of `ClauseContainer` implements the sets of `Saturation`, so far related by
`ActiveConsistent` and `WalkExact`.
