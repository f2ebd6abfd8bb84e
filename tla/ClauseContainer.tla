---------------------------- MODULE ClauseContainer ----------------------------
(***************************************************************************)
(* The clause set as a data structure: Active with its resolution index (a *)
(* map of vectors) and its subsumption index, Passive with its ordered set *)
(* and its subsumption index, the ids of clauses, and the nested iterators *)
(* users walk it with (filter over compound over the resolution index and  *)
(* the set).                                                               *)
(* src/src/stl_tim: clause.h, resolutionindex, clauseset; src/src/misc:    *)
(* compound_container.h, iterators.h; the walks are those of               *)
(* src/src/adaptor/stl_tim_adaptor.h.                                      *)
(*                                                                         *)
(* A subsumption index is the set ClauseIndex says it is.  A clause is a   *)
(* pointer: "ref" is the address, "id" the number the code gave it.        *)
(***************************************************************************)
EXTENDS TemporalClauses, SequencesExt

CONSTANTS
  Inputs,       \* the clauses that come in
  IdRange,      \* number of values of clauseid_t, 2^32 in the code
  MaxClauses    \* bound: clauses constructed

ASSUME ContainerAssumption ==
  /\ \A lits \in Inputs : lits \in Clauses /\ IsFiniteSet(lits) /\ lits # {} /\ OneKind(lits)
  /\ IdRange \in Nat \ {0} /\ MaxClauses \in Nat

VARIABLES
  pc,           \* "idle", "selected", "removing" or "walking"
  mode,
  made,         \* clauses constructed; id_unused is the next one's id
  index,        \* myResolutionIndex: key -> the vector of its clauses
  activeTrie,   \* Active::mySubsumptionIndex
  passive,      \* the ordered set
  passiveTrie,  \* Passive::mySubsumptionIndex
  current,      \* the selected clause, a singleton; {} otherwise
  doomed,       \* active clauses found by backward subsumption
  at, last,     \* the two ends of a walk
  selector,     \* the predicate of its filter
  visited,      \* history: the clauses it came to
  arrived       \* the clauses of Active, oldest first, as every list of a node has them

activeVars == <<index, activeTrie, arrived>>
passiveVars == <<passive, passiveTrie>>
walkVars == <<at, last, selector, visited>>
vars == <<pc, mode, made, activeVars, passiveVars, current, doomed, walkVars>>

AllKeys == Prop \X BOOLEAN
End     == <<>>

leading(p)   == Key(getLeadingLiteral(p.lits))
before(j, k) == KeyLess([prop |-> j[1], neg |-> j[2]], [prop |-> k[1], neg |-> k[2]])
first(K)     == IF K = {} THEN End ELSE CHOOSE k \in K : \A j \in K : ~ before(j, k)

\* Somewhere in the sequence s, x is before y.
Precedes(s, x, y) == \E i, j \in DOMAIN s : i < j /\ s[i] = x /\ s[j] = y

\* Clause::Clause: get_unused_id counts from 1 and, with the assertion
\* compiled away, through 0 after the last id.
Clause(lits) == [ref |-> made + 1, id |-> (made + 1) % IdRange, lits |-> lits]

-----------------------------------------------------------------------------
(***************************************************************************)
(* The resolution index and the ordered set.                               *)
(***************************************************************************)
insertIndex(p) ==
  [k \in DOMAIN index \cup {leading(p)} |->
     (IF k \in DOMAIN index THEN index[k] ELSE <<>>) \o
     (IF k = leading(p) THEN <<p>> ELSE <<>>)]

\* Variant: the emptied vector stays in the map.
removeIndexOnly(p) ==
  IF leading(p) \notin DOMAIN index THEN index
  ELSE [index EXCEPT ![leading(p)] = RemoveFirst(@, p)]

\* remove: the vector is searched for the pointer; an emptied one goes.
removeIndex(p) ==
  IF leading(p) \notin DOMAIN index THEN index
  ELSE LET left == RemoveFirst(index[leading(p)], p)
       IN  [k \in DOMAIN index \ (IF left = <<>> THEN {leading(p)} ELSE {}) |->
              IF k = leading(p) THEN left ELSE index[k]]

\* Variant: the id does not take part.
passiveLessKey(p, q) ==
  LET w == Cardinality(p.lits)
      x == Cardinality(q.lits)
  IN  w < x \/ (w = x /\ before(leading(p), leading(q)))

\* passiveClauseComparator
passiveLess(p, q) ==
  LET w == Cardinality(p.lits)
      x == Cardinality(q.lits)
  IN  \/ w < x
      \/ w = x /\ before(leading(p), leading(q))
      \/ w = x /\ leading(p) = leading(q) /\ p.id < q.id

\* std::set::insert leaves the set alone when it has an equivalent element.
insertSet(p) ==
  IF \E q \in passive : ~ passiveLess(p, q) /\ ~ passiveLess(q, p)
  THEN passive ELSE passive \cup {p}

\* *begin() as a singleton, the successor of an element; {} is end().
setBegin    == {p \in passive : \A q \in passive \ {p} : passiveLess(p, q)}
setAfter(p) == LET above == {q \in passive : passiveLess(p, q)}
               IN  {q \in above : \A r \in above \ {q} : passiveLess(q, r)}

-----------------------------------------------------------------------------
(***************************************************************************)
(* The operations of the clause set.                                       *)
(***************************************************************************)
Init ==
  /\ pc = "idle" /\ mode \in Modes /\ made = 0
  /\ index = [k \in {} |-> <<>>] /\ activeTrie = {} /\ arrived = <<>>
  /\ passive = {} /\ passiveTrie = {}
  /\ current = {} /\ doomed = {}
  /\ at = <<>> /\ last = <<>> /\ selector = "all" /\ visited = <<>>

activate(p) ==
  /\ index' = insertIndex(p)
  /\ activeTrie' = activeTrie \cup {p}
  /\ arrived' = Append(arrived, p)

\* Adaptor::push_back; saturate puts its resolvents into Passive likewise.
PushBack(lits) ==
  /\ pc = "idle" /\ made < MaxClauses
  /\ made' = made + 1
  /\ IF isCorrect(mode, lits)
     THEN /\ passive' = insertSet(Clause(lits))
          /\ passiveTrie' = passiveTrie \cup {Clause(lits)}
     ELSE UNCHANGED passiveVars
  /\ UNCHANGED <<pc, mode, activeVars, current, doomed, walkVars>>

\* getForLoop puts its clauses straight into Active.
ToFirst(lits) ==
  /\ pc = "idle" /\ made < MaxClauses
  /\ made' = made + 1
  /\ activate(Clause(lits))
  /\ UNCHANGED <<pc, mode, passiveVars, current, doomed, walkVars>>

Select ==
  /\ pc = "idle" /\ passive # {}
  /\ current' = setBegin
  /\ passive' = passive \ setBegin
  /\ passiveTrie' = passiveTrie \ setBegin
  /\ pc' = "selected"
  /\ UNCHANGED <<mode, made, activeVars, doomed, walkVars>>

\* Active::forwardSubsumption gives the id of a clause, or 0.  At a node the
\* test gives the id of the first clause of the list that subsumes p, and the
\* walk of the trie goes on when that id is 0.
forwardSubsumption(p) ==
  LET subsuming == {d \in activeTrie : indexForward(mode, d.lits, p.lits)}
      hidden(d) == \E e \in subsuming : /\ Keys(Path(e.lits)) = Keys(Path(d.lits))
                                       /\ Precedes(arrived, e, d)
  IN  {d.id : d \in {d \in subsuming : ~ hidden(d)}} \ {0}

Discard(p) ==
  /\ pc = "selected" /\ current = {p}
  /\ forwardSubsumption(p) # {}
  /\ current' = {} /\ pc' = "idle"
  /\ UNCHANGED <<mode, made, activeVars, passiveVars, doomed, walkVars>>

\* Active::backwardSubsumption: the trie lets the clauses go, then they are
\* taken out of the resolution index one by one.
BackwardSubsumption(p) ==
  /\ pc = "selected" /\ current = {p}
  /\ forwardSubsumption(p) = {}
  /\ doomed' = {d \in activeTrie : indexBackward(mode, p.lits, d.lits)}
  /\ activeTrie' = activeTrie \ doomed'
  /\ pc' = "removing"
  /\ UNCHANGED <<mode, made, index, arrived, passiveVars, current, walkVars>>

RemoveDoomed(d) ==
  /\ pc = "removing"
  /\ index' = removeIndex(d)
  /\ doomed' = doomed \ {d}
  /\ arrived' = RemoveFirst(arrived, d)
  /\ UNCHANGED <<pc, mode, made, activeTrie, passiveVars, current, walkVars>>

Activate(p) ==
  /\ pc = "removing" /\ doomed = {} /\ current = {p}
  /\ activate(p)
  /\ current' = {} /\ pc' = "idle"
  /\ UNCHANGED <<mode, made, passiveVars, doomed, walkVars>>

-----------------------------------------------------------------------------
(***************************************************************************)
(* Walks.  A resolution_const_iterator is a position in the map, "key",    *)
(* and one in a vector, "pos"; its "endPos" is the vector position of the  *)
(* map's end(), read from no vector at all.  A compound_iterator adds the  *)
(* position in the set and says which half it is in.                       *)
(***************************************************************************)
Garbage == {<<End, 0>>, <<End, 1>>}

\* getForLoop and dump walk over everything; the loop candidate is what
\* passes IsStepNextFalse.
Selectors == {"all", "nextFalse"}

selects(p) == selector = "nextFalse" => leadingAttribute(p.lits) = "step_now"

\* Variant: the vector positions are compared at the end of the map too.
samePositionPlain(i) == i.key = End /\ i.pos = i.endPos

\* current_first == first_end: at the end of the map the vector positions do
\* not count.
samePosition(i) == i.key = End

\* The constructor of the compound iterator and its ++ move on to the
\* second half as soon as the first is at its end.
started(i) ==
  IF i.first /\ samePosition(i)
  THEN [i EXCEPT !.first = FALSE, !.second = setBegin] ELSE i

beginnings ==
  {[first |-> TRUE, key |-> first(DOMAIN index), pos |-> x, endPos |-> e, second |-> setBegin] :
     x \in IF index = <<>> THEN Garbage ELSE {<<first(DOMAIN index), 1>>},
     e \in Garbage}

endOf(i) == [i EXCEPT !.first = FALSE, !.key = End, !.pos = i.endPos, !.second = {}]

\* Two compound iterators are equal if they are in the same half at the same
\* position of it; an end is always in the second.
atEnd == ~ at.first /\ at.second = last.second

deref(i) == IF i.first THEN index[i.pos[1]][i.pos[2]] ELSE CHOOSE p \in i.second : TRUE

\* ++ of the resolution index: at the end of its vector the next key's, or
\* none, and then the vector position stays behind.
nextInIndex(i) ==
  LET k == i.key
      n == i.pos[2] + 1
      j == first({l \in DOMAIN index : before(k, l)})
  IN  CASE n <= Len(index[k])           -> [i EXCEPT !.pos = <<k, n>>]
        [] n > Len(index[k]) /\ j # End -> [i EXCEPT !.key = j, !.pos = <<j, 1>>]
        [] n > Len(index[k]) /\ j = End -> [i EXCEPT !.key = j, !.pos = <<k, n>>]

advanced(i) ==
  IF i.first THEN started(nextInIndex(i))
  ELSE [i EXCEPT !.second = UNION {setAfter(p) : p \in i.second}]

Walk(s) ==
  /\ pc = "idle" /\ pc' = "walking"
  /\ \E i \in beginnings : at' = started(i) /\ last' = endOf(i)
  /\ selector' = s /\ visited' = <<>>
  /\ UNCHANGED <<mode, made, activeVars, passiveVars, current, doomed>>

\* satisfy: the filter passes over what its predicate rejects, in its
\* constructor and after every ++.
Satisfy ==
  /\ pc = "walking" /\ ~ atEnd
  /\ ~ selects(deref(at))
  /\ at' = advanced(at)
  /\ UNCHANGED <<pc, mode, made, activeVars, passiveVars, current, doomed, last, selector, visited>>

Visit ==
  /\ pc = "walking" /\ ~ atEnd
  /\ selects(deref(at))
  /\ visited' = Append(visited, deref(at))
  /\ at' = advanced(at)
  /\ UNCHANGED <<pc, mode, made, activeVars, passiveVars, current, doomed, last, selector>>

EndWalk ==
  /\ pc = "walking" /\ atEnd
  /\ pc' = "idle" /\ at' = <<>> /\ last' = <<>> /\ visited' = <<>>
  /\ UNCHANGED <<mode, made, activeVars, passiveVars, current, doomed, selector>>

Next ==
  \/ \E lits \in Inputs : PushBack(lits) \/ ToFirst(lits)
  \/ Select
  \/ \E p \in current : Discard(p) \/ BackwardSubsumption(p) \/ Activate(p)
  \/ \E d \in doomed : RemoveDoomed(d)
  \/ \E s \in Selectors : Walk(s)
  \/ Satisfy \/ Visit \/ EndWalk

Spec == Init /\ [][Next]_vars
-----------------------------------------------------------------------------
(***************************************************************************)
(* Properties.                                                             *)
(***************************************************************************)
\* Until the ids wrap, 0 is the id of no clause.
Pointers ==
  [ref : 1 .. made, lits : Inputs,
   id : IF made < IdRange THEN 1 .. made ELSE 0 .. IdRange - 1]

ContainerTypeOK ==
  /\ pc \in {"idle", "selected", "removing", "walking"}
  /\ mode \in Modes /\ made \in 0 .. MaxClauses
  /\ DOMAIN index \subseteq AllKeys
  /\ \A k \in DOMAIN index : index[k] \in Seq(Pointers)
  /\ activeTrie \subseteq Pointers /\ passive \subseteq Pointers
  /\ passiveTrie \subseteq Pointers
  /\ current \subseteq Pointers /\ Cardinality(current) <= 1
  /\ doomed \subseteq Pointers
  /\ selector \in Selectors
  /\ visited \in Seq(Pointers) /\ arrived \in Seq(Pointers)

\* The variables have their types, and the two indexes of Active, updated at
\* different moments, hold the same clauses, also after clause ids have come
\* round: each once, in the vector of its leading literal, oldest first, and
\* no vector is empty (begin(), ++ and getComplementary rely on all of this).
ActiveConsistent ==
  /\ ContainerTypeOK
  /\ activeTrie \cup doomed = ToSet(arrived) /\ activeTrie \cap doomed = {}
  /\ IsInjective(arrived)
  /\ \A k \in AllKeys :
       LET here == {p \in ToSet(arrived) : leading(p) = k}
       IN  IF here = {} THEN k \notin DOMAIN index
           ELSE /\ k \in DOMAIN index /\ ToSet(index[k]) = here
                /\ \A p, q \in here : Precedes(index[k], p, q) <=> Precedes(arrived, p, q)

\* What is put into Passive is there until it is selected: as long as no id
\* was given twice, the comparator takes no two clauses for one.  Release
\* builds drop the assertion that guards the last id, and from then on only
\* the index is sure to hold what was put in.
PassiveKeeps ==
  /\ passive \subseteq passiveTrie
  /\ made <= IdRange => passive = passiveTrie

\* The iterator is not at the end of its vector, map or set.
dereferenceable(i) ==
  IF i.first THEN /\ i.key \in DOMAIN index /\ i.pos[1] = i.key
                  /\ i.pos[2] \in 1 .. Len(index[i.key])
             ELSE i.second # {} /\ i.second \subseteq passive

\* The order of the clause set: those of Active by leading key and, within a
\* key, by age, then those of Passive.
earlier(p, q) ==
  \/ p \in activeTrie /\ q \in passive
  \/ /\ p \in activeTrie /\ q \in activeTrie
     /\ \/ before(leading(p), leading(q))
        \/ leading(p) = leading(q) /\ Precedes(arrived, p, q)
  \/ p \in passive /\ q \in passive /\ passiveLess(p, q)

\* A walk comes to the clauses of the set that its filter lets through once
\* each and in this order, to all of them if it goes on to the end, and never
\* dereferences an end, whatever memory the ends of an empty map are read
\* from.
WalkExact ==
  pc = "walking" =>
    /\ \A i, j \in DOMAIN visited : i < j => earlier(visited[i], visited[j])
    /\ ~ atEnd => dereferenceable(at)
    /\ ToSet(visited) = {p \in activeTrie \cup passive :
                           selects(p) /\ (atEnd \/ earlier(p, deref(at)))}
=============================================================================
