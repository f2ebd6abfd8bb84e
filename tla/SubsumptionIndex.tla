--------------------------- MODULE SubsumptionIndex ---------------------------
(***************************************************************************)
(* The trie of SubsumptionIndex (stl_tim/subsumptionindex.h and .cc): the  *)
(* recursive walks of insert, remove, forwardSubsumes and backwardSubsumes *)
(* one call, one turn of a loop and one return at a time, with the map     *)
(* iterators they keep over the nodes that are deleted under them.         *)
(*                                                                         *)
(* A path is read in the order of the sorted clause, from the greatest key *)
(* down, so a node is the set of the keys above it and {} is the root.  A  *)
(* query is read the same way: of what is left of it, startPosition is the *)
(* greatest key.  A position in a map of links is a key, or End.  A clause *)
(* is a pointer: its literals and an id.                                   *)
(***************************************************************************)
EXTENDS TemporalClauses, Sequences

CONSTANT Items

Operations == {"insert", "remove", "forward", "backward"}

ASSUME ItemsAssumption ==
  \A c \in Items :
    /\ c.id \in Nat \ {0}
    /\ c.lits \in Clauses /\ c.lits # {} /\ IsFiniteSet(c.lits)
    /\ OneKind(c.lits)
    /\ \A m \in Modes : isCorrect(m, c.lits)

VARIABLES
  mode,        \* of the tables the tests read; an index lives in one mode
  trie,        \* node -> the clauses of its list and its count of branches
  op,          \* the call under way
  query,       \* its clause, as a singleton; {} before the first call
  walks,       \* the stretches of the query not walked yet
  stack,       \* the calls of the recursion
  collected,   \* clauses found: myBackwardSubsumptionList, or the first hit
  answer       \* what the last call returned

vars == <<mode, trie, op, query, walks, stack, collected, answer>>

-----------------------------------------------------------------------------
(***************************************************************************)
(* Keys, nodes and links.                                                  *)
(***************************************************************************)
AllKeys == Prop \X BOOLEAN
End     == <<>>

before(j, k) ==
  KeyLess([prop |-> j[1], neg |-> j[2]], [prop |-> k[1], neg |-> k[2]])

least(K)    == IF K = {} THEN End ELSE CHOOSE k \in K : \A j \in K \ {k} : before(k, j)
greatest(K) == IF K = {} THEN End ELSE CHOOSE k \in K : \A j \in K \ {k} : before(j, k)

\* y lies under x, or is x.
Under(x, y) == x \subseteq y /\ \A k \in y \ x, j \in x : before(k, j)

Nodes    == DOMAIN trie
next(x)  == {k \in AllKeys : k \notin x /\ Under(x, x \cup {k}) /\ x \cup {k} \in Nodes}
Contents == UNION {trie[x].data : x \in Nodes}

Node     == [data |-> {}, branches |-> 0]
dead(x)  == trie[x].branches = 0 /\ trie[x].data = {}

\* Variant: the new branch is not counted.
linkUncounted(x, k) ==
  IF x \cup {k} \in Nodes THEN trie
  ELSE [y \in Nodes \cup {x \cup {k}} |-> IF y \in Nodes THEN trie[y] ELSE Node]

\* next.insert: the link k of x, made if it is not there.
link(x, k) ==
  IF x \cup {k} \in Nodes THEN trie
  ELSE [y \in Nodes \cup {x \cup {k}} |->
          CASE y = x \cup {k} -> Node
            [] y = x          -> [trie[x] EXCEPT !.branches = @ + 1]
            [] OTHER          -> trie[y]]

\* Variant: a dead node stays when its parent has other branches.
pruneOnlyChild(x, y) ==
  IF ~ (dead(y) /\ trie[x].branches = 1) THEN trie
  ELSE [z \in {z \in Nodes : ~ Under(y, z)} |->
          IF z = x THEN [trie[x] EXCEPT !.branches = @ - 1] ELSE trie[z]]

\* Variant: the branch is counted down whether or not it is deleted.
pruneCountAlways(x, y) ==
  IF ~ dead(y) THEN [trie EXCEPT ![x].branches = @ - 1]
  ELSE [z \in {z \in Nodes : ~ Under(y, z)} |->
          IF z = x THEN [trie[x] EXCEPT !.branches = @ - 1] ELSE trie[z]]

\* What a caller at x does after its call at y: a dead node is deleted, and
\* its destructor deletes what lies under it.
prune(x, y) ==
  IF ~ dead(y) THEN trie
  ELSE [z \in {z \in Nodes : ~ Under(y, z)} |->
          IF z = x THEN [trie[x] EXCEPT !.branches = @ - 1] ELSE trie[z]]

-----------------------------------------------------------------------------
Init ==
  /\ mode \in Modes
  /\ trie = [x \in {} |-> Node]
  /\ op = "idle" /\ query = {}
  /\ walks = <<>> /\ stack = <<>>
  /\ collected = {} /\ answer = {}

\* The stretches of the clause an operation walks, in order.
Walks(o, lits) ==
  IF o = "forward" /\ leadingAttribute(lits) = "step_next"
  THEN <<Keys(NextPart(lits)), Keys(NowPart(lits))>>
  ELSE <<Keys(Path(lits))>>

\* Active, Passive and saturate never insert a clause twice.  An empty
\* clause enters one only where saturate is about to return it as the
\* contradiction, and nothing is asked of that index again.
Call(o, c) ==
  /\ op = "idle"
  /\ o = "insert" => c \notin Contents
  /\ op' = o
  /\ query' = {c}
  /\ walks' = Walks(o, c.lits)
  /\ answer' = {}
  /\ UNCHANGED <<mode, trie, stack, collected>>

frame(x, K) == [node |-> x, rest |-> K, at |-> End, entered |-> FALSE]
top         == stack[Len(stack)]
moved(k)    == [stack EXCEPT ![Len(stack)] = [@ EXCEPT !.at = k, !.entered = TRUE]]

\* The first call of a walk.  insert makes the root when there is none, the
\* others return at once.
Begin ==
  /\ stack = <<>> /\ walks # <<>>
  /\ walks' = Tail(walks)
  /\ IF op = "insert" \/ {} \in Nodes
     THEN stack' = <<frame({}, Head(walks))>>
     ELSE stack' = stack
  /\ trie' = IF op = "insert" /\ {} \notin Nodes THEN [x \in {{}} |-> Node] ELSE trie
  /\ UNCHANGED <<mode, op, query, collected, answer>>

-----------------------------------------------------------------------------
(***************************************************************************)
(* insert.                                                                 *)
(***************************************************************************)
InsertLink ==
  /\ op = "insert" /\ stack # <<>> /\ top.rest # {}
  /\ LET k == greatest(top.rest)
     IN  /\ trie' = link(top.node, k)
         /\ stack' = <<frame(top.node \cup {k}, top.rest \ {k})>>
  /\ UNCHANGED <<mode, op, query, walks, collected, answer>>

InsertData(c) ==
  /\ op = "insert" /\ stack # <<>> /\ top.rest = {}
  /\ query = {c}
  /\ trie' = [trie EXCEPT ![top.node].data = @ \cup {c}]
  /\ stack' = <<>>
  /\ op' = "idle"
  /\ UNCHANGED <<mode, query, walks, collected, answer>>

-----------------------------------------------------------------------------
(***************************************************************************)
(* The recursion of the others: what a call does before its loop, ...      *)
(***************************************************************************)
take(found) ==
  /\ trie' = [trie EXCEPT ![top.node].data = @ \ found]
  /\ collected' = collected \cup found

\* remove: the clause is looked for where its path ends; there is at most
\* one link to follow.
EnterRemove(c) ==
  /\ op = "remove" /\ stack # <<>> /\ ~ top.entered
  /\ query = {c}
  /\ IF top.rest = {} THEN take(trie[top.node].data \cap {c})
                      ELSE UNCHANGED <<trie, collected>>
  /\ stack' = LET k == greatest(top.rest)
              IN  moved(IF k \in next(top.node) THEN k ELSE End)
  /\ UNCHANGED <<mode, op, query, walks, answer>>

\* ++i
after(x, k) == least({j \in next(x) : before(k, j)})

\* Variant: upper_bound, the link with the key itself is missed.
firstBackwardAbove(x, K) ==
  IF K = {} THEN least(next(x))
  ELSE after(x, greatest(K))

\* The first link of the loop of backwardSubsumes: any once the query is
\* read to its end, else lower_bound(startPosition), skipping the complement.
firstBackward(x, K) ==
  LET k   == greatest(K)
      low == least({j \in next(x) : ~ before(j, k)})
  IN  IF K = {} THEN least(next(x))
      ELSE IF low # End /\ low # k /\ low[1] = k[1] THEN after(x, low) ELSE low

EnterBackward(c) ==
  /\ op = "backward" /\ stack # <<>> /\ ~ top.entered
  /\ query = {c}
  /\ IF top.rest = {}
     THEN take({d \in trie[top.node].data : backwardTestData(mode, c.lits, d.lits)})
     ELSE UNCHANGED <<trie, collected>>
  /\ stack' = moved(firstBackward(top.node, top.rest))
  /\ UNCHANGED <<mode, op, query, walks, answer>>

\* --i: the reverse iterator of forwardSubsumes.
backFrom(x, k) == greatest({j \in next(x) : before(j, k)})

firstForward(x, K) ==
  IF K = {} THEN End ELSE greatest({j \in next(x) : ~ before(greatest(K), j)})

hits(c) == {d \in trie[top.node].data : forwardTestData(mode, d.lits, c.lits)}

EnterForward(c) ==
  /\ op = "forward" /\ stack # <<>> /\ ~ top.entered
  /\ query = {c}
  /\ hits(c) = {}
  /\ stack' = moved(firstForward(top.node, top.rest))
  /\ UNCHANGED <<mode, trie, op, query, walks, collected, answer>>

\* The first hit in the list at the node ends all calls.
Hit(c) ==
  /\ op = "forward" /\ stack # <<>> /\ ~ top.entered
  /\ query = {c}
  /\ \E d \in hits(c) : collected' = {d}
  /\ stack' = <<>> /\ walks' = <<>>
  /\ UNCHANGED <<mode, trie, op, query, answer>>

(***************************************************************************)
(* ... one turn of its loop, and the return into the loop of the caller.   *)
(***************************************************************************)
\* forwardSubsumes reads the query up to the key of the link; it returns if
\* that is the end and does not follow a key the query has not got.
PassOver ==
  /\ op = "forward" /\ stack # <<>> /\ top.entered
  /\ top.at # End /\ top.at \notin top.rest
  /\ stack' = IF \A k \in top.rest : before(top.at, k)
              THEN moved(End) ELSE moved(backFrom(top.node, top.at))
  /\ UNCHANGED <<mode, trie, op, query, walks, collected, answer>>

Descend ==
  /\ stack # <<>> /\ top.entered /\ top.at # End
  /\ op = "forward" => top.at \in top.rest
  /\ stack' = Append(stack, frame(top.node \cup {top.at},
                                  {k \in top.rest : before(k, top.at)}))
  /\ UNCHANGED <<mode, trie, op, query, walks, collected, answer>>

\* Variant: backwardSubsumes leaves its iterator where it was.
continuedStale(f) ==
  [f EXCEPT !.at = CASE op = "remove"   -> End
                     [] op = "backward" -> f.at
                     [] op = "forward"  -> backFrom(f.node, f.at)]

\* Variant: forwardSubsumes leaves its iterator where it was.
continuedStuck(f) ==
  [f EXCEPT !.at = CASE op = "remove"   -> End
                     [] op = "backward" -> after(f.node, f.at)
                     [] op = "forward"  -> f.at]

continued(f) ==
  [f EXCEPT !.at = CASE op = "remove"   -> End
                     [] op = "backward" -> after(f.node, f.at)
                     [] op = "forward"  -> backFrom(f.node, f.at)]

Return ==
  /\ stack # <<>> /\ top.entered /\ top.at = End
  /\ LET n == Len(stack) - 1
     IN  IF n = 0 THEN stack' = <<>> /\ trie' = trie
         ELSE /\ stack' = [i \in 1 .. n |-> IF i = n THEN continued(stack[n]) ELSE stack[i]]
              /\ trie' = IF op = "forward" THEN trie ELSE prune(stack[n].node, top.node)
  /\ UNCHANGED <<mode, op, query, walks, collected, answer>>

\* The call is over.  The list of backwardSubsumes, made unique, is returned.
Finish ==
  /\ op # "idle" /\ stack = <<>> /\ walks = <<>>
  /\ op' = "idle"
  /\ answer' = IF op = "remove" THEN {} ELSE collected
  /\ collected' = {}
  /\ UNCHANGED <<mode, trie, query, walks, stack>>

Step ==
  \/ Begin
  \/ InsertLink
  \/ \E c \in query : InsertData(c) \/ EnterRemove(c) \/ EnterBackward(c)
                        \/ EnterForward(c) \/ Hit(c)
  \/ PassOver \/ Descend \/ Return
  \/ Finish

\* clear and the destructor; saturate makes and destroys an index in every
\* turn of its loop.
Clear ==
  /\ op = "idle"
  /\ trie' = [x \in {} |-> Node]
  /\ query' = {} /\ answer' = {}
  /\ UNCHANGED <<mode, op, walks, stack, collected>>

Next ==
  \/ Step
  \/ \E o \in Operations, c \in Items : Call(o, c)
  \/ Clear

Spec == Init /\ [][Next]_vars

\* One thread: nothing delays its next step.
FairSpec == Spec /\ WF_vars(Step)
-----------------------------------------------------------------------------
(***************************************************************************)
(* Properties.                                                             *)
(***************************************************************************)
Frames == {stack[i] : i \in 1 .. Len(stack)}

IndexTypeOK ==
  /\ mode \in Modes
  /\ Nodes \subseteq SUBSET AllKeys
  /\ \A x \in Nodes : trie[x] \in [data : SUBSET Items, branches : Nat]
  /\ op \in Operations \cup {"idle"}
  /\ query \in SUBSET Items
  /\ op # "idle" => \E c \in Items : query = {c}
  /\ walks \in Seq(SUBSET AllKeys)
  /\ stack \in Seq([node : SUBSET AllKeys, rest : SUBSET AllKeys,
                     at : AllKeys \cup {End}, entered : BOOLEAN])
  /\ collected \in SUBSET Items /\ answer \in SUBSET Items

\* At every moment, between any two deletions of a walk too, the nodes hang
\* together, the counter that decides over deletion (myNumberOfSubBranches)
\* is the number of links, and every clause is at the end of its own path,
\* where remove will look for it.
TrieShape ==
  \A x \in Nodes :
    /\ \A y \in SUBSET x : Under(y, x) => y \in Nodes
    /\ trie[x].branches = Cardinality(next(x))
    /\ \A c \in trie[x].data : x = Keys(Path(c.lits))

\* No call of the recursion stands at a deleted node and no iterator at an
\* erased link, although the calls below it delete nodes and links.
FramesLive ==
  \A f \in Frames : f.node \in Nodes /\ f.at \in next(f.node) \cup {End}

\* Between two calls the only node that may be empty and without branches is
\* the root: every removal cleans up its whole path ("if 0, the node should
\* be deleted").
NoDeadNode ==
  op = "idle" => \A x \in Nodes \ {{}} : ~ dead(x)

\* The trie and its walks implement the index they are there for.  A clause
\* taken out by a walk is held until the call returns.
Contract == INSTANCE ClauseIndex WITH held <- Contents \cup collected
ImplementsClauseIndex == Contract!IndexSpec

\* Every call comes back.
CallReturns == [](op # "idle" => <>(op = "idle"))
=============================================================================
