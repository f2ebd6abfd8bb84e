----------------------------- MODULE ClauseIndex -----------------------------
(***************************************************************************)
(* What a subsumption index promises its users, Active, Passive and the    *)
(* loop of saturate: a set of clauses that answers one call at a time.     *)
(*   insert     the clause is held from now on;                            *)
(*   remove     it is held no longer (nothing happens if it was not);      *)
(*   forward    a held clause that subsumes the query, if there is one;    *)
(*   backward   all the held clauses the query subsumes; they are held no  *)
(*              longer.                                                    *)
(* Which clauses subsume the query is said by the test at a node together  *)
(* with the inclusion of the paths, whatever the shape of the trie.        *)
(***************************************************************************)
EXTENDS TemporalClauses

CONSTANT Items                   \* the clauses that exist, with their ids

Operations == {"insert", "remove", "forward", "backward"}

VARIABLES mode, held, op, query, answer

indexVars == <<mode, held, op, query, answer>>

IndexInit ==
  /\ mode \in Modes
  /\ held = {}
  /\ op = "idle" /\ query = {} /\ answer = {}

Ask(o, c) ==
  /\ op = "idle"
  /\ o = "insert" => c \notin held
  /\ op' = o
  /\ query' = {c}
  /\ answer' = {}
  /\ UNCHANGED <<mode, held>>

subsuming(c)    == {d \in held : indexForward(mode, d.lits, c.lits)}
subsumedItems(c) == {d \in held : indexBackward(mode, c.lits, d.lits)}

Reply(c) ==
  /\ query = {c}
  /\ \/ op = "insert"   /\ held' = held \cup {c} /\ answer' = {}
     \/ op = "remove"   /\ held' = held \ {c} /\ answer' = {}
     \/ op = "forward"  /\ held' = held /\ subsuming(c) = {} /\ answer' = {}
     \/ op = "forward"  /\ held' = held /\ \E d \in subsuming(c) : answer' = {d}
     \/ /\ op = "backward"
        /\ held' = held \ subsumedItems(c)
        /\ answer' = subsumedItems(c)
  /\ op' = "idle"
  /\ UNCHANGED <<mode, query>>

Clear ==
  /\ op = "idle"
  /\ held' = {} /\ answer' = {} /\ query' = {}
  /\ UNCHANGED <<mode, op>>

IndexNext ==
  \/ \E c \in Items : Reply(c) \/ \E o \in Operations : Ask(o, c)
  \/ Clear

IndexSpec == IndexInit /\ [][IndexNext]_indexVars
=============================================================================
