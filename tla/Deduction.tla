------------------------------ MODULE Deduction ------------------------------
(***************************************************************************)
(* What a clause set promises its users, with no word on how it works: it  *)
(* may draw conclusions from what it holds and forget what the rest        *)
(* covers, and it reports a contradiction only when it holds the empty     *)
(* clause.  A loop search works on the projection of the set to the next   *)
(* moment.                                                                 *)
(***************************************************************************)
EXTENDS SNFSemantics

VARIABLES
  mode,          \* the mode tables in force
  clauses,       \* what the set holds
  given,         \* what it was given
  contradiction  \* it has reported a contradiction

dvars == <<mode, clauses, given, contradiction>>

DInit ==
  /\ mode = "normal" /\ clauses = {} /\ given = {} /\ contradiction = FALSE

Give ==
  /\ ~ contradiction
  /\ \E c \in given' : /\ clauses' = clauses \cup {c}
                       /\ given' = given \cup {c}
  /\ UNCHANGED <<mode, contradiction>>

\* Conclusions are entailed by what was held before, and every clause that
\* goes is covered by one that stays or comes.
Conclude ==
  /\ \A c \in clauses' \ clauses : Entails(clauses, c)
  /\ \A c \in clauses \ clauses' : CoveredBy(mode, clauses', c)
  /\ contradiction' \in {contradiction, {} \in clauses'}
  /\ UNCHANGED <<mode, given>>

\* The turn to loop search.
Project ==
  /\ mode = "normal" /\ ~ contradiction
  /\ mode' = "loopSearch"
  /\ clauses' = {Retag(c, "step_next") : c \in {d \in clauses : EveryMoment("normal", d)}}
                  \cup {c \in clauses : NextPart(c) # {}}
  /\ given' = clauses'
  /\ UNCHANGED contradiction

DNext == Give \/ Conclude \/ Project

DSpec == DInit /\ [][DNext]_dvars
=============================================================================
