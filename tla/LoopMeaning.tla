----------------------------- MODULE LoopMeaning -----------------------------
(***************************************************************************)
(* What loop search promises: the loop it returns, against the reference   *)
(* computed by iteration on the graph of moments.                          *)
(***************************************************************************)
EXTENDS SearchMeaning

\* The largest part of the finite set V in which every element has a
\* successor: what is left when only the elements with one have been kept, as
\* often as V has elements.
Persistent(T, V) ==
  LET left[n \in 0 .. Cardinality(V)] ==
        IF n = 0 THEN V
        ELSE LET W == left[n - 1]
             IN  {e[1] : e \in {e \in T : e[1] \in W /\ e[2] \in W}}
  IN  left[Cardinality(V)]

\* The moments of V after which, whatever happens, l never holds again: those
\* that may be followed by one where l holds, or that is gone, are taken away.
NeverAfter(V, T, l) ==
  LET left[n \in 0 .. Cardinality(V)] ==
        IF n = 0 THEN V
        ELSE LET G == left[n - 1]
             IN  G \ {e[1] : e \in {e \in T : e[2] \in V /\ (e[2] \in G => HoldsLit(l, e[2], e[2]))}}
  IN  left[Cardinality(V)]

\* Loop search is exact.  Of the moments that some run of the prover's
\* clauses can pass, the loop has those after which the eventuality literal
\* never holds; if no loop was found there is no such moment.
LoopAt(l) ==
  LET T     == Transitions(LitsOf(active))
      Lives == Persistent(T, Valuations)
      After == NeverAfter(Lives, T, l)
  IN  \A v \in Lives : (v \in After) <=> (loopFound /\ InLoop(v))
LoopExact ==
  /\ stage = "found" => LoopAt(events[turn].eventuality)
  /\ stage = "eventualities" /\ turn > 1 /\ ~ loopFound
       => LoopAt(events[turn - 1].eventuality)
=============================================================================
