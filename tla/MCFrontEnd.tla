------------------------------ MODULE MCFrontEnd ------------------------------
(***************************************************************************)
(* Instances of FrontEnd for TLC: files put together from a small stock of *)
(* pieces, in every order that matters and in some that are wrong.         *)
(***************************************************************************)
EXTENDS FrontEnd

ThreeNames == {"a", "b", "c"}
ThreeProps == {1, 2, 3}

piece(k, u, v) == [kind |-> k, now |-> u, next |-> v]
yes(n) == [name |-> n, neg |-> FALSE]
no(n)  == [name |-> n, neg |-> TRUE]

order1 == piece("order", <<yes("c"), yes("a")>>, <<>>)
open   == piece("open", <<>>, <<>>)
close  == piece("close", <<>>, <<>>)
bad    == piece("bad", <<>>, <<>>)

Stock == {
  piece("initial", <<yes("b"), no("a")>>, <<>>),
  piece("initial", <<>>, <<>>),
  piece("universal", <<yes("a"), no("a")>>, <<>>),
  piece("universal", <<>>, <<>>),
  piece("step", <<no("b")>>, <<yes("c"), yes("b")>>),
  piece("step", <<yes("c")>>, <<yes("c"), no("c")>>),
  piece("sometime", <<yes("b")>>, <<no("c")>>),
  piece("sometime", <<yes("a"), no("a")>>, <<yes("b")>>) }

ManyClauses == {<<c, d>> : c \in Stock, d \in Stock} \cup {<<c>> : c \in Stock} \cup {<<>>}

Inputs == {{}, {<<>>}} \cup
  {{u \o <<open>> \o cs \o v} : u \in {<<>>, <<order1>>}, cs \in ManyClauses,
      v \in {<<close>>, <<close, bad>>}} \cup
  {{u \o cs \o v} : u \in {<<>>, <<open>>, <<order1, order1>>, <<bad>>},
      cs \in {<<c>> : c \in Stock}, v \in {<<>>, <<close>>, <<bad, close>>, <<close, close>>}}

Orders == {{}} \cup
  {{u} : u \in {<<>>, <<order1>>, <<order1, bad>>, <<order1, open>>, <<open, close, bad>>}} \cup
  {{<<order1, open, c>>} : c \in Stock}

\* order(c,a). as in the documentation, in an order file of its own.
Documented == { {<<order1>>} }

Asked(s, i) ==
  {[quiet |-> z, showInput |-> y, showResult |-> x, selectBy |-> s, order |-> o, inputs |-> i] :
     z \in BOOLEAN, y \in BOOLEAN, x \in BOOLEAN, o \in BOOLEAN}
Lines == Asked("", 1) \cup
  {l \in Asked("other", 1) \cup Asked("DFS", 0) : ~ l.quiet /\ ~ l.order /\ ~ l.showResult}
WithOrderFile == {l \in Asked("", 1) : l.order}
=============================================================================
