---------------------------- MODULE FrontEndProofs ----------------------------
(***************************************************************************)
(* For every set of identifiers and every files and command lines: the ids *)
(* of the symbols, what is accepted, and what the prover is given.         *)
(***************************************************************************)
EXTENDS FrontEnd, FiniteSetTheorems, SequenceTheorems, TLAPS

-----------------------------------------------------------------------------
(***************************************************************************)
(* What is read, and where names are mentioned.                            *)
(***************************************************************************)
Reads ==
  /\ ahead \in Seq(Pieces) /\ read \in Seq(Pieces)
  /\ IF ahead = <<>> THEN atoms = 0 ELSE atoms \in 0 .. Len(literals(Head(ahead)))
  /\ pc \in {"options", "open"} => ahead = <<>>
  /\ input \in InputFiles /\ order \in OrderFiles \cup {{}}

\* The parts of a piece.
LEMMA PieceParts ==
  ASSUME NEW p \in Pieces
  PROVE  /\ p.kind \in PieceKinds /\ p.now \in Seq(Written) /\ p.next \in Seq(Written)
         /\ literals(p) \in Seq(Written)
         /\ p.kind \in {"open", "close", "bad"} => p.now = <<>>
         /\ p.kind \notin {"step", "sometime"} => p.next = <<>>
         /\ p.kind = "sometime" => Len(p.next) = 1
BY DEF Pieces, literals

\* The first piece and the rest of a file.
LEMMA HeadAndTail ==
  ASSUME NEW s \in Seq(Pieces), s # <<>>
  PROVE  Head(s) \in Pieces /\ Tail(s) \in Seq(Pieces)
OBVIOUS

\* A file holds pieces.
LEMMA FilesHoldPieces ==
  ASSUME Reads
  PROVE  /\ \A f \in input : f \in Seq(Pieces)
         /\ \A f \in order : f \in Seq(Pieces)
BY FrontEndAssumption DEF FrontEndAssumption, Reads

\* What is read keeps its type.
LEMMA ReadsKeeps == Reads /\ [Next]_vars => Reads'
<1> SUFFICES ASSUME Reads, [Next]_vars PROVE Reads'
    OBVIOUS
<1>1. /\ ahead \in Seq(Pieces) /\ read \in Seq(Pieces)
      /\ IF ahead = <<>> THEN atoms = 0 ELSE atoms \in 0 .. Len(literals(Head(ahead)))
      /\ pc \in {"options", "open"} => ahead = <<>>
      /\ input \in InputFiles /\ order \in OrderFiles \cup {{}}
    BY DEF Reads
<1>2. /\ \A f \in input : f \in Seq(Pieces)
      /\ \A f \in order : f \in Seq(Pieces)
    BY FilesHoldPieces
<1>3. \A s \in Seq(Pieces) : s # <<>> => Len(literals(Head(s))) \in Nat
    BY HeadAndTail, PieceParts, LenProperties
<1>4. UNCHANGED <<input, order>>
    BY Zenon DEF Next, Step, Done, vars, fileVars, ParseOptions, OpenFiles, BuildAtom, ReadOrder,
       ReadOpen, ReadClause, ReadEmptyClause, ReadClose, Wrap, Accept, SyntaxError, ShowInput, Answer
<1>5. ASSUME ahead # <<>>, reduce, pc' \notin {"options", "open"} PROVE Reads'
    <2>1. Head(ahead) \in Pieces /\ Tail(ahead) \in Seq(Pieces)
        BY <1>1, <1>5, HeadAndTail
    <2>2. ahead' \in Seq(Pieces) /\ read' \in Seq(Pieces) /\ atoms' = 0
        BY <1>1, <1>5, <2>1 DEF reduce
    <2>3. ahead' # <<>> => Len(literals(Head(ahead'))) \in Nat
        BY <1>3, <2>2
    <2> QED BY <1>1, <1>4, <1>5, <2>2, <2>3 DEF Reads
<1>6. ASSUME ahead' = ahead, atoms' = atoms, read' = read, pc' \in {"options", "open"} => ahead = <<>>
      PROVE  Reads'
    BY <1>1, <1>4, <1>6 DEF Reads
<1>7. ASSUME NEW f \in Seq(Pieces), ahead' = f, atoms' = atoms, atoms = 0, read' = read,
             pc' \notin {"options", "open"}
      PROVE  Reads'
    BY <1>1, <1>3, <1>4, <1>7 DEF Reads
<1>8. CASE BuildAtom
    <2>1. ahead # <<>> /\ ahead' = ahead /\ read' = read /\ pc' = pc /\ atoms' = atoms + 1
          /\ atoms < Len(literals(Head(ahead))) /\ pc = "reading"
        BY <1>8 DEF BuildAtom, reading
    <2>2. atoms' \in 0 .. Len(literals(Head(ahead)))
        BY <1>1, <1>3, <2>1
    <2> QED BY <1>1, <1>4, <2>1, <2>2 DEF Reads
<1>9. CASE ReadOrder \/ ReadOpen \/ ReadClause \/ ReadEmptyClause \/ ReadClose
    <2>1. ahead # <<>> /\ reduce /\ pc' \in {pc, "done"} /\ pc = "reading"
        BY <1>9 DEF ReadOrder, ReadOpen, ReadClause, ReadEmptyClause, ReadClose, reading, exit
    <2> QED BY <1>5, <2>1
<1>10. CASE OpenFiles
    <2>1. ahead = <<>> /\ atoms' = atoms /\ read' = read /\ pc' \in {"done", "reading"}
        BY <1>1, <1>10 DEF OpenFiles, exit
    <2>2. ahead' = ahead \/ \E f \in Seq(Pieces) : ahead' = f
        BY <1>2, <1>10 DEF OpenFiles
    <2>3. atoms = 0
        BY <1>1, <2>1
    <2> QED BY <1>6, <1>7, <2>1, <2>2, <2>3
<1>11. CASE Wrap
    <2>1. ahead = <<>> /\ atoms' = atoms /\ read' = read /\ pc' = "reading" /\ \E f \in input : ahead' = f
        BY <1>11 DEF Wrap
    <2> QED BY <1>1, <1>2, <1>7, <2>1
<1>12. CASE ParseOptions \/ Accept \/ SyntaxError \/ ShowInput
            \/ (\E r \in {"Unsatisfiable", "Satisfiable"} : Answer(r)) \/ Done \/ UNCHANGED vars
    <2>1. ahead' = ahead /\ atoms' = atoms /\ read' = read
          /\ (pc' \in {"options", "open"} => pc \in {"options", "open"})
        BY <1>12 DEF ParseOptions, Accept, SyntaxError, ShowInput, Answer, Done, vars, parseVars, exit
    <2> QED BY <1>1, <1>6, <2>1
<1> QED BY <1>8, <1>9, <1>10, <1>11, <1>12 DEF Next, Step

\* Where a name is mentioned is not changed by the scanner and by main.
LEMMA MentionedStays ==
  ASSUME read' = read, atoms' = atoms, ahead' = ahead \/ atoms = 0
  PROVE  \A n : mentioned(n)' = mentioned(n)
<1>1. CASE ahead' = ahead
    BY <1>1 DEF mentioned
<1>2. CASE atoms = 0
    <2>1. 1 .. atoms = {}
        BY <1>2
    <2> QED BY <2>1 DEF mentioned
<1> QED BY <1>1, <1>2

\* Nor by the rule of a piece: all its atoms were reduced.
LEMMA MentionedReduced ==
  ASSUME Reads, ahead # <<>>, reduce
  PROVE  \A n : mentioned(n)' = mentioned(n)
<1> DEFINE p == Head(ahead)
           k == Len(read) + 1
<1>1. p \in Pieces /\ read \in Seq(Pieces)
    BY HeadAndTail DEF Reads
<1>2. /\ atoms = Len(literals(p)) /\ read' = Append(read, p) /\ atoms' = 0
    BY DEF reduce
<1>3. literals(p) \in Seq(Written)
    BY <1>1, PieceParts
<1>4. DOMAIN literals(p) = 1 .. atoms
    BY <1>2, <1>3
<1> HIDE DEF p
<1>5. /\ DOMAIN read' = DOMAIN read \cup {k} /\ read'[k] = p
      /\ \A i \in DOMAIN read : read'[i] = read[i] /\ i # k
    BY <1>1, <1>2
<1>6. 1 .. atoms' = {}
    BY <1>2
<1> HIDE DEF k
<1> SUFFICES ASSUME NEW n PROVE mentioned(n)' = mentioned(n)
    OBVIOUS
<1> DEFINE at(q, i) == {<<i, j>> : j \in {j \in DOMAIN literals(q) : literals(q)[j].name = n}}
<1>7. mentioned(n) = at(p, k) \cup UNION {at(read[i], i) : i \in DOMAIN read}
    BY <1>4 DEF mentioned, k, p
<1>8. mentioned(n)' = UNION {at(read'[i], i) : i \in DOMAIN read'}
    BY <1>6 DEF mentioned
<1> HIDE DEF at
<1> QED BY <1>5, <1>7, <1>8

\* An atom is mentioned after all others.
LEMMA MentionedAtom ==
  ASSUME Reads, BuildAtom
  PROVE  \A n : mentioned(n)' = mentioned(n) \cup
                  (IF n = nextAtom(Head(ahead)).name THEN {<<Len(read) + 1, atoms + 1>>} ELSE {})
<1> DEFINE p == Head(ahead)
           k == Len(read) + 1
<1>1. /\ atoms' = atoms + 1 /\ read' = read /\ ahead' = ahead /\ atoms \in Nat
    BY DEF BuildAtom, reading, Reads
<1>2. 1 .. atoms' = 1 .. atoms \cup {atoms + 1}
    BY <1>1
<1>3. nextAtom(p) = literals(p)[atoms + 1]
    BY DEF nextAtom
<1> SUFFICES ASSUME NEW n
             PROVE  mentioned(n)' = mentioned(n) \cup
                      (IF n = nextAtom(p).name THEN {<<k, atoms + 1>>} ELSE {})
    OBVIOUS
<1> DEFINE R == UNION {{<<i, j>> : j \in {j \in DOMAIN literals(read[i]) : literals(read[i])[j].name = n}} :
                         i \in DOMAIN read}
<1>4. mentioned(n) = {<<k, j>> : j \in {j \in 1 .. atoms : literals(p)[j].name = n}} \cup R
    BY DEF mentioned
<1>5. mentioned(n)' = {<<k, j>> : j \in {j \in 1 .. atoms' : literals(p)[j].name = n}} \cup R
    BY <1>1 DEF mentioned
<1> HIDE DEF R, k, p
<1> QED BY <1>2, <1>3, <1>4, <1>5

\* Every mention so far is before the next.
LEMMA MentionedBefore ==
  ASSUME Reads, NEW n, NEW e \in mentioned(n)
  PROVE  earlier(e, <<Len(read) + 1, atoms + 1>>) /\ ~ earlier(<<Len(read) + 1, atoms + 1>>, e)
<1>1. read \in Seq(Pieces) /\ Len(read) \in Nat /\ DOMAIN read = 1 .. Len(read) /\ atoms \in Nat
    <2>1. ahead # <<>> => Len(literals(Head(ahead))) \in Nat
        BY HeadAndTail, PieceParts, LenProperties DEF Reads
    <2> QED BY <2>1 DEF Reads
<1>2. CASE \E i \in DOMAIN read : \E j \in DOMAIN literals(read[i]) : e = <<i, j>>
    <2>1. PICK i \in DOMAIN read : e[1] = i
        BY <1>2
    <2> QED BY <1>1, <2>1 DEF earlier
<1>3. CASE \E j \in 1 .. atoms : e = <<Len(read) + 1, j>>
    <2>1. PICK j \in 1 .. atoms : e = <<Len(read) + 1, j>>
        BY <1>3
    <2> QED BY <1>1, <2>1 DEF earlier
<1>4. \/ \E i \in DOMAIN read : \E j \in DOMAIN literals(read[i]) : e = <<i, j>>
      \/ \E j \in 1 .. atoms : e = <<Len(read) + 1, j>>
    BY DEF mentioned
<1> QED BY <1>2, <1>3, <1>4

\* A step reduces an atom, or a piece, or nothing.
LEMMA StepKinds ==
  ASSUME Reads, [Next]_vars
  PROVE  \/ BuildAtom
         \/ ahead # <<>> /\ reduce /\ pc = "reading"
         \/ read' = read /\ atoms' = atoms /\ (ahead' = ahead \/ atoms = 0) /\ name2id' = name2id
<1>1. CASE ReadOrder \/ ReadOpen \/ ReadClause \/ ReadEmptyClause \/ ReadClose
    BY <1>1 DEF ReadOrder, ReadOpen, ReadClause, ReadEmptyClause, ReadClose, reading
<1>2. CASE OpenFiles
    <2>1. ahead = <<>>
        BY <1>2 DEF Reads, OpenFiles
    <2> QED BY <1>2, <2>1 DEF Reads, OpenFiles
<1>3. CASE Wrap
    BY <1>3 DEF Reads, Wrap
<1>4. CASE ParseOptions \/ Accept \/ SyntaxError \/ ShowInput
            \/ (\E r \in {"Unsatisfiable", "Satisfiable"} : Answer(r)) \/ Done \/ UNCHANGED vars
    BY <1>4 DEF ParseOptions, Accept, SyntaxError, ShowInput, Answer, Done, vars, parseVars
<1> QED BY <1>1, <1>2, <1>3, <1>4 DEF Next, Step

-----------------------------------------------------------------------------
(***************************************************************************)
(* The symbol table.                                                       *)
(***************************************************************************)
\* The part of IdsByFirstMention that is not about types, with the ids of
\* different names different.
IdInv ==
  /\ DOMAIN name2id = {n \in Names : mentioned(n) # {}}
  /\ {name2id[n] : n \in DOMAIN name2id} = 1 .. Cardinality(DOMAIN name2id)
  /\ \A m, n \in DOMAIN name2id : name2id[m] = name2id[n] => m = n
  /\ \A m, n \in DOMAIN name2id : sooner(m, n) => name2id[m] < name2id[n]

\* At first nothing is mentioned.
LEMMA InitIds == Init => Reads /\ IdInv
<1> SUFFICES ASSUME Init PROVE Reads /\ IdInv
    OBVIOUS
<1>1. read = <<>> /\ atoms = 0 /\ ahead = <<>> /\ DOMAIN name2id = {}
      /\ input \in InputFiles /\ order \in OrderFiles \cup {{}}
    BY DEF Init
<1>2. Reads
    BY <1>1, EmptySeq DEF Reads
<1>3. \A n : mentioned(n) = {}
    <2>1. 1 .. atoms = {}
        BY <1>1
    <2> QED BY <1>1, <2>1 DEF mentioned
<1>4. 1 .. Cardinality({}) = {}
    BY FS_EmptySet
<1> QED BY <1>1, <1>2, <1>3, <1>4 DEF IdInv

\* The ids and names in use.
LEMMA IdsUsed ==
  ASSUME IdInv
  PROVE  /\ DOMAIN name2id \subseteq Names /\ IsFiniteSet(DOMAIN name2id)
         /\ Cardinality(DOMAIN name2id) \in Nat
         /\ Cardinality(DOMAIN name2id) <= Cardinality(Names) /\ Cardinality(Names) \in Nat
         /\ \A n \in DOMAIN name2id : name2id[n] \in 1 .. Cardinality(DOMAIN name2id)
<1>1. DOMAIN name2id \subseteq Names /\ IsFiniteSet(Names)
    BY FrontEndAssumption DEF FrontEndAssumption, IdInv
<1>2. /\ IsFiniteSet(DOMAIN name2id) /\ Cardinality(DOMAIN name2id) <= Cardinality(Names)
    BY <1>1, FS_Subset
<1> QED BY <1>1, <1>2, FS_CardinalityType DEF IdInv

\* The ids are propositions.
LEMMA IdsInProp ==
  ASSUME IdInv
  PROVE  \A n \in DOMAIN name2id : name2id[n] \in Prop
<1> DEFINE k == Cardinality(DOMAIN name2id)
           m == Cardinality(Names)
<1>1. /\ k \in Nat /\ m \in Nat /\ k <= m
      /\ \A n \in DOMAIN name2id : name2id[n] \in 1 .. k
    BY IdsUsed
<1>2. Prop = 1 .. m
    BY FrontEndAssumption DEF FrontEndAssumption
<1> HIDE DEF k, m
<1>3. 1 .. k \subseteq 1 .. m
    BY <1>1
<1> QED BY <1>1, <1>2, <1>3

\* An atom that was not mentioned before is given the next id.
LEMMA AtomIds ==
  ASSUME Reads, IdInv, BuildAtom
  PROVE  IdInv'
<1> DEFINE a == nextAtom(Head(ahead)).name
           here == <<Len(read) + 1, atoms + 1>>
           ids == name2id'
           N == Cardinality(DOMAIN name2id)
<1>1. a \in Names
    <2>1. Head(ahead) \in Pieces /\ atoms \in Nat /\ atoms < Len(literals(Head(ahead)))
        BY HeadAndTail DEF BuildAtom, reading, Reads
    <2>2. literals(Head(ahead)) \in Seq(Written)
        BY <2>1, PieceParts
    <2>3. nextAtom(Head(ahead)) \in Written
        BY <2>1, <2>2 DEF nextAtom
    <2> QED BY <2>3 DEF Written
<1>2. \A n : mentioned(n)' = mentioned(n) \cup (IF n = a THEN {here} ELSE {})
    BY MentionedAtom
<1>3. \A n : \A e \in mentioned(n) : earlier(e, here) /\ ~ earlier(here, e)
    BY MentionedBefore
<1>4. ids = intern(name2id, a)
    BY DEF BuildAtom
<1>5. ~ earlier(here, here)
    <2>1. Len(read) \in Nat /\ atoms \in Nat
        BY DEF Reads, BuildAtom, reading
    <2> QED BY <2>1 DEF earlier
<1>6. /\ DOMAIN name2id = {n \in Names : mentioned(n) # {}}
      /\ {name2id[n] : n \in DOMAIN name2id} = 1 .. N
      /\ \A m, n \in DOMAIN name2id : name2id[m] = name2id[n] => m = n
      /\ \A m, n \in DOMAIN name2id : sooner(m, n) => name2id[m] < name2id[n]
    BY DEF IdInv
<1>7. /\ N \in Nat /\ IsFiniteSet(DOMAIN name2id)
      /\ \A n \in DOMAIN name2id : name2id[n] \in 1 .. N
    BY IdsUsed
<1> HIDE DEF a, here, N
<1>8. DOMAIN ids = DOMAIN name2id \cup {a} /\ \A n \in DOMAIN name2id : ids[n] = name2id[n]
    BY <1>4 DEF intern
<1>9. a \notin DOMAIN name2id => ids[a] = N + 1
    BY <1>4 DEF intern, N
<1> HIDE DEF ids
<1>10. DOMAIN ids = {n \in Names : mentioned(n)' # {}}
    BY <1>1, <1>2, <1>6, <1>8
<1>11. {ids[n] : n \in DOMAIN ids} = 1 .. Cardinality(DOMAIN ids)
    <2>1. CASE a \in DOMAIN name2id
        <3>1. DOMAIN ids = DOMAIN name2id
            BY <1>8, <2>1
        <3>2. {ids[n] : n \in DOMAIN ids} = {name2id[n] : n \in DOMAIN name2id}
            BY <1>8, <3>1
        <3>3. Cardinality(DOMAIN ids) = N
            BY <3>1 DEF N
        <3> QED BY <1>6, <3>2, <3>3
    <2>2. CASE a \notin DOMAIN name2id
        <3>1. Cardinality(DOMAIN ids) = N + 1
            BY <1>7, <1>8, <2>2, FS_AddElement DEF N
        <3>2. {ids[n] : n \in DOMAIN ids} = {name2id[n] : n \in DOMAIN name2id} \cup {N + 1}
            BY <1>8, <1>9, <2>2
        <3>3. 1 .. (N + 1) = 1 .. N \cup {N + 1}
            BY <1>7
        <3> QED BY <1>6, <3>1, <3>2, <3>3
    <2> QED BY <2>1, <2>2
<1>12. \A m, n \in DOMAIN ids : ids[m] = ids[n] => m = n
    BY <1>6, <1>7, <1>8, <1>9
<1>13. ASSUME NEW m \in DOMAIN ids, NEW n \in DOMAIN ids,
              NEW e \in mentioned(m)', \A f \in mentioned(n)' : earlier(e, f)
       PROVE  ids[m] < ids[n]
    <2>1. CASE e \in mentioned(m)
        <3>1. \A f \in mentioned(n) : earlier(e, f)
            BY <1>2, <1>13
        <3>2. m \in DOMAIN name2id
            BY <1>1, <1>6, <1>8, <2>1
        <3>3. CASE n \in DOMAIN name2id
            <4>1. sooner(m, n)
                BY <2>1, <3>1 DEF sooner
            <4> QED BY <1>6, <1>8, <3>2, <3>3, <4>1
        <3>4. CASE n \notin DOMAIN name2id
            BY <1>7, <1>8, <1>9, <3>2, <3>4
        <3> QED BY <3>3, <3>4
    <2>2. CASE m = a /\ e = here
        <3>1. CASE n \in DOMAIN name2id
            <4>1. PICK f \in mentioned(n) : TRUE
                BY <1>6, <3>1
            <4>2. earlier(here, f)
                BY <1>2, <1>13, <2>2, <4>1
            <4> QED BY <1>3, <4>1, <4>2
        <3>2. CASE n = a
            <4>1. here \in mentioned(n)'
                BY <1>2, <3>2
            <4> QED BY <1>5, <1>13, <2>2, <4>1
        <3> QED BY <1>8, <3>1, <3>2
    <2> QED BY <1>2, <2>1, <2>2
<1>14. \A m, n \in DOMAIN ids : sooner(m, n)' => ids[m] < ids[n]
    <2>1. \A m, n : sooner(m, n)' <=> \E e \in mentioned(m)' : \A f \in mentioned(n)' : earlier(e, f)
        BY DEF sooner, earlier
    <2> QED BY <1>13, <2>1
<1> QED BY <1>10, <1>11, <1>12, <1>14 DEF IdInv, ids

\* Every step keeps ids in the order of mention.
LEMMA IdsKeep ==
  ASSUME Reads, IdInv, [Next]_vars
  PROVE  IdInv'
<1>1. ASSUME name2id' = name2id, \A n : mentioned(n)' = mentioned(n)
      PROVE  IdInv'
    <2>1. \A m, n : sooner(m, n)' <=> sooner(m, n)
        BY <1>1 DEF sooner, earlier
    <2> QED BY <1>1, <2>1 DEF IdInv
<1>2. CASE BuildAtom
    BY <1>2, AtomIds
<1>3. CASE ahead # <<>> /\ reduce
    BY <1>1, <1>3, MentionedReduced DEF reduce
<1>4. CASE read' = read /\ atoms' = atoms /\ (ahead' = ahead \/ atoms = 0) /\ name2id' = name2id
    BY <1>1, <1>4, MentionedStays
<1> QED BY <1>2, <1>3, <1>4, StepKinds

-----------------------------------------------------------------------------
(***************************************************************************)
(* Clauses as they are built and as they are meant.                        *)
(***************************************************************************)
Known(p) == \A w \in ToSet(p.now) \cup ToSet(p.next) : w \in Written /\ w.name \in DOMAIN name2id

\* The literals of a piece are those of its two lists.
LEMMA LiteralsAre ==
  ASSUME NEW p \in Pieces
  PROVE  \A w \in ToSet(p.now) \cup ToSet(p.next) :
           w \in Written /\ \E j \in DOMAIN literals(p) : literals(p)[j] = w
<1>1. p.now \in Seq(Written) /\ p.next \in Seq(Written)
    BY PieceParts
<1> DEFINE u == p.now
           v == p.next
           m == Len(p.now)
           n == Len(p.next)
<1>2. /\ m \in Nat /\ n \in Nat /\ DOMAIN u = 1 .. m /\ DOMAIN v = 1 .. n
      /\ DOMAIN literals(p) = 1 .. (m + n)
      /\ \A i \in 1 .. m : literals(p)[i] = u[i] /\ u[i] \in Written
      /\ \A i \in 1 .. n : literals(p)[m + i] = v[i] /\ v[i] \in Written
    <2>1. literals(p) = u \o v
        BY DEF literals
    <2> HIDE DEF u, v
    <2>2. u \in Seq(Written) /\ v \in Seq(Written) /\ m = Len(u) /\ n = Len(v)
        BY <1>1 DEF u, v
    <2> HIDE DEF m, n
    <2>3. m \in Nat /\ n \in Nat /\ DOMAIN u = 1 .. m /\ DOMAIN v = 1 .. n
        BY <2>2
    <2>4. /\ Len(u \o v) = m + n
          /\ \A i \in 1 .. m + n : (u \o v)[i] = IF i <= m THEN u[i] ELSE v[i - m]
        BY <2>2, ConcatProperties
    <2>5. DOMAIN (u \o v) = 1 .. (m + n)
        BY <2>2, <2>4
    <2>6. \A i \in 1 .. m : i \in 1 .. m + n /\ i <= m
        BY <2>3
    <2>7. \A i \in 1 .. n : m + i \in 1 .. m + n /\ ~ m + i <= m /\ (m + i) - m = i
        BY <2>3
    <2>8. \A i \in 1 .. m : (u \o v)[i] = u[i]
        BY <2>4, <2>6
    <2>9. \A i \in 1 .. n : (u \o v)[m + i] = v[i]
        BY <2>4, <2>7
    <2>10. /\ \A i \in 1 .. m : u[i] \in Written
           /\ \A i \in 1 .. n : v[i] \in Written
        BY <2>2, <2>3
    <2> QED BY <2>1, <2>3, <2>5, <2>8, <2>9, <2>10
<1> HIDE DEF m, n, u, v
<1>3. \A i \in 1 .. m : i \in 1 .. (m + n)
    BY <1>2
<1>4. \A i \in 1 .. n : m + i \in 1 .. (m + n)
    BY <1>2
<1> QED BY <1>2, <1>3, <1>4 DEF ToSet, u, v

\* When a piece is reduced all its names have ids.
LEMMA HeadKnown ==
  ASSUME Reads, IdInv, ahead # <<>>, reduce
  PROVE  Known(Head(ahead))
<1> DEFINE p == Head(ahead)
<1>1. p \in Pieces
    BY HeadAndTail DEF Reads
<1>2. literals(p) \in Seq(Written) /\ atoms = Len(literals(p))
    BY <1>1, PieceParts DEF reduce
<1>3. DOMAIN literals(p) = 1 .. atoms
    BY <1>2
<1>4. ASSUME NEW j \in DOMAIN literals(p)
      PROVE  literals(p)[j].name \in DOMAIN name2id
    <2>1. <<Len(read) + 1, j>> \in mentioned(literals(p)[j].name)
        BY <1>3 DEF mentioned
    <2>2. literals(p)[j] \in Written
        BY <1>2
    <2>3. literals(p)[j].name \in Names
        BY <2>2 DEF Written
    <2> QED BY <2>1, <2>3 DEF IdInv
<1> HIDE DEF p
<1>5. Known(p)
    BY <1>1, <1>4, LiteralsAre DEF Known
<1> QED BY <1>5 DEF p

\* And so have those of all pieces read before.
LEMMA ReadKnown ==
  ASSUME Reads, IdInv, NEW i \in DOMAIN read
  PROVE  Known(read[i])
<1>1. read[i] \in Pieces
    BY DEF Reads
<1>2. ASSUME NEW j \in DOMAIN literals(read[i])
      PROVE  literals(read[i])[j].name \in DOMAIN name2id
    <2>1. <<i, j>> \in mentioned(literals(read[i])[j].name)
        BY DEF mentioned
    <2>2. literals(read[i])[j] \in Written
        BY <1>1, PieceParts
    <2>3. literals(read[i])[j].name \in Names
        BY <2>2 DEF Written
    <2> QED BY <2>1, <2>3 DEF IdInv
<1> QED BY <1>1, <1>2, LiteralsAre DEF Known

\* A list with attributes: its literals, of one attribute.
LEMMA TaggedParts ==
  ASSUME IdInv, NEW ws, NEW a \in Attributes,
         \A w \in ToSet(ws) : w \in Written /\ w.name \in DOMAIN name2id
  PROVE  /\ tagged(name2id, ws, a) \in Clauses
         /\ \A l \in tagged(name2id, ws, a) : l.attr = a
<1>1. \A n \in DOMAIN name2id : name2id[n] \in Prop
    BY IdsInProp
<1> QED BY <1>1 DEF tagged, Written, Clauses, Literals

\* What is made of a piece is a clause of one kind.
LEMMA MadeClause ==
  ASSUME IdInv, NEW p \in Pieces, p.kind \in ClauseKinds, Known(p)
  PROVE  made(name2id, p) \in Clauses /\ OneKind(made(name2id, p))
<1>1. /\ \A w \in ToSet(p.now) : w \in Written /\ w.name \in DOMAIN name2id
      /\ \A w \in ToSet(p.next) : w \in Written /\ w.name \in DOMAIN name2id
    BY DEF Known
<1>2. \A a \in Attributes :
        /\ tagged(name2id, p.now, a) \in Clauses /\ \A l \in tagged(name2id, p.now, a) : l.attr = a
        /\ tagged(name2id, p.next, a) \in Clauses /\ \A l \in tagged(name2id, p.next, a) : l.attr = a
    BY <1>1, TaggedParts
<1>3. \/ made(name2id, p) = tagged(name2id, p.now, "initial")
      \/ made(name2id, p) = tagged(name2id, p.now, "universal")
      \/ made(name2id, p) = tagged(name2id, p.now, "step_now") \cup tagged(name2id, p.next, "step_next")
    BY DEF made, ClauseKinds
<1>4. {"initial", "universal", "step_now", "step_next"} \subseteq Attributes
    BY DEF Attributes
<1> QED BY <1>2, <1>3, <1>4 DEF Clauses, OneKind, AttributesOf

\* It says what the piece means.
LEMMA MadeIsMeaning ==
  ASSUME NEW p \in Pieces, p.kind \in ClauseKinds
  PROVE  made(name2id, p) = meaning(p)
<1>1. p.now \in Seq(Written) /\ p.next \in Seq(Written)
    BY PieceParts
<1>2. ASSUME NEW ws \in Seq(Written), NEW a
      PROVE  tagged(name2id, ws, a) =
               {[prop |-> name2id[ws[i].name], neg |-> ws[i].neg, attr |-> a] : i \in 1 .. Len(ws)}
    BY DEF tagged, ToSet
<1>3. CASE p.kind = "initial"
    BY <1>1, <1>2, <1>3 DEF made, meaning
<1>4. CASE p.kind \in {"universal", "sometime"}
    BY <1>1, <1>2, <1>4 DEF made, meaning
<1>5. CASE p.kind = "step"
    BY <1>1, <1>2, <1>5 DEF made, meaning
<1> QED BY <1>3, <1>4, <1>5 DEF ClauseKinds

\* Two literals of one list are contrary as literals when they are as they
\* were written, because different names have different ids.
LEMMA ListCorrect ==
  ASSUME IdInv, NEW ws \in Seq(Written), NEW a,
         \A w \in ToSet(ws) : w.name \in DOMAIN name2id
  PROVE  tautology(ws) <=>
           \E k, l \in tagged(name2id, ws, a) : k.prop = l.prop /\ k.neg # l.neg
<1>1. DOMAIN ws = 1 .. Len(ws) /\ ToSet(ws) = {ws[i] : i \in 1 .. Len(ws)}
    BY DEF ToSet
<1>2. \A m, n \in DOMAIN name2id : name2id[m] = name2id[n] => m = n
    BY DEF IdInv
<1>3. ASSUME tautology(ws)
      PROVE  \E k, l \in tagged(name2id, ws, a) : k.prop = l.prop /\ k.neg # l.neg
    <2>1. PICK i \in 1 .. Len(ws), j \in 1 .. Len(ws) : ws[i].name = ws[j].name /\ ws[i].neg # ws[j].neg
        BY <1>3 DEF tautology
    <2> DEFINE k == [prop |-> name2id[ws[i].name], neg |-> ws[i].neg, attr |-> a]
               l == [prop |-> name2id[ws[j].name], neg |-> ws[j].neg, attr |-> a]
    <2>2. k \in tagged(name2id, ws, a) /\ l \in tagged(name2id, ws, a)
        BY <1>1 DEF tagged
    <2> QED BY <2>1, <2>2
<1>4. ASSUME NEW k \in tagged(name2id, ws, a), NEW l \in tagged(name2id, ws, a),
             k.prop = l.prop, k.neg # l.neg
      PROVE  tautology(ws)
    <2>1. PICK v \in ToSet(ws) : k = [prop |-> name2id[v.name], neg |-> v.neg, attr |-> a]
        BY DEF tagged
    <2>2. PICK w \in ToSet(ws) : l = [prop |-> name2id[w.name], neg |-> w.neg, attr |-> a]
        BY DEF tagged
    <2>3. v.name = w.name /\ v.neg # w.neg
        BY <1>2, <1>4, <2>1, <2>2
    <2> QED BY <1>1, <2>3 DEF tautology
<1> QED BY <1>3, <1>4

\* A clause is kept when no list of its piece is a tautology.
LEMMA KeptIs ==
  ASSUME IdInv, NEW p \in Pieces, p.kind \in {"initial", "universal", "step"}, Known(p)
  PROVE  kept(made(name2id, p)) <=> ~ tautology(p.now) /\ ~ tautology(p.next)
<1>1. p.now \in Seq(Written) /\ p.next \in Seq(Written)
    BY PieceParts
<1>2. /\ \A w \in ToSet(p.now) : w \in Written /\ w.name \in DOMAIN name2id
      /\ \A w \in ToSet(p.next) : w \in Written /\ w.name \in DOMAIN name2id
    BY DEF Known
<1> DEFINE contrary(k, l) == k.prop = l.prop /\ k.neg # l.neg
<1>3. \A a : /\ tautology(p.now) <=> \E k, l \in tagged(name2id, p.now, a) : contrary(k, l)
             /\ tautology(p.next) <=> \E k, l \in tagged(name2id, p.next, a) : contrary(k, l)
    BY <1>1, <1>2, ListCorrect
<1>4. ASSUME NEW lits
      PROVE  kept(lits) <=> ~ \E k, l \in lits : contrary(k, l) /\ areEqual("normal", k.attr, l.attr)
    BY DEF kept, isCorrect
<1>5. ASSUME NEW a \in {"initial", "universal"}, made(name2id, p) = tagged(name2id, p.now, a), p.next = <<>>
      PROVE  kept(made(name2id, p)) <=> ~ tautology(p.now) /\ ~ tautology(p.next)
    <2>1. ~ tautology(p.next)
        BY <1>5 DEF tautology
    <2>2. \A k, l \in tagged(name2id, p.now, a) : areEqual("normal", k.attr, l.attr)
        BY DEF tagged, areEqual
    <2> HIDE DEF contrary
    <2> QED BY <1>3, <1>4, <1>5, <2>1, <2>2
<1>6. CASE p.kind = "initial"
    BY <1>5, <1>6, PieceParts DEF made
<1>7. CASE p.kind = "universal"
    BY <1>5, <1>7, PieceParts DEF made
<1>8. CASE p.kind = "step"
    <2> DEFINE u == tagged(name2id, p.now, "step_now")
               v == tagged(name2id, p.next, "step_next")
    <2>1. made(name2id, p) = u \cup v
        BY <1>8 DEF made
    <2>2. /\ \A k \in u : k.attr = "step_now"
          /\ \A k \in v : k.attr = "step_next"
        BY DEF tagged
    <2>3. /\ tautology(p.now) <=> \E k, l \in u : contrary(k, l)
          /\ tautology(p.next) <=> \E k, l \in v : contrary(k, l)
        BY <1>3
    <2>4. /\ areEqual("normal", "step_now", "step_now") /\ areEqual("normal", "step_next", "step_next")
          /\ ~ areEqual("normal", "step_now", "step_next") /\ ~ areEqual("normal", "step_next", "step_now")
        BY DEF areEqual
    <2> HIDE DEF contrary, u, v
    <2>5. (\E k, l \in u \cup v : contrary(k, l) /\ areEqual("normal", k.attr, l.attr))
            <=> (\E k, l \in u : contrary(k, l)) \/ (\E k, l \in v : contrary(k, l))
        BY Zenon, <2>2, <2>4
    <2> QED BY <1>4, <2>1, <2>3, <2>5
<1> QED BY <1>6, <1>7, <1>8

-----------------------------------------------------------------------------
(***************************************************************************)
(* The types.                                                              *)
(***************************************************************************)
OneKindClauses == {lits \in Clauses : OneKind(lits)}
Eventualities  == [now : Clauses, ev : [prop : Prop, neg : BOOLEAN]]

Types ==
  /\ pc \in {"options", "open", "reading", "prover", "search", "done"}
  /\ options \in CommandLines
  /\ orderFileGiven \in BOOLEAN
  /\ place \in {"start", "formula", "clauses", "end"}
  /\ pushed \in Seq(OneKindClauses)
  /\ elist \in Seq(Eventualities)
  /\ exitCode \in {-1, 0, 1}

\* They hold at first.
LEMMA InitTypes == Init => Types
<1> SUFFICES ASSUME Init PROVE Types
    OBVIOUS
<1>1. pushed \in Seq(OneKindClauses) /\ elist \in Seq(Eventualities)
    BY EmptySeq DEF Init
<1> QED BY <1>1 DEF Init, Types

\* A clause is put where it belongs, and is of one kind there.
LEMMA ClauseTypes ==
  ASSUME Reads, IdInv, Types, ReadClause
  PROVE  pushed' \in Seq(OneKindClauses) /\ elist' \in Seq(Eventualities)
<1> DEFINE p == Head(ahead)
           lits == made(name2id, p)
<1>1. p \in Pieces /\ p.kind \in ClauseKinds /\ Known(p)
    <2>1. ahead # <<>> /\ reduce /\ p.kind \in ClauseKinds
        BY DEF ReadClause, reading
    <2>2. p \in Pieces
        BY <2>1, HeadAndTail DEF Reads
    <2> QED BY <2>1, <2>2, HeadKnown
<1>2. lits \in Clauses /\ OneKind(lits)
    BY <1>1, MadeClause
<1>3. pushed \in Seq(OneKindClauses) /\ elist \in Seq(Eventualities)
    BY DEF Types
<1>4. ASSUME p.kind = "sometime"
      PROVE  p.next[1].name \in DOMAIN name2id /\ p.next[1].neg \in BOOLEAN
    <2>1. p.next \in Seq(Written) /\ Len(p.next) = 1
        BY <1>1, <1>4, PieceParts
    <2>2. p.next[1] \in ToSet(p.next)
        BY <2>1 DEF ToSet
    <2>3. p.next[1] \in Written /\ p.next[1].name \in DOMAIN name2id
        BY <1>1, <2>2 DEF Known
    <2> QED BY <2>3 DEF Written
<1> DEFINE ev == [prop |-> name2id[p.next[1].name], neg |-> p.next[1].neg]
<1>5. p.kind = "sometime" => [now |-> lits, ev |-> ev] \in Eventualities
    BY <1>2, <1>4, IdsInProp DEF Eventualities
<1>6. IF p.kind = "sometime"
      THEN elist' = Append(elist, [now |-> lits, ev |-> ev]) /\ pushed' = pushed
      ELSE pushed' = (IF kept(lits) THEN Append(pushed, lits) ELSE pushed) /\ elist' = elist
    BY DEF ReadClause
<1>7. lits \in OneKindClauses
    BY <1>2 DEF OneKindClauses
<1> HIDE DEF lits, ev, p
<1>8. CASE p.kind = "sometime"
    BY <1>3, <1>5, <1>6, <1>8, AppendProperties
<1>9. CASE p.kind # "sometime"
    BY <1>3, <1>6, <1>7, <1>9, AppendProperties
<1> QED BY <1>8, <1>9

\* Every step keeps the types.
LEMMA TypesKeep ==
  ASSUME Reads, IdInv, Types, [Next]_vars
  PROVE  Types'
<1>1. pc' \in {"options", "open", "reading", "prover", "search", "done"}
    BY DEF Types, Next, Step, Done, vars, ParseOptions, OpenFiles, BuildAtom, ReadOrder, ReadOpen, ReadClause,
           ReadEmptyClause, ReadClose, Wrap, Accept, SyntaxError, ShowInput, Answer, exit
<1>2. options' \in CommandLines
    BY DEF Types, Next, Step, Done, vars, fileVars, ParseOptions, OpenFiles, BuildAtom, ReadOrder, ReadOpen,
           ReadClause, ReadEmptyClause, ReadClose, Wrap, Accept, SyntaxError, ShowInput, Answer
<1>3. orderFileGiven' \in BOOLEAN
    <2>1. orderFileGiven' \in {orderFileGiven, FALSE, options.order}
        BY DEF Next, Step, Done, vars, parseVars, ParseOptions, OpenFiles, BuildAtom, ReadOrder, ReadOpen,
               ReadClause, ReadEmptyClause, ReadClose, Wrap, Accept, SyntaxError, ShowInput, Answer
    <2>2. options.order \in BOOLEAN
        BY FrontEndAssumption DEF FrontEndAssumption, Types
    <2> QED BY Zenon, <2>1, <2>2 DEF Types
<1>4. place' \in {"start", "formula", "clauses", "end"}
    BY DEF Types, Next, Step, Done, vars, parseVars, ParseOptions, OpenFiles, BuildAtom, ReadOrder, ReadOpen,
           ReadClause, ReadEmptyClause, ReadClose, Wrap, Accept, SyntaxError, ShowInput, Answer
<1>5. pushed' \in Seq(OneKindClauses) /\ elist' \in Seq(Eventualities)
    <2>1. CASE ReadClause
        BY <2>1, ClauseTypes
    <2>2. CASE ~ ReadClause
        <3>1. pushed' = pushed /\ elist' = elist
            BY <2>2 DEF Next, Step, Done, vars, parseVars, ParseOptions, OpenFiles, BuildAtom, ReadOrder, ReadOpen,
                   ReadEmptyClause, ReadClose, Wrap, Accept, SyntaxError, ShowInput, Answer
        <3> QED BY <3>1 DEF Types
    <2> QED BY <2>1, <2>2
<1>6. exitCode' \in {-1, 0, 1}
    BY DEF Types, Next, Step, Done, vars, ParseOptions, OpenFiles, BuildAtom, ReadOrder, ReadOpen, ReadClause,
           ReadEmptyClause, ReadClose, Wrap, Accept, SyntaxError, ShowInput, Answer, exit
<1> QED BY <1>1, <1>2, <1>3, <1>4, <1>5, <1>6 DEF Types

\* So the variables have their types.
LEMMA TypesMean ==
  ASSUME Reads, IdInv, Types
  PROVE  FrontEndTypeOK
<1>1. \A i \in 1 .. Len(pushed) : pushed[i] \in Clauses /\ OneKind(pushed[i])
    <2>1. \A i \in 1 .. Len(pushed) : pushed[i] \in OneKindClauses
        BY ElementOfSeq DEF Types
    <2> QED BY <2>1 DEF OneKindClauses
<1>2. \A i \in 1 .. Len(elist) : elist[i].now \in Clauses /\ elist[i].ev \in [prop : Prop, neg : BOOLEAN]
    <2>1. \A i \in 1 .. Len(elist) : elist[i] \in Eventualities
        BY ElementOfSeq DEF Types
    <2> QED BY <2>1 DEF Eventualities
<1>3. DOMAIN name2id \subseteq Names /\ \A n \in DOMAIN name2id : name2id[n] \in Prop
    BY IdsUsed, IdsInProp
<1>4. /\ ahead \in Seq(Pieces) /\ read \in Seq(Pieces)
      /\ IF ahead = <<>> THEN atoms = 0 ELSE atoms \in 0 .. Len(literals(Head(ahead)))
    BY DEF Reads
<1>5. /\ pc \in {"options", "open", "reading", "prover", "search", "done"}
      /\ orderFileGiven \in BOOLEAN
      /\ place \in {"start", "formula", "clauses", "end"}
      /\ exitCode \in {-1, 0, 1}
    BY DEF Types
<1> QED BY <1>1, <1>2, <1>3, <1>4, <1>5 DEF FrontEndTypeOK

\* Whatever the command line and the files, the ids follow the order of
\* first mention and none is left out; that order is all that resolution
\* later orders literals by.
THEOREM IdsInOrder == Spec => []IdsByFirstMention
<1>1. Init => Reads /\ IdInv /\ Types
    BY InitIds, InitTypes
<1>2. Reads /\ IdInv /\ Types /\ [Next]_vars => (Reads /\ IdInv /\ Types)'
    BY ReadsKeeps, IdsKeep, TypesKeep
<1>3. Reads /\ IdInv /\ Types => IdsByFirstMention
    <2> SUFFICES ASSUME Reads, IdInv, Types PROVE IdsByFirstMention
        OBVIOUS
    <2>1. FrontEndTypeOK
        BY TypesMean
    <2> QED BY <2>1 DEF IdInv, IdsByFirstMention
<1> QED BY <1>1, <1>2, <1>3, PTL DEF Spec

-----------------------------------------------------------------------------
(***************************************************************************)
(* The grammar.                                                            *)
(***************************************************************************)
\* Where the formula starts in the pieces s.
start(s) == IF s # <<>> /\ s[1].kind = "order" THEN 2 ELSE 1

\* Up to the last one they are an open formula.
Opened(s, last) ==
  /\ start(s) <= last /\ s[start(s)].kind = "open"
  /\ \A i \in start(s) + 1 .. last : s[i].kind \in ClauseKinds /\ ~ empty(s[i])

\* What was read is what the grammar is at.
Grammar ==
  /\ pc \in {"options", "open"} => place = "start"
  /\ pc \in {"prover", "search"} => place = "end"
  /\ pc # "done" =>
       /\ place = "start"   => read = <<>>
       /\ place = "formula" => Len(read) = 1 /\ read[1].kind = "order"
       /\ place = "clauses" => Opened(read, Len(read))
       /\ place = "end"     => /\ Opened(read, Len(read) - 1)
                               /\ start(read) < Len(read) /\ read[Len(read)].kind = "close"
                               /\ ~ orderFileGiven

\* What is read behind an open formula leaves it as it is.
LEMMA OpenedStays ==
  ASSUME NEW s \in Seq(Pieces), NEW p \in Pieces, Opened(s, Len(s))
  PROVE  /\ start(Append(s, p)) = start(s) /\ Opened(Append(s, p), Len(s))
         /\ Len(Append(s, p)) = Len(s) + 1 /\ Append(s, p)[Len(s) + 1] = p
         /\ start(s) \in {1, 2} /\ start(s) <= Len(s) /\ Len(s) \in Nat
<1> DEFINE t == Append(s, p)
           n == Len(s)
<1>1. /\ n \in Nat /\ Len(t) = n + 1 /\ t[n + 1] = p
      /\ \A i \in 1 .. n : t[i] = s[i]
    BY AppendProperties, LenProperties
<1>2. start(s) \in {1, 2} /\ start(s) <= n
    BY DEF start, Opened
<1>3. s # <<>> /\ t # <<>> /\ t[1] = s[1]
    BY <1>1, <1>2, EmptySeq
<1>4. start(t) = start(s)
    BY <1>3 DEF start
<1> HIDE DEF t, n
<1> DEFINE b == start(s)
<1> HIDE DEF b
<1>5. b \in {1, 2} /\ b <= n /\ s[b].kind = "open"
      /\ \A i \in b + 1 .. n : s[i].kind \in ClauseKinds /\ ~ empty(s[i])
    BY <1>2 DEF b, Opened, n
<1>6. \A i \in b + 1 .. n : i \in 1 .. n
    BY <1>1, <1>5
<1>7. t[b].kind = "open" /\ \A i \in b + 1 .. n : t[i].kind \in ClauseKinds /\ ~ empty(t[i])
    BY <1>1, <1>5, <1>6
<1>8. Opened(t, n)
    BY <1>4, <1>5, <1>7 DEF b, Opened
<1> QED BY <1>1, <1>2, <1>4, <1>8 DEF t, n

\* The order section is the first piece.
LEMMA OrderIsFirst ==
  ASSUME Reads, Types, Grammar, ReadOrder
  PROVE  Grammar'
<1>1. pc = "reading" /\ pc' = pc /\ place = "start" /\ place' = "formula" /\ ahead # <<>>
      /\ read' = Append(read, Head(ahead)) /\ Head(ahead).kind = "order"
    BY DEF ReadOrder, reading, reduce
<1>2. read = <<>>
    BY <1>1 DEF Grammar
<1>3. Len(read') = 1 /\ read'[1] = Head(ahead)
    BY <1>1, <1>2
<1> QED BY <1>1, <1>3 DEF Grammar

\* The formula is opened at the start or behind the order section.
LEMMA OpenIsNext ==
  ASSUME Reads, Types, Grammar, ReadOpen
  PROVE  Grammar'
<1>1. pc = "reading" /\ pc' = pc /\ place \in {"start", "formula"} /\ place' = "clauses" /\ ahead # <<>>
      /\ read' = Append(read, Head(ahead)) /\ Head(ahead).kind = "open" /\ read \in Seq(Pieces)
    BY DEF ReadOpen, reading, reduce, Reads
<1>2. Head(ahead) \in Pieces
    BY <1>1, HeadAndTail DEF Reads
<1> DEFINE s == read
           p == Head(ahead)
           t == Append(s, p)
<1>3. t \in Seq(Pieces) /\ Len(t) = Len(s) + 1 /\ t[Len(s) + 1] = p /\ \A i \in 1 .. Len(s) : t[i] = s[i]
    BY <1>1, <1>2, AppendProperties
<1>4. CASE s = <<>>
    <2>1. Len(s) = 0
        BY <1>4
    <2>2. Len(t) = 1 /\ t[1] = p /\ p.kind = "open"
        BY <1>1, <1>3, <2>1
    <2> HIDE DEF t, p
    <2>3. start(t) = 1
        BY <2>2 DEF start
    <2>4. Opened(t, Len(t))
        BY <2>2, <2>3 DEF Opened
    <2> QED BY <1>1, <2>4 DEF Grammar, t, p
<1>5. CASE Len(s) = 1 /\ s[1].kind = "order"
    <2>1. Len(t) = 2 /\ t[2] = p /\ p.kind = "open" /\ t[1].kind = "order"
        BY <1>1, <1>3, <1>5
    <2>2. t # <<>>
        BY <2>1
    <2> HIDE DEF t, p
    <2>3. start(t) = 2
        BY <2>1, <2>2 DEF start
    <2>4. Opened(t, Len(t))
        BY <2>1, <2>3 DEF Opened
    <2> QED BY <1>1, <2>4 DEF Grammar, t, p
<1> QED BY <1>1, <1>4, <1>5 DEF Grammar

\* Clauses come behind the opening.
LEMMA ClauseIsInside ==
  ASSUME Reads, Types, Grammar, ReadClause
  PROVE  Grammar'
<1> DEFINE s == read
           p == Head(ahead)
           t == Append(s, p)
<1>1. pc = "reading" /\ pc' = pc /\ place = "clauses" /\ place' = place /\ ahead # <<>>
      /\ read' = t /\ p.kind \in ClauseKinds /\ ~ empty(p) /\ s \in Seq(Pieces)
    BY DEF ReadClause, reading, reduce, Reads
<1>2. p \in Pieces
    BY <1>1, HeadAndTail DEF Reads
<1>3. Opened(s, Len(s))
    BY <1>1 DEF Grammar
<1>4. /\ start(t) = start(s) /\ Opened(t, Len(s)) /\ Len(t) = Len(s) + 1 /\ t[Len(s) + 1] = p
      /\ start(s) \in {1, 2} /\ start(s) <= Len(s) /\ Len(s) \in Nat
    BY <1>1, <1>2, <1>3, OpenedStays
<1> HIDE DEF t, p
<1>5. \A i \in start(t) + 1 .. Len(t) : i = Len(s) + 1 \/ i \in start(t) + 1 .. Len(s)
    BY <1>4
<1>6. Opened(t, Len(t))
    BY <1>1, <1>4, <1>5 DEF Opened
<1> QED BY <1>1, <1>6 DEF Grammar

\* The formula is closed outside the order file, or the program ends.
LEMMA CloseIsLast ==
  ASSUME Reads, Types, Grammar, ReadClose
  PROVE  Grammar'
<1> DEFINE s == read
           p == Head(ahead)
           t == Append(s, p)
<1>1. pc = "reading" /\ place = "clauses" /\ place' = "end" /\ ahead # <<>>
      /\ read' = t /\ p.kind = "close" /\ s \in Seq(Pieces) /\ orderFileGiven' = orderFileGiven
      /\ (IF orderFileGiven THEN pc' = "done" ELSE pc' = pc)
    BY DEF ReadClose, reading, reduce, Reads, exit
<1>2. p \in Pieces
    BY <1>1, HeadAndTail DEF Reads
<1>3. Opened(s, Len(s))
    BY <1>1 DEF Grammar
<1>4. /\ start(t) = start(s) /\ Opened(t, Len(s)) /\ Len(t) = Len(s) + 1 /\ t[Len(s) + 1] = p
      /\ start(s) \in {1, 2} /\ start(s) <= Len(s) /\ Len(s) \in Nat
    BY <1>1, <1>2, <1>3, OpenedStays
<1> HIDE DEF t, p
<1>5. start(t) < Len(t) /\ Len(t) - 1 = Len(s) /\ t[Len(t)] = p
    BY <1>4
<1>6. pc' # "done" => ~ orderFileGiven'
    BY <1>1
<1> QED BY <1>1, <1>4, <1>5, <1>6 DEF Grammar

\* Every step keeps what was read as the grammar has it.
LEMMA GrammarKeeps ==
  ASSUME Reads, Types, Grammar, [Next]_vars
  PROVE  Grammar'
<1>1. ASSUME pc' = "done" PROVE Grammar'
    BY <1>1 DEF Grammar
<1>2. ASSUME read' = read, place' = place, pc # "done", ~ orderFileGiven => ~ orderFileGiven',
             pc' \in {"options", "open"} => place = "start",
             pc' \in {"prover", "search"} => place = "end"
      PROVE  Grammar'
    BY <1>2 DEF Grammar
<1>3. CASE ReadOrder
    BY <1>3, OrderIsFirst
<1>4. CASE ReadOpen
    BY <1>4, OpenIsNext
<1>5. CASE ReadClause
    BY <1>5, ClauseIsInside
<1>6. CASE ReadEmptyClause \/ SyntaxError \/ \E r \in {"Unsatisfiable", "Satisfiable"} : Answer(r)
    BY <1>1, <1>6 DEF ReadEmptyClause, SyntaxError, Answer, exit
<1>7. CASE ReadClose
    BY <1>7, CloseIsLast
<1>8. CASE ParseOptions \/ BuildAtom \/ Wrap \/ Accept \/ ShowInput
    <2>1. CASE pc' = "done"
        BY <1>1, <2>1
    <2>2. CASE pc' # "done"
        <3>1. /\ read' = read /\ place' = place /\ pc # "done"
              /\ orderFileGiven' = orderFileGiven \/ orderFileGiven' = FALSE
            BY <1>8 DEF ParseOptions, BuildAtom, Wrap, Accept, ShowInput, reading, parseVars
        <3>2. /\ pc' \in {"options", "open"} => place = "start"
              /\ pc' \in {"prover", "search"} => place = "end"
            BY <1>8, <2>2 DEF Grammar, ParseOptions, BuildAtom, Wrap, Accept, ShowInput, reading, exit
        <3>3. ~ orderFileGiven => ~ orderFileGiven'
            BY Zenon, <3>1
        <3> QED BY <1>2, <3>1, <3>2, <3>3
    <2> QED BY <2>1, <2>2
<1>9. CASE OpenFiles
    <2>1. CASE pc' = "done"
        BY <1>1, <2>1
    <2>2. CASE pc' # "done"
        <3>1. pc = "open" /\ pc' = "reading" /\ place' = place /\ read' = read
            BY <1>9, <2>2 DEF OpenFiles, exit
        <3>2. place = "start" /\ read = <<>>
            BY <3>1 DEF Grammar
        <3> QED BY <3>1, <3>2 DEF Grammar
    <2> QED BY <2>1, <2>2
<1>10. CASE Done \/ UNCHANGED vars
    <2>1. UNCHANGED <<pc, place, read, orderFileGiven>>
        BY <1>10 DEF Done, vars, parseVars
    <2> QED BY <2>1 DEF Grammar
<1> QED BY <1>3, <1>4, <1>5, <1>6, <1>7, <1>8, <1>9, <1>10 DEF Next, Step

\* Whatever the files hold, what the prover is given was one well-formed
\* problem, closed in the input file.
THEOREM AcceptsProblems == Spec => []AcceptedIsProblem
<1>1. Init => Reads /\ IdInv /\ Types /\ Grammar
    <2> SUFFICES ASSUME Init PROVE Types /\ Grammar
        BY InitIds
    <2>1. Types
        BY InitTypes
    <2>2. Grammar
        BY DEF Init, Grammar
    <2> QED BY <2>1, <2>2
<1>2. Reads /\ IdInv /\ Types /\ Grammar /\ [Next]_vars => (Reads /\ IdInv /\ Types /\ Grammar)'
    BY ReadsKeeps, IdsKeep, TypesKeep, GrammarKeeps
<1>3. Reads /\ IdInv /\ Types /\ Grammar => AcceptedIsProblem
    <2> SUFFICES ASSUME Grammar, pc \in {"prover", "search"}
                 PROVE  LET b == IF read # <<>> /\ read[1].kind = "order" THEN 2 ELSE 1
                            e == Len(read)
                        IN  /\ b < e /\ read[b].kind = "open" /\ read[e].kind = "close"
                            /\ \A i \in b + 1 .. e - 1 : read[i].kind \in ClauseKinds /\ ~ empty(read[i])
                            /\ ~ orderFileGiven
        BY DEF AcceptedIsProblem
    <2>1. /\ Opened(read, Len(read) - 1) /\ start(read) < Len(read) /\ read[Len(read)].kind = "close"
          /\ ~ orderFileGiven
        BY DEF Grammar
    <2> QED BY <2>1 DEF Opened, start
<1> QED BY <1>1, <1>2, <1>3, PTL DEF Spec

-----------------------------------------------------------------------------
(***************************************************************************)
(* What is built.                                                          *)
(***************************************************************************)
\* A clause as it is meant under the ids, and an eventuality clause.
meaningIn(ids, piece) ==
  LET at(ws, a) == {[prop |-> ids[ws[i].name], neg |-> ws[i].neg, attr |-> a] : i \in 1 .. Len(ws)}
  IN  CASE piece.kind = "initial" -> at(piece.now, "initial")
        [] piece.kind = "step"    -> at(piece.now, "step_now") \cup at(piece.next, "step_next")
        [] OTHER -> at(piece.now, "universal")
eventualityIn(ids, piece) ==
  [now |-> meaningIn(ids, piece),
   ev  |-> [prop |-> ids[piece.next[1].name], neg |-> piece.next[1].neg]]

\* A piece that becomes a clause of the clause set.
IsWanted(piece) ==
  /\ piece.kind \in {"initial", "universal", "step"}
  /\ ~ tautology(piece.now) /\ ~ tautology(piece.next)
IsSometime(piece) == piece.kind = "sometime"

clausesIn(ids, s) == [i \in {i \in 1 .. Len(s) : IsWanted(s[i])} |-> meaningIn(ids, s[i])]
eventualitiesIn(ids, s) == [i \in {i \in 1 .. Len(s) : IsSometime(s[i])} |-> eventualityIn(ids, s[i])]

\* f with one more value, at place k.
grown(f, k, c) == [i \in DOMAIN f \cup {k} |-> IF i = k THEN c ELSE f[i]]

BuiltInv ==
  pc # "done" => /\ lists(pushed, clausesIn(name2id, read))
                 /\ lists(elist, eventualitiesIn(name2id, read))

\* What is put behind a list is one more value at a later place.
LEMMA ListAppends ==
  ASSUME NEW S, NEW q \in Seq(S), NEW c \in S, NEW n \in Nat, NEW f, DOMAIN f \subseteq 1 .. n,
         lists(q, f)
  PROVE  lists(Append(q, c), grown(f, n + 1, c))
<1> DEFINE m == Len(q)
           r == Append(q, c)
           F == DOMAIN f
           g == grown(f, n + 1, c)
<1>1. /\ m \in Nat /\ DOMAIN q = 1 .. m /\ DOMAIN r = 1 .. m + 1 /\ r[m + 1] = c
      /\ \A i \in 1 .. m : r[i] = q[i]
    BY AppendProperties, LenProperties
<1>2. PICK from \in [1 .. m -> F] :
        /\ {from[i] : i \in 1 .. m} = F
        /\ \A i, j \in 1 .. m : i < j => from[i] < from[j]
        /\ \A i \in 1 .. m : q[i] = f[from[i]]
    BY <1>1 DEF lists
<1> HIDE DEF m, r
<1>3. /\ 1 .. m + 1 = 1 .. m \cup {m + 1} /\ m + 1 \notin 1 .. m
      /\ n + 1 \notin F
      /\ \A i \in F : i < n + 1
      /\ \A i \in 1 .. m : ~ m + 1 < i
      /\ ~ m + 1 < m + 1
    BY <1>1
<1>4. /\ DOMAIN g = F \cup {n + 1} /\ g[n + 1] = c
      /\ \A i \in F : g[i] = f[i]
    BY <1>3 DEF grown
<1> HIDE DEF F, g
<1> DEFINE onto == [i \in 1 .. m + 1 |-> IF i = m + 1 THEN n + 1 ELSE from[i]]
<1>5. /\ \A i \in 1 .. m : onto[i] = from[i] /\ from[i] \in F
      /\ onto[m + 1] = n + 1
    BY <1>2, <1>3
<1>6. onto \in [1 .. m + 1 -> F \cup {n + 1}]
    BY <1>2, <1>3
<1> HIDE DEF onto
<1>7. {onto[i] : i \in 1 .. m + 1} = F \cup {n + 1}
    <2>1. {onto[i] : i \in 1 .. m + 1} = {from[i] : i \in 1 .. m} \cup {n + 1}
        BY <1>3, <1>5
    <2> QED BY <1>2, <2>1
<1>8. \A i, j \in 1 .. m + 1 : i < j => onto[i] < onto[j]
    <2> SUFFICES ASSUME NEW i \in 1 .. m + 1, NEW j \in 1 .. m + 1, i < j PROVE onto[i] < onto[j]
        OBVIOUS
    <2>1. i \in 1 .. m
        BY <1>3
    <2>2. CASE j \in 1 .. m
        BY <1>2, <1>5, <2>1, <2>2
    <2>3. CASE j = m + 1
        BY <1>3, <1>5, <2>1, <2>3
    <2> QED BY <1>3, <2>2, <2>3
<1>9. \A i \in 1 .. m + 1 : r[i] = g[onto[i]]
    <2> SUFFICES ASSUME NEW i \in 1 .. m + 1 PROVE r[i] = g[onto[i]]
        OBVIOUS
    <2>1. CASE i \in 1 .. m
        BY <1>1, <1>2, <1>4, <1>5, <2>1
    <2>2. CASE i = m + 1
        BY <1>1, <1>4, <1>5, <2>2
    <2> QED BY <1>3, <2>1, <2>2
<1>10. lists(r, g)
    BY <1>1, <1>4, <1>6, <1>7, <1>8, <1>9 DEF lists
<1> QED BY <1>10 DEF r, g, F

\* What one more piece adds to the clauses read.
LEMMA OneMorePiece ==
  ASSUME NEW ids, NEW s \in Seq(Pieces), NEW p \in Pieces
  PROVE  LET t == Append(s, p)
             n == Len(s)
             C == clausesIn(ids, s)
             E == eventualitiesIn(ids, s)
         IN  /\ clausesIn(ids, t) = IF IsWanted(p) THEN grown(C, n + 1, meaningIn(ids, p)) ELSE C
             /\ eventualitiesIn(ids, t) =
                  IF IsSometime(p) THEN grown(E, n + 1, eventualityIn(ids, p)) ELSE E
             /\ DOMAIN C \subseteq 1 .. n /\ DOMAIN E \subseteq 1 .. n
<1> DEFINE t == Append(s, p)
           n == Len(s)
           C == clausesIn(ids, s)
           E == eventualitiesIn(ids, s)
           CD == {i \in 1 .. n : IsWanted(s[i])}
           ED == {i \in 1 .. n : IsSometime(s[i])}
<1>1. /\ n \in Nat /\ Len(t) = n + 1 /\ t[n + 1] = p
      /\ \A i \in 1 .. n : t[i] = s[i]
    BY AppendProperties, LenProperties
<1>2. /\ C = [i \in CD |-> meaningIn(ids, s[i])] /\ DOMAIN C = CD
      /\ E = [i \in ED |-> eventualityIn(ids, s[i])] /\ DOMAIN E = ED
    BY DEF clausesIn, eventualitiesIn
<1>3. /\ clausesIn(ids, t) = [i \in {i \in 1 .. n + 1 : IsWanted(t[i])} |-> meaningIn(ids, t[i])]
      /\ eventualitiesIn(ids, t) = [i \in {i \in 1 .. n + 1 : IsSometime(t[i])} |-> eventualityIn(ids, t[i])]
    BY <1>1 DEF clausesIn, eventualitiesIn
<1> HIDE DEF t, n, C, E
<1>4. 1 .. n + 1 = 1 .. n \cup {n + 1} /\ n + 1 \notin 1 .. n
    BY <1>1
<1>5. /\ {i \in 1 .. n + 1 : IsWanted(t[i])} = IF IsWanted(p) THEN CD \cup {n + 1} ELSE CD
      /\ {i \in 1 .. n + 1 : IsSometime(t[i])} = IF IsSometime(p) THEN ED \cup {n + 1} ELSE ED
    BY <1>1, <1>4
<1>6. /\ \A i \in CD : C[i] = meaningIn(ids, t[i]) /\ i # n + 1
      /\ \A i \in ED : E[i] = eventualityIn(ids, t[i]) /\ i # n + 1
      /\ CD \subseteq 1 .. n /\ ED \subseteq 1 .. n
    BY <1>1, <1>2, <1>4
<1> HIDE DEF CD, ED
<1>7. clausesIn(ids, t) =
        IF IsWanted(p) THEN grown(C, n + 1, meaningIn(ids, p)) ELSE C
    <2>1. CASE IsWanted(p)
        BY <1>1, <1>2, <1>3, <1>5, <1>6, <2>1 DEF grown
    <2>2. CASE ~ IsWanted(p)
        <3>1. clausesIn(ids, t) = [i \in CD |-> meaningIn(ids, t[i])]
            BY <1>3, <1>5, <2>2
        <3>2. C = [i \in CD |-> C[i]]
            BY <1>2, <1>6
        <3> QED BY <1>6, <2>2, <3>1, <3>2
    <2> QED BY <2>1, <2>2
<1>8. eventualitiesIn(ids, t) =
        IF IsSometime(p) THEN grown(E, n + 1, eventualityIn(ids, p)) ELSE E
    <2>1. CASE IsSometime(p)
        BY <1>1, <1>2, <1>3, <1>5, <1>6, <2>1 DEF grown
    <2>2. CASE ~ IsSometime(p)
        <3>1. eventualitiesIn(ids, t) = [i \in ED |-> eventualityIn(ids, t[i])]
            BY <1>3, <1>5, <2>2
        <3>2. E = [i \in ED |-> E[i]]
            BY <1>2, <1>6
        <3> QED BY <1>6, <2>2, <3>1, <3>2
    <2> QED BY <2>1, <2>2
<1> QED BY <1>2, <1>6, <1>7, <1>8 DEF t, n, C, E

\* Names that have their ids keep their meaning.
LEMMA MeaningStays ==
  ASSUME NEW p \in Pieces, Known(p), \A n \in DOMAIN name2id : name2id'[n] = name2id[n]
  PROVE  /\ meaningIn(name2id', p) = meaningIn(name2id, p)
         /\ IsSometime(p) => eventualityIn(name2id', p) = eventualityIn(name2id, p)
<1>1. /\ p.now \in Seq(Written) /\ p.next \in Seq(Written)
      /\ IsSometime(p) => Len(p.next) = 1
    BY PieceParts DEF IsSometime
<1>2. /\ \A i \in 1 .. Len(p.now) : p.now[i].name \in DOMAIN name2id
      /\ \A i \in 1 .. Len(p.next) : p.next[i].name \in DOMAIN name2id
    BY <1>1 DEF Known, ToSet
<1> DEFINE at(ids, ws, a) == {[prop |-> ids[ws[i].name], neg |-> ws[i].neg, attr |-> a] : i \in 1 .. Len(ws)}
           ids2 == name2id'
<1>3. /\ \A i \in 1 .. Len(p.now) : ids2[p.now[i].name] = name2id[p.now[i].name]
      /\ \A i \in 1 .. Len(p.next) : ids2[p.next[i].name] = name2id[p.next[i].name]
    BY <1>2
<1> HIDE DEF ids2
<1>4. \A a : at(ids2, p.now, a) = at(name2id, p.now, a) /\ at(ids2, p.next, a) = at(name2id, p.next, a)
    BY <1>3
<1>5. \A ids : meaningIn(ids, p) =
        CASE p.kind = "initial" -> at(ids, p.now, "initial")
          [] p.kind = "step"    -> at(ids, p.now, "step_now") \cup at(ids, p.next, "step_next")
          [] OTHER -> at(ids, p.now, "universal")
    BY DEF meaningIn
<1> HIDE DEF at
<1>6. meaningIn(ids2, p) = meaningIn(name2id, p)
    BY <1>4, <1>5
<1>7. IsSometime(p) => eventualityIn(ids2, p) = eventualityIn(name2id, p)
    <2> SUFFICES ASSUME IsSometime(p) PROVE eventualityIn(ids2, p) = eventualityIn(name2id, p)
        OBVIOUS
    <2>1. 1 \in 1 .. Len(p.next)
        <3>1. Len(p.next) = 1
            BY <1>1
        <3> QED BY <3>1
    <2>2. ids2[p.next[1].name] = name2id[p.next[1].name]
        BY <1>3, <2>1
    <2> QED BY <1>6, <2>2 DEF eventualityIn
<1> QED BY <1>6, <1>7 DEF ids2

\* An atom that is interned changes no clause.
LEMMA AtomBuildsNothing ==
  ASSUME Reads, IdInv, BuiltInv, BuildAtom
  PROVE  BuiltInv'
<1>1. pc # "done" /\ read' = read /\ pushed' = pushed /\ elist' = elist
      /\ name2id' = intern(name2id, nextAtom(Head(ahead)).name) /\ read \in Seq(Pieces)
    BY DEF BuildAtom, reading, Reads
<1>2. \A n \in DOMAIN name2id : name2id'[n] = name2id[n]
    BY <1>1 DEF intern
<1> DEFINE ids2 == name2id'
<1>3. \A i \in 1 .. Len(read) :
        /\ meaningIn(ids2, read[i]) = meaningIn(name2id, read[i])
        /\ IsSometime(read[i]) => eventualityIn(ids2, read[i]) = eventualityIn(name2id, read[i])
    <2> SUFFICES ASSUME NEW i \in 1 .. Len(read)
                 PROVE  /\ meaningIn(name2id', read[i]) = meaningIn(name2id, read[i])
                        /\ IsSometime(read[i]) =>
                             eventualityIn(name2id', read[i]) = eventualityIn(name2id, read[i])
        OBVIOUS
    <2>1. i \in DOMAIN read /\ read[i] \in Pieces
        BY <1>1
    <2>2. Known(read[i])
        BY <2>1, ReadKnown
    <2> QED BY <1>2, <2>1, <2>2, MeaningStays
<1> HIDE DEF ids2
<1>4. /\ clausesIn(ids2, read) = clausesIn(name2id, read)
      /\ eventualitiesIn(ids2, read) = eventualitiesIn(name2id, read)
    BY <1>3 DEF clausesIn, eventualitiesIn
<1>5. /\ lists(pushed, clausesIn(ids2, read))
      /\ lists(elist, eventualitiesIn(ids2, read))
    BY <1>1, <1>4 DEF BuiltInv
<1>6. /\ lists(pushed', clausesIn(name2id', read'))
      /\ lists(elist', eventualitiesIn(name2id', read'))
    BY <1>1, <1>5 DEF ids2
<1> QED BY <1>6 DEF BuiltInv

\* A clause is built as it is meant, and if it is no tautology; an eventuality
\* clause in any case.
LEMMA ClauseBuilds ==
  ASSUME Reads, IdInv, Types, BuiltInv, ReadClause
  PROVE  BuiltInv'
<1> DEFINE p == Head(ahead)
           lits == made(name2id, p)
           C == clausesIn(name2id, read)
           E == eventualitiesIn(name2id, read)
           n == Len(read)
<1>1. pc # "done" /\ read' = Append(read, p) /\ name2id' = name2id /\ read \in Seq(Pieces)
      /\ pushed \in Seq(OneKindClauses) /\ elist \in Seq(Eventualities)
      /\ p.kind \in ClauseKinds /\ ahead # <<>> /\ reduce
    BY DEF ReadClause, reading, Reads, Types, reduce
<1>2. p \in Pieces /\ Known(p)
    BY <1>1, HeadAndTail, HeadKnown DEF Reads
<1>3. lists(pushed, C) /\ lists(elist, E)
    BY <1>1 DEF BuiltInv
<1>4. lits = meaningIn(name2id, p)
    <2>1. lits = meaning(p)
        BY <1>1, <1>2, MadeIsMeaning
    <2> QED BY <2>1 DEF meaning, meaningIn
<1>5. IF IsSometime(p)
      THEN elist' = Append(elist, eventualityIn(name2id, p)) /\ pushed' = pushed
      ELSE pushed' = (IF kept(lits) THEN Append(pushed, lits) ELSE pushed) /\ elist' = elist
    BY <1>4 DEF ReadClause, IsSometime, eventualityIn
<1>6. ~ IsSometime(p) => (kept(lits) <=> IsWanted(p))
    <2> SUFFICES ASSUME ~ IsSometime(p) PROVE kept(lits) <=> IsWanted(p)
        OBVIOUS
    <2>1. p.kind \in {"initial", "universal", "step"}
        BY <1>1 DEF ClauseKinds, IsSometime
    <2>2. kept(lits) <=> ~ tautology(p.now) /\ ~ tautology(p.next)
        BY <1>2, <2>1, KeptIs
    <2> QED BY <2>1, <2>2 DEF IsWanted
<1>7. IsSometime(p) => ~ IsWanted(p)
    BY DEF IsWanted, IsSometime
<1>8. lits \in OneKindClauses
    BY <1>1, <1>2, MadeClause DEF OneKindClauses
<1>9. IsSometime(p) => eventualityIn(name2id, p) \in Eventualities
    <2> SUFFICES ASSUME IsSometime(p) PROVE eventualityIn(name2id, p) \in Eventualities
        OBVIOUS
    <2>1. p.next \in Seq(Written) /\ Len(p.next) = 1
        BY <1>2, PieceParts DEF IsSometime
    <2>2. p.next[1] \in ToSet(p.next)
        BY <2>1 DEF ToSet
    <2>3. p.next[1] \in Written /\ p.next[1].name \in DOMAIN name2id
        BY <1>2, <2>2 DEF Known
    <2>4. p.next[1].neg \in BOOLEAN /\ name2id[p.next[1].name] \in Prop
        BY <2>3, IdsInProp DEF Written
    <2>5. meaningIn(name2id, p) \in Clauses
        BY <1>4, <1>8 DEF OneKindClauses
    <2> QED BY <2>4, <2>5 DEF eventualityIn, Eventualities
<1>10. /\ clausesIn(name2id, Append(read, p)) =
            IF IsWanted(p) THEN grown(C, n + 1, meaningIn(name2id, p)) ELSE C
       /\ eventualitiesIn(name2id, Append(read, p)) =
            IF IsSometime(p) THEN grown(E, n + 1, eventualityIn(name2id, p)) ELSE E
       /\ DOMAIN C \subseteq 1 .. n /\ DOMAIN E \subseteq 1 .. n
    BY <1>1, <1>2, OneMorePiece
<1>11. n \in Nat
    BY <1>1, LenProperties
<1> HIDE DEF p, lits, C, E, n
<1>12. lists(pushed', clausesIn(name2id, Append(read, p)))
    <2>1. CASE IsWanted(p)
        <3>1. pushed' = Append(pushed, meaningIn(name2id, p)) /\ meaningIn(name2id, p) \in OneKindClauses
            BY <1>4, <1>5, <1>6, <1>7, <1>8, <2>1
        <3>2. lists(Append(pushed, meaningIn(name2id, p)), grown(C, n + 1, meaningIn(name2id, p)))
            BY <1>1, <1>3, <1>10, <1>11, <3>1, ListAppends
        <3> QED BY <1>10, <2>1, <3>1, <3>2
    <2>2. CASE ~ IsWanted(p)
        BY <1>3, <1>5, <1>6, <1>10, <2>2
    <2> QED BY <2>1, <2>2
<1>13. lists(elist', eventualitiesIn(name2id, Append(read, p)))
    <2>1. CASE IsSometime(p)
        <3>1. lists(Append(elist, eventualityIn(name2id, p)), grown(E, n + 1, eventualityIn(name2id, p)))
            BY <1>1, <1>3, <1>9, <1>10, <1>11, <2>1, ListAppends
        <3> QED BY <1>5, <1>10, <2>1, <3>1
    <2>2. CASE ~ IsSometime(p)
        BY <1>3, <1>5, <1>10, <2>2
    <2> QED BY <2>1, <2>2
<1> QED BY <1>1, <1>12, <1>13 DEF BuiltInv

\* Every step keeps what is built as it was read.
LEMMA BuiltKeeps ==
  ASSUME Reads, IdInv, Types, BuiltInv, [Next]_vars
  PROVE  BuiltInv'
<1>1. ASSUME pc' = "done" PROVE BuiltInv'
    BY <1>1 DEF BuiltInv
<1>2. ASSUME pc # "done", read' = read, pushed' = pushed, elist' = elist, name2id' = name2id PROVE BuiltInv'
    BY <1>2 DEF BuiltInv
<1>3. CASE BuildAtom
    BY <1>3, AtomBuildsNothing
<1>4. CASE ReadClause
    BY <1>4, ClauseBuilds
<1>5. CASE ReadOrder \/ ReadOpen \/ ReadClose
    <2> DEFINE p == Head(ahead)
    <2>1. /\ pc # "done" /\ read' = Append(read, p) /\ pushed' = pushed /\ elist' = elist
          /\ name2id' = name2id /\ ahead # <<>> /\ p.kind \in {"order", "open", "close"}
        BY <1>5 DEF ReadOrder, ReadOpen, ReadClose, reading, reduce
    <2>2. p \in Pieces /\ ~ IsWanted(p) /\ ~ IsSometime(p) /\ read \in Seq(Pieces)
        BY <2>1, HeadAndTail DEF Reads, IsWanted, IsSometime
    <2> HIDE DEF p
    <2>3. /\ clausesIn(name2id, Append(read, p)) = clausesIn(name2id, read)
          /\ eventualitiesIn(name2id, Append(read, p)) = eventualitiesIn(name2id, read)
        BY <2>2, OneMorePiece
    <2> QED BY <2>1, <2>3 DEF BuiltInv
<1>6. CASE ReadEmptyClause \/ SyntaxError \/ \E r \in {"Unsatisfiable", "Satisfiable"} : Answer(r)
    BY <1>1, <1>6 DEF ReadEmptyClause, SyntaxError, Answer, exit
<1>7. CASE ParseOptions \/ OpenFiles \/ Wrap \/ Accept \/ ShowInput
    <2>1. pc # "done" /\ read' = read /\ pushed' = pushed /\ elist' = elist /\ name2id' = name2id
        BY <1>7 DEF ParseOptions, OpenFiles, Wrap, Accept, ShowInput, parseVars
    <2> QED BY <1>2, <2>1
<1>8. CASE Done \/ UNCHANGED vars
    <2>1. UNCHANGED <<pc, read, pushed, elist, name2id>>
        BY <1>8 DEF Done, vars, parseVars
    <2> QED BY <2>1 DEF BuiltInv
<1> QED BY <1>3, <1>4, <1>5, <1>6, <1>7, <1>8 DEF Next, Step

\* Whatever the files hold, the prover is given the clauses that were read,
\* as they are meant, in their order, and without the tautologies, and every
\* eventuality clause with the literal it owes.
THEOREM BuildsExactly == Spec => []BuiltExact
<1>1. Init => Reads /\ IdInv /\ Types /\ BuiltInv
    <2> SUFFICES ASSUME Init PROVE BuiltInv
        BY InitIds, InitTypes
    <2>1. read = <<>> /\ pushed = <<>> /\ elist = <<>> /\ Len(<<>>) = 0 /\ 1 .. 0 = {} /\ DOMAIN <<>> = {}
        BY DEF Init
    <2>2. DOMAIN clausesIn(name2id, read) = {} /\ DOMAIN eventualitiesIn(name2id, read) = {}
        BY <2>1 DEF clausesIn, eventualitiesIn
    <2>3. \A f : DOMAIN f = {} => lists(<<>>, f)
        <3> SUFFICES ASSUME NEW f, DOMAIN f = {} PROVE lists(<<>>, f)
            OBVIOUS
        <3>1. [i \in {} |-> 0] \in [DOMAIN <<>> -> DOMAIN f]
            BY <2>1
        <3> QED BY <2>1, <3>1 DEF lists
    <2> QED BY <2>1, <2>2, <2>3 DEF BuiltInv
<1>2. Reads /\ IdInv /\ Types /\ BuiltInv /\ [Next]_vars => (Reads /\ IdInv /\ Types /\ BuiltInv)'
    BY ReadsKeeps, IdsKeep, TypesKeep, BuiltKeeps
<1>3. Reads /\ IdInv /\ Types /\ BuiltInv => BuiltExact
    <2> SUFFICES ASSUME Reads, BuiltInv, pc \in {"prover", "search"}
                 PROVE  lists(pushed, clausesRead) /\ lists(elist, eventualitiesRead)
        BY DEF BuiltExact
    <2>1. DOMAIN read = 1 .. Len(read)
        BY DEF Reads
    <2>2. \A p : meaning(p) = meaningIn(name2id, p)
        BY DEF meaning, meaningIn
    <2>3. clausesRead = clausesIn(name2id, read)
        BY <2>1, <2>2 DEF clausesRead, clausesIn, IsWanted
    <2>4. eventualitiesRead = eventualitiesIn(name2id, read)
        BY <2>1, <2>2 DEF eventualitiesRead, eventualitiesIn, eventualityIn, IsSometime
    <2> QED BY <2>3, <2>4 DEF BuiltInv
<1> QED BY <1>1, <1>2, <1>3, PTL DEF Spec
=============================================================================
