------------------------------- MODULE FrontEnd -------------------------------
(***************************************************************************)
(* From the command line to the call of the prover: main.cc, TRPPPOptions  *)
(* (src/src/getopt/options.cc), TRPParser (src/src/builder/parse.h), the   *)
(* grammar and the scanner (src/src/builder/trp), the builder              *)
(* (src/src/builder/builder.h), TRIM and the clause constructors, and the  *)
(* symbol table (stl_tim/symbol.h).                                        *)
(*                                                                         *)
(* A file is a sequence of pieces: an order section, the opening and the   *)
(* closing of the formula, a clause with its literals as they stand, or    *)
(* something the scanner does not know.  bison reduces the atoms of a      *)
(* piece one after the other and then the piece.  A file that cannot be    *)
(* opened is {}, another one the singleton of its pieces.                  *)
(***************************************************************************)
EXTENDS TemporalClauses, SequencesExt

CONSTANTS
  Names,        \* identifiers
  InputFiles,   \* what the input file may be
  OrderFiles,   \* what the order file may be
  CommandLines  \* what the command line may ask for

ClauseKinds == {"initial", "universal", "step", "sometime"}
PieceKinds  == ClauseKinds \cup {"order", "open", "close", "bad"}
Written     == [name : Names, neg : BOOLEAN]
Pieces ==
  {piece \in [kind : PieceKinds, now : Seq(Written), next : Seq(Written)] :
     /\ piece.kind \in {"open", "close", "bad"} => piece.now = <<>>
     /\ piece.kind \notin {"step", "sometime"} => piece.next = <<>>
     /\ piece.kind = "step" => piece.next # <<>>
     /\ piece.kind = "sometime" => Len(piece.next) = 1}

ASSUME FrontEndAssumption ==
  /\ IsFiniteSet(Names) /\ Prop = 1 .. Cardinality(Names)
  /\ \A f \in InputFiles \cup OrderFiles :
       f \subseteq Seq(Pieces) /\ Cardinality(f) <= 1
  /\ \A o \in CommandLines :
       o \in [quiet : BOOLEAN, showInput : BOOLEAN, showResult : BOOLEAN,
              selectBy : {"", "DFS", "BFS", "other"}, order : BOOLEAN, inputs : Nat]

VARIABLES
  pc,             \* where main is
  options,        \* the command line
  input, order,   \* the files it names; no order file is {}
  orderFileGiven, \* trp_yyin is still the order file
  ahead,          \* what is left of trp_yyin
  atoms,          \* how many atoms of its first piece are reduced
  place,          \* of the grammar: what may come next
  name2id,        \* the symbol table
  pushed,         \* the clauses of the clause set, oldest first
  elist,          \* its eventuality clauses
  printed,        \* what main printed
  exitCode,       \* -1 while the program runs
  read            \* history: the pieces read so far

fileVars == <<options, input, order>>
parseVars == <<orderFileGiven, ahead, atoms, place, name2id, pushed, elist, read>>
vars == <<pc, fileVars, parseVars, printed, exitCode>>

Init ==
  /\ pc = "options"
  /\ options \in CommandLines
  /\ input \in InputFiles
  /\ order \in (IF options.order THEN OrderFiles ELSE {{}})
  /\ orderFileGiven = FALSE /\ ahead = <<>> /\ atoms = 0 /\ place = "start"
  /\ name2id = [n \in {} |-> 0]
  /\ pushed = <<>> /\ elist = <<>>
  /\ printed = <<>> /\ exitCode = -1
  /\ read = <<>>

\* The catch clauses of main: an Exception ends the program with 0, a string
\* with 1; the empty clause is an answer.
exit(code, lines) ==
  /\ pc' = "done"
  /\ exitCode' = code
  /\ printed' = printed \o lines

refused(o) ==
  \/ o.inputs # 1
  \/ o.quiet /\ (o.showInput \/ o.showResult)
  \/ o.selectBy = "other"

ParseOptions ==
  /\ pc = "options"
  /\ IF refused(options)
     THEN exit(0, <<"WrongOption">>)
     ELSE pc' = "open" /\ UNCHANGED <<exitCode, printed>>
  /\ UNCHANGED <<fileVars, parseVars>>

\* TRPParser::TRPParser: the input file is opened first and read last.
OpenFiles ==
  /\ pc = "open"
  /\ IF input = {} \/ (options.order /\ order = {})
     THEN exit(0, <<"FileError">>) /\ UNCHANGED <<orderFileGiven, ahead>>
     ELSE /\ pc' = "reading"
          /\ orderFileGiven' = options.order
          /\ \E pieces \in (IF options.order THEN order ELSE input) : ahead' = pieces
          /\ UNCHANGED <<exitCode, printed>>
  /\ UNCHANGED <<fileVars, atoms, place, name2id, pushed, elist, read>>

-----------------------------------------------------------------------------
(***************************************************************************)
(* The builder.                                                            *)
(***************************************************************************)
\* GenericSymbol::GenericSymbol: ids from 1, by first mention.
intern(ids, n) ==
  IF n \in DOMAIN ids THEN ids
  ELSE [m \in DOMAIN ids \cup {n} |-> IF m = n THEN Cardinality(DOMAIN ids) + 1 ELSE ids[m]]

literals(piece) == piece.now \o piece.next

\* Variant: the literals of a list are interned as the list is put together,
\* from the last one to the first.
nextAtomBackwards(piece) == literals(piece)[Len(literals(piece)) - atoms]

\* The atoms of a piece are reduced from left to right, although the lists
\* of literals are put together from their last element.
nextAtom(piece) == literals(piece)[atoms + 1]

\* make_iclause, make_uclause, make_sclause, make_eclause: the attributes
\* are given by the kind of clause.
tagged(ids, ws, a) == {[prop |-> ids[w.name], neg |-> w.neg, attr |-> a] : w \in ToSet(ws)}
made(ids, piece) ==
  CASE piece.kind = "initial" -> tagged(ids, piece.now, "initial")
    [] piece.kind \in {"universal", "sometime"} -> tagged(ids, piece.now, "universal")
    [] piece.kind = "step" ->
         tagged(ids, piece.now, "step_now") \cup tagged(ids, piece.next, "step_next")

\* Variant: tautologies are kept.
keptAll(lits) == TRUE

\* Adaptor::push_back looks for a complementary pair.
kept(lits) == isCorrect("normal", lits)

-----------------------------------------------------------------------------
(***************************************************************************)
(* The grammar.                                                            *)
(***************************************************************************)
reading(kinds) ==
  pc = "reading" /\ ahead # <<>> /\ Head(ahead).kind \in kinds

\* The rule of a whole piece.
reduce ==
  /\ atoms = Len(literals(Head(ahead))) /\ atoms' = 0
  /\ ahead' = Tail(ahead)
  /\ read' = Append(read, Head(ahead))
  /\ name2id' = name2id

\* What the grammar can go on with.
expected ==
  CASE place = "start"   -> {"order", "open"}
    [] place = "formula" -> {"open"}
    [] place = "clauses" -> ClauseKinds \cup {"close"}
    [] place = "end"     -> {}

BuildAtom ==
  /\ reading(expected)
  /\ atoms < Len(literals(Head(ahead))) /\ atoms' = atoms + 1
  /\ name2id' = intern(name2id, nextAtom(Head(ahead)).name)
  /\ UNCHANGED <<pc, fileVars, orderFileGiven, ahead, place, pushed, elist, read, printed, exitCode>>

\* order(...).
ReadOrder ==
  /\ reading({"order"}) /\ place = "start"
  /\ reduce
  /\ place' = "formula"
  /\ UNCHANGED <<pc, fileVars, orderFileGiven, pushed, elist, printed, exitCode>>

\* and([
ReadOpen ==
  /\ reading({"open"}) /\ place \in {"start", "formula"}
  /\ reduce
  /\ place' = "clauses"
  /\ UNCHANGED <<pc, fileVars, orderFileGiven, pushed, elist, printed, exitCode>>

\* build_initial, the "dirty hack"
empty(piece) == piece.kind = "initial" /\ piece.now = <<>>

\* Variant: eventuality clauses go through the test of push_back as well.
ReadClauseNoTautology ==
  /\ reading(ClauseKinds) /\ place = "clauses"
  /\ ~ empty(Head(ahead))
  /\ reduce
  /\ LET lits == made(name2id, Head(ahead))
         ev   == Head(ahead).next[1]
     IN  IF Head(ahead).kind = "sometime"
         THEN /\ elist' = IF kept(lits)
                          THEN Append(elist, [now |-> lits, ev |-> [prop |-> name2id[ev.name], neg |-> ev.neg]])
                          ELSE elist
              /\ pushed' = pushed
         ELSE /\ pushed' = IF kept(lits) THEN Append(pushed, lits) ELSE pushed
              /\ elist' = elist
  /\ UNCHANGED <<pc, fileVars, orderFileGiven, place, printed, exitCode>>

ReadClause ==
  /\ reading(ClauseKinds) /\ place = "clauses"
  /\ ~ empty(Head(ahead))
  /\ reduce
  /\ LET lits == made(name2id, Head(ahead))
     IN  IF Head(ahead).kind = "sometime"
         THEN /\ elist' = Append(elist, [now |-> lits, ev |-> [prop |-> name2id[Head(ahead).next[1].name],
                                                               neg  |-> Head(ahead).next[1].neg]])
              /\ pushed' = pushed
         ELSE /\ pushed' = IF kept(lits) THEN Append(pushed, lits) ELSE pushed
              /\ elist' = elist
  /\ UNCHANGED <<pc, fileVars, orderFileGiven, place, printed, exitCode>>

ReadEmptyClause ==
  /\ reading(ClauseKinds) /\ place = "clauses"
  /\ empty(Head(ahead))
  /\ exit(0, <<"Unsatisfiable", "Empty clause in the input">>)
  /\ reduce
  /\ UNCHANGED <<fileVars, orderFileGiven, place, pushed, elist>>

\* Variant: the order file may hold the whole formula.
ReadCloseAnywhere ==
  /\ reading({"close"}) /\ place = "clauses"
  /\ reduce
  /\ place' = "end"
  /\ UNCHANGED <<pc, fileVars, orderFileGiven, pushed, elist, printed, exitCode>>

\* ]). : reduced without looking further, so it is known which file it is in.
ReadClose ==
  /\ reading({"close"}) /\ place = "clauses"
  /\ reduce
  /\ IF orderFileGiven
     THEN exit(1, <<"Order file may not contain anything but \"order\" sentance">>)
     ELSE UNCHANGED <<pc, exitCode, printed>>
  /\ place' = "end"
  /\ UNCHANGED <<fileVars, orderFileGiven, pushed, elist>>

\* Variant: yywrap does not remember that it was called.
WrapAgain ==
  /\ pc = "reading" /\ ahead = <<>> /\ orderFileGiven
  /\ \E pieces \in input : ahead' = pieces
  /\ UNCHANGED <<pc, fileVars, orderFileGiven, atoms, place, name2id, pushed, elist, read, printed, exitCode>>

\* trp_yywrap: after the order file comes the input.
Wrap ==
  /\ pc = "reading" /\ ahead = <<>> /\ orderFileGiven
  /\ \E pieces \in input : ahead' = pieces
  /\ orderFileGiven' = FALSE
  /\ UNCHANGED <<pc, fileVars, atoms, place, name2id, pushed, elist, read, printed, exitCode>>

\* Nothing more to read; to the parser a token of -1 is the end as well.
endOfInput ==
  IF ahead = <<>> THEN ~ orderFileGiven ELSE Head(ahead).kind = "bad"

Accept ==
  /\ pc = "reading" /\ endOfInput /\ place = "end"
  /\ pc' = "prover"
  /\ UNCHANGED <<fileVars, parseVars, printed, exitCode>>

SyntaxError ==
  /\ pc = "reading"
  /\ \/ endOfInput /\ place # "end"
     \/ ahead # <<>> /\ Head(ahead).kind \notin expected \cup {"bad"}
  /\ exit(1, <<"syntax error">>)
  /\ UNCHANGED <<fileVars, parseVars>>

-----------------------------------------------------------------------------
\* --show-input
shown(o) == o.showInput

\* main: the prover is made, the input dumped, search called.  Its answer is
\* what module Search is about.
ShowInput ==
  /\ pc = "prover"
  /\ pc' = "search"
  /\ printed' = IF shown(options) THEN Append(printed, "At the begining..") ELSE printed
  /\ UNCHANGED <<fileVars, parseVars, exitCode>>

Answer(result) ==
  /\ pc = "search"
  /\ exit(0, <<result>> \o (IF options.quiet THEN <<>> ELSE <<"Elapsed time">>)
                        \o (IF options.showResult THEN <<"At the end..">> ELSE <<>>))
  /\ UNCHANGED <<fileVars, parseVars>>

Step ==
  \/ ParseOptions \/ OpenFiles
  \/ BuildAtom \/ ReadOrder \/ ReadOpen \/ ReadClause \/ ReadEmptyClause \/ ReadClose \/ Wrap
  \/ Accept \/ SyntaxError
  \/ ShowInput \/ \E r \in {"Unsatisfiable", "Satisfiable"} : Answer(r)

Done == pc = "done" /\ UNCHANGED vars

Next == Step \/ Done

Spec == Init /\ [][Next]_vars /\ WF_vars(Step)
-----------------------------------------------------------------------------
(***************************************************************************)
(* Properties.                                                             *)
(***************************************************************************)
FrontEndTypeOK ==
  /\ pc \in {"options", "open", "reading", "prover", "search", "done"}
  /\ orderFileGiven \in BOOLEAN
  /\ ahead \in Seq(Pieces) /\ read \in Seq(Pieces)
  /\ IF ahead = <<>> THEN atoms = 0 ELSE atoms \in 0 .. Len(literals(Head(ahead)))
  /\ place \in {"start", "formula", "clauses", "end"}
  /\ DOMAIN name2id \subseteq Names /\ \A n \in DOMAIN name2id : name2id[n] \in Prop
  /\ \A i \in 1 .. Len(pushed) : pushed[i] \in Clauses /\ OneKind(pushed[i])
  /\ \A i \in 1 .. Len(elist) : /\ elist[i].now \in Clauses
                                /\ elist[i].ev \in [prop : Prop, neg : BOOLEAN]
  /\ exitCode \in {-1, 0, 1}

\* Where in the files the name n was read so far, and which of two names was
\* read first.
mentioned(n) ==
  {<<Len(read) + 1, j>> : j \in {j \in 1 .. atoms : literals(Head(ahead))[j].name = n}} \cup
  UNION {{<<i, j>> : j \in {j \in DOMAIN literals(read[i]) : literals(read[i])[j].name = n}} :
           i \in DOMAIN read}
earlier(e, f) == e[1] < f[1] \/ (e[1] = f[1] /\ e[2] < f[2])
sooner(m, n) == \E e \in mentioned(m) : \A f \in mentioned(n) : earlier(e, f)

\* The variables have their types, and ids rise with the first mention of a
\* name in the order file, the order section and the clauses: one id for each
\* name, none left out, and a name keeps its id from the one file to the other.
IdsByFirstMention ==
  /\ FrontEndTypeOK
  /\ DOMAIN name2id = {n \in Names : mentioned(n) # {}}
  /\ {name2id[n] : n \in DOMAIN name2id} = 1 .. Cardinality(DOMAIN name2id)
  /\ \A m, n \in DOMAIN name2id : sooner(m, n) => name2id[m] < name2id[n]

\* "order(P1,P3,P2)": propositions "will be ordered as P1>P3>P2. Otherwise,
\* propositions are ordered by their appearance in the input problem in the
\* descending order". So of two literals the one named first would lead.
OrderedAsDescribed ==
  pc \in {"prover", "search"} =>
    LET literal(n) == [prop |-> name2id[n], neg |-> FALSE, attr |-> "universal"]
    IN  \A m, n \in DOMAIN name2id :
          sooner(m, n) => getLeadingLiteral({literal(m), literal(n)}) = literal(m)

\* A clause as it is meant: each literal at the moment it speaks of.
meaning(piece) ==
  LET at(ws, a) == {[prop |-> name2id[ws[i].name], neg |-> ws[i].neg, attr |-> a] : i \in 1 .. Len(ws)}
  IN  CASE piece.kind = "initial" -> at(piece.now, "initial")
        [] piece.kind = "step"    -> at(piece.now, "step_now") \cup at(piece.next, "step_next")
        [] OTHER -> at(piece.now, "universal")

tautology(ws) == \E i, j \in 1 .. Len(ws) : ws[i].name = ws[j].name /\ ws[i].neg # ws[j].neg

\* The clauses that were read, by the place of their pieces, and the
\* eventuality clauses.
clausesRead ==
  [i \in {i \in DOMAIN read : /\ read[i].kind \in {"initial", "universal", "step"}
                              /\ ~ tautology(read[i].now) /\ ~ tautology(read[i].next)} |->
     meaning(read[i])]
eventualitiesRead ==
  [i \in {i \in DOMAIN read : read[i].kind = "sometime"} |->
     [now |-> meaning(read[i]),
      ev  |-> [prop |-> name2id[read[i].next[1].name], neg |-> read[i].next[1].neg]]]

\* q lists the values of f, each once, in the order of their places.
lists(q, f) ==
  \E from \in [DOMAIN q -> DOMAIN f] :
    /\ {from[i] : i \in DOMAIN q} = DOMAIN f
    /\ \A i, j \in DOMAIN q : i < j => from[i] < from[j]
    /\ \A i \in DOMAIN q : q[i] = f[from[i]]

\* The prover is given the clauses that were read without the tautologies,
\* in their order, and no literal of the order section among them; and of the
\* eventuality clauses every one, tautologies too, each with the literal that
\* it owes.
BuiltExact ==
  pc \in {"prover", "search"} =>
    lists(pushed, clausesRead) /\ lists(elist, eventualitiesRead)

\* What the prover is given is a problem: at most one order section, and
\* that first, then one formula, closed in the input file and without empty
\* initial clauses. It speaks of the two files read as one; what each of them
\* may hold is OrderFileOnlyOrder, which the code does not keep.
AcceptedIsProblem ==
  pc \in {"prover", "search"} =>
    LET start == IF read # <<>> /\ read[1].kind = "order" THEN 2 ELSE 1
        end   == Len(read)
    IN  /\ start < end /\ read[start].kind = "open" /\ read[end].kind = "close"
        /\ \A i \in start + 1 .. end - 1 : read[i].kind \in ClauseKinds /\ ~ empty(read[i])
        /\ ~ orderFileGiven

\* "Order file may not contain anything but "order" sentance": nothing else
\* was in an order file with which the prover is called.
OrderFileOnlyOrder ==
  pc \in {"prover", "search"} =>
    \A pieces \in order : \A i \in DOMAIN pieces : pieces[i].kind = "order"

answers == SelectSeq(printed, LAMBDA s : s \in {"Unsatisfiable", "Satisfiable"})
emptyInitialRead ==
  \E i \in DOMAIN read : empty(read[i])

\* Whatever the files hold, the program comes to its end, with one answer if
\* the formula was closed or an empty initial clause was read (which is an
\* answer) and with none if not.
EndsWithAnswer ==
  <>[](/\ pc = "done"
       /\ Len(answers) = 1 <=> exitCode = 0 /\ (place = "end" \/ emptyInitialRead))
=============================================================================
