----------------------------- MODULE Interrupts -----------------------------
(***************************************************************************)
(* ^C during a search: HandleSIGINT and SignalHandling                     *)
(* (src/src/interrupthandler.h), the timer (src/src/misc/timer.h) and the  *)
(* part of main.cc that installs the one and reads the other.              *)
(*                                                                         *)
(* The handler only records the signal; the search, here a loop that may   *)
(* go on for ever, looks at the record at its poll points.  A signal may   *)
(* be delivered between any two steps of the program.  The clock is the    *)
(* one of ftime, K ticks to the second.                                    *)
(***************************************************************************)
EXTENDS Integers

CONSTANTS
  K,          \* clock ticks in a second (1000 in struct timeb)
  MaxClock,   \* bound on the ticks of the clock
  MaxSignals  \* bound on the signals delivered

ASSUME InterruptsAssumption ==
  K \in Nat \ {0} /\ MaxClock \in Nat /\ MaxSignals \in Nat

SIGINT  == 2
SIGALRM == 14

VARIABLES
  pc,            \* where the program is
  handled,       \* the signals with a handler of the program's own
  pendingSignal, \* 0 or the signal recorded last
  taken,         \* the local copy in takeSignal
  stdinOpen,     \* FALSE: standard input is at its end
  stopped, elapsedSec, startTime, \* the timer, elapsedSec in ticks
  clock,
  delivered, asked, \* history: the SIGINTs that came, the questions asked
  measured          \* history: ticks between start and stop

timer   == <<stopped, elapsedSec, startTime>>
signals == <<handled, pendingSignal>>
history == <<delivered, asked, measured>>
vars == <<pc, signals, taken, stdinOpen, timer, clock, history>>

Init ==
  /\ pc = "prover made"
  /\ handled = {} /\ pendingSignal = 0 /\ taken = 0
  /\ stdinOpen \in BOOLEAN
  /\ stopped = TRUE /\ elapsedSec = 0 /\ startTime = 0
  /\ clock \in 0 .. K - 1
  /\ delivered = 0 /\ asked = 0 /\ measured = 0

-----------------------------------------------------------------------------
(***************************************************************************)
(* The timer.                                                              *)
(***************************************************************************)
getSecondsDifference(from, to) ==
  ((to \div K) - (from \div K)) * K + ((to % K) - (from % K))

\* Variant: starting a running timer starts it afresh.
startAfresh == stopped' = FALSE /\ startTime' = clock /\ elapsedSec' = elapsedSec

start ==
  IF stopped
  THEN stopped' = FALSE /\ startTime' = clock /\ elapsedSec' = elapsedSec
  ELSE UNCHANGED timer

stop ==
  IF ~ stopped
  THEN /\ stopped' = TRUE
       /\ elapsedSec' = elapsedSec + getSecondsDifference(startTime, clock)
       /\ startTime' = startTime
  ELSE UNCHANGED timer

elapsedSeconds ==
  IF stopped THEN elapsedSec ELSE elapsedSec + getSecondsDifference(startTime, clock)

-----------------------------------------------------------------------------
(***************************************************************************)
(* What comes from outside.                                                *)
(***************************************************************************)
running == pc \notin {"ended", "killed"}
timed   == pc \in {"search", "poll", "clear", "process", "asking", "finished"}

Tick ==
  /\ running /\ clock < MaxClock
  /\ clock' = clock + 1
  /\ measured' = measured + (IF timed THEN 1 ELSE 0)
  /\ UNCHANGED <<pc, signals, taken, stdinOpen, timer, delivered, asked>>

\* Variant: the handler is gone once it has run (System V signal()).
recordOnce(signal) == pendingSignal' = signal /\ handled' = handled \ {signal}

\* HandleSIGINT::handler
record(signal) == pendingSignal' = signal /\ handled' = handled

Deliver(signal) ==
  /\ running /\ delivered < MaxSignals
  /\ IF signal \in handled
     THEN record(signal) /\ pc' = pc
     ELSE pc' = "killed" /\ UNCHANGED signals
  /\ delivered' = delivered + (IF signal = SIGINT THEN 1 ELSE 0)
  /\ UNCHANGED <<taken, stdinOpen, timer, clock, asked, measured>>

\* The user closes standard input.
CloseInput ==
  /\ running /\ stdinOpen /\ stdinOpen' = FALSE
  /\ UNCHANGED <<pc, signals, taken, timer, clock, history>>

-----------------------------------------------------------------------------
(***************************************************************************)
(* The program.                                                            *)
(***************************************************************************)
Install ==
  /\ pc = "prover made" /\ pc' = "installed"
  /\ handled' = {SIGINT, SIGALRM}
  /\ UNCHANGED <<pendingSignal, taken, stdinOpen, timer, clock, history>>

Search ==
  /\ pc = "installed" /\ pc' = "search"
  /\ start
  /\ UNCHANGED <<signals, taken, stdinOpen, clock, history>>

\* Between two poll points; the search may be over before the next one.
Work ==
  /\ pc = "search" /\ pc' \in {"poll", "finished"}
  /\ UNCHANGED <<signals, taken, stdinOpen, timer, clock, history>>

\* Variant: the record is cleared before it is read.
TakeCleared ==
  /\ pc = "poll" /\ pc' = "clear"
  /\ taken' = 0
  /\ UNCHANGED <<signals, stdinOpen, timer, clock, history>>

\* takeSignal is a read and then a write; a signal in between is forgotten.
TakeRead ==
  /\ pc = "poll" /\ pc' = "clear"
  /\ taken' = pendingSignal
  /\ UNCHANGED <<signals, stdinOpen, timer, clock, history>>

\* Variant: the record is not cleared.
TakeKept ==
  /\ pc = "clear"
  /\ pc' = IF taken = 0 THEN "search" ELSE "process"
  /\ UNCHANGED <<signals, taken, stdinOpen, timer, clock, history>>

TakeClear ==
  /\ pc = "clear"
  /\ pendingSignal' = 0
  /\ pc' = IF taken = 0 THEN "search" ELSE "process"
  /\ UNCHANGED <<handled, taken, stdinOpen, timer, clock, history>>

\* processSignal: the clock stands while statistics are printed.
StopTimer ==
  /\ pc = "process" /\ pc' = "report"
  /\ stop
  /\ UNCHANGED <<signals, taken, stdinOpen, clock, delivered, asked, measured>>

StartTimer ==
  /\ pc = "report"
  /\ pc' = IF taken = SIGINT THEN "asking" ELSE "search"
  /\ asked' = asked + (IF taken = SIGINT THEN 1 ELSE 0)
  /\ start
  /\ UNCHANGED <<signals, taken, stdinOpen, clock, delivered, measured>>

\* At the end of standard input nothing is assigned to the variable that is
\* compared with 'n': it may hold anything.  So may the user's answer.
Answer ==
  /\ pc = "asking"
  /\ \/ pc' = "ended" /\ UNCHANGED timer
     \/ pc' = "search" /\ start
  /\ UNCHANGED <<signals, taken, stdinOpen, clock, history>>

\* The result is printed with what the timer shows.
StopSearch ==
  /\ pc = "finished" /\ pc' = "answered"
  /\ stop
  /\ UNCHANGED <<signals, taken, stdinOpen, clock, history>>

Uninstall ==
  /\ pc = "answered" /\ pc' = "uninstalled"
  /\ handled' = handled \ {SIGINT}
  /\ UNCHANGED <<pendingSignal, taken, stdinOpen, timer, clock, history>>

Return ==
  /\ pc = "uninstalled" /\ pc' = "ended"
  /\ UNCHANGED <<signals, taken, stdinOpen, timer, clock, history>>

Program ==
  \/ Install \/ Search \/ Work \/ TakeRead \/ TakeClear
  \/ StopTimer \/ StartTimer \/ StopSearch \/ Uninstall \/ Return

Done == ~ running /\ UNCHANGED vars

Next ==
  \/ Program \/ Answer \/ Tick \/ CloseInput
  \/ \E signal \in {SIGINT, SIGALRM} : Deliver(signal)
  \/ Done

\* The program goes on by itself except where it waits for an answer, which
\* at the end of standard input it does not.
Spec == Init /\ [][Next]_vars /\ WF_vars(Program) /\ WF_vars(~ stdinOpen /\ Answer)
-----------------------------------------------------------------------------
(***************************************************************************)
(* Properties.                                                             *)
(***************************************************************************)
InterruptTypeOK ==
  /\ pc \in {"prover made", "installed", "search", "poll", "clear", "process", "report",
            "asking", "finished", "answered", "uninstalled", "ended", "killed"}
  /\ handled \subseteq {SIGINT, SIGALRM}
  /\ pendingSignal \in {0, SIGINT, SIGALRM} /\ taken \in {0, SIGINT, SIGALRM}
  /\ stdinOpen \in BOOLEAN /\ stopped \in BOOLEAN
  /\ elapsedSec \in 0 .. MaxClock /\ startTime \in 0 .. clock
  /\ asked \in 0 .. delivered /\ delivered \in 0 .. MaxSignals

\* The variables have their types, and the time the program reports is the
\* time from start to stop without the printing of statistics, however often
\* the search was interrupted and the timer started once more than it was
\* stopped.
TimerExact == InterruptTypeOK /\ elapsedSeconds = measured

\* Each question has a SIGINT of its own: none is asked for a SIGALRM, and
\* none twice for the same ^C.
AskedForInterrupt ==
  asked + (IF taken = SIGINT /\ pc \in {"clear", "process", "report"} THEN 1 ELSE 0)
        + (IF pendingSignal = SIGINT /\ pc # "clear" THEN 1 ELSE 0) <= delivered

\* From the installation of the handlers until the answer no signal kills the
\* program, be it the first or a later one, at a question or between the poll
\* points.
NeverKilledSearching ==
  [][pc' = "killed" => pc \in {"prover made", "uninstalled"}]_vars

\* What is recorded while the search works is reported, unless the program
\* comes to its end before: no sequence of signals keeps the loop from it.
RecordedIsReported ==
  (pendingSignal # 0 /\ pc = "search") ~> (pc = "report" \/ ~ running)
=============================================================================
