-------------------------- MODULE InterruptsProofs --------------------------
(***************************************************************************)
(* Theorems about Interrupts, for every resolution of the clock and any    *)
(* number of ticks and signals.                                            *)
(***************************************************************************)
EXTENDS Interrupts, TLAPS

\* The program is past the installation of its handlers and before their
\* removal.
guarded ==
  pc \in {"installed", "search", "poll", "clear", "process", "report", "asking",
          "finished", "answered"}

(***************************************************************************)
(* What the properties need to be inductive.  The type invariant is taken  *)
(* in two parts, where the program is and what it counts.                  *)
(***************************************************************************)
Control ==
  /\ pc \in {"prover made", "installed", "search", "poll", "clear", "process", "report",
            "asking", "finished", "answered", "uninstalled", "ended", "killed"}
  /\ handled \subseteq {SIGINT, SIGALRM}
  /\ pendingSignal \in {0, SIGINT, SIGALRM} /\ taken \in {0, SIGINT, SIGALRM}
  /\ stdinOpen \in BOOLEAN /\ stopped \in BOOLEAN

\* Without a tick nothing is measured, whatever the clock shows at first.
Numbers ==
  /\ clock \in Nat /\ measured \in 0 .. clock
  /\ clock <= MaxClock \/ measured = 0
  /\ elapsedSec \in 0 .. MaxClock /\ startTime \in 0 .. clock
  /\ asked \in 0 .. delivered /\ delivered \in 0 .. MaxSignals

\* The timer runs where time is measured, and has what was measured.
TimerOK ==
  /\ running => (timed <=> ~ stopped)
  /\ stopped => elapsedSec = measured
  /\ ~ stopped => elapsedSec + (clock - startTime) = measured

\* The SIGINT the loop has taken and that still waits for its question, and
\* the one it has not looked at.
inHand  == IF taken = SIGINT /\ pc \in {"clear", "process", "report"} THEN 1 ELSE 0
pending == IF pendingSignal = SIGINT /\ pc # "clear" THEN 1 ELSE 0

HandledOK == guarded => handled = {SIGINT, SIGALRM}

IInv == Control /\ Numbers /\ TimerOK /\ HandledOK /\ AskedForInterrupt

-----------------------------------------------------------------------------
\* Seconds and the rest, taken apart as in struct timeb, give the difference.
LEMMA Difference ==
  ASSUME NEW a \in Nat, NEW b \in Nat
  PROVE  getSecondsDifference(a, b) = b - a
<1>1. K \in Nat /\ K > 0
  BY InterruptsAssumption DEF InterruptsAssumption
<1>2. ASSUME NEW n \in Nat PROVE n = K * (n \div K) + (n % K) /\ n \div K \in Int /\ n % K \in Int
  BY <1>1, <1>2
<1> DEFINE p == a \div K  q == b \div K  r == a % K  s == b % K
<1>3. a = K * p + r /\ b = K * q + s /\ p \in Int /\ q \in Int /\ r \in Int /\ s \in Int
  BY <1>2
<1>4. getSecondsDifference(a, b) = (q - p) * K + (s - r)
  BY DEF getSecondsDifference
<1> HIDE DEF p, q, r, s
<1> QED
  BY <1>1, <1>3, <1>4
-----------------------------------------------------------------------------
\* The timer reads the clock between its start and now, and shows what was
\* measured.
LEMMA Elapsed ==
  ASSUME IInv
  PROVE  /\ ~ stopped => elapsedSec + getSecondsDifference(startTime, clock) = measured
         /\ elapsedSeconds = measured
         /\ measured \in 0 .. MaxClock
<1>1. clock \in Nat /\ startTime \in Nat
  BY DEF IInv, Numbers
<1>2. measured \in 0 .. MaxClock
  BY InterruptsAssumption DEF InterruptsAssumption, IInv, Numbers
<1>3. getSecondsDifference(startTime, clock) = clock - startTime
  BY <1>1, Difference
<1> QED
  BY <1>2, <1>3 DEF IInv, TimerOK, elapsedSeconds

\* A signal counts once, as taken or as pending.
LEMMA Bits ==
  inHand \in {0, 1} /\ pending \in {0, 1} /\ inHand' \in {0, 1} /\ pending' \in {0, 1}
BY Zenon DEF inHand, pending

\* AskedForInterrupt, before and after a step, in these terms.
LEMMA Counted ==
  /\ AskedForInterrupt <=> asked + inHand + pending <= delivered
  /\ AskedForInterrupt' <=> asked' + inHand' + pending' <= delivered'
BY Zenon DEF inHand, pending, AskedForInterrupt

\* A signal that moves on is not counted twice.
LEMMA MovesOn ==
  ASSUME NEW a \in Nat, NEW d \in Nat, NEW h \in {0, 1}, NEW p \in {0, 1},
         NEW g \in {0, 1}, NEW q \in {0, 1},
         a + h + p <= d
  PROVE  /\ g \in {0, p} /\ q = 0 => a + g + q <= d
         /\ g \in {0, h} /\ q \in {0, p} => a + g + q <= d
         /\ a + h \in Nat /\ a + h <= d
         /\ (a + h) + 0 + p <= d
OBVIOUS

\* Before the handlers are installed the timer is at rest.
LEMMA InitInv == Init => IInv
<1> SUFFICES ASSUME Init PROVE IInv
  OBVIOUS
<1>1. /\ clock \in 0 .. K - 1 /\ measured = 0 /\ elapsedSec = 0 /\ startTime = 0
      /\ asked = 0 /\ delivered = 0 /\ taken = 0 /\ pendingSignal = 0
  BY Zenon DEF Init
<1>2. pc = "prover made" /\ stopped /\ stopped \in BOOLEAN /\ stdinOpen \in BOOLEAN /\ handled = {}
  BY Zenon DEF Init
<1>3. Control
  BY <1>1, <1>2 DEF Control
<1>4. Numbers
  BY <1>1, InterruptsAssumption DEF InterruptsAssumption, Numbers
<1>5. TimerOK
  BY <1>1, <1>2 DEF TimerOK, running, timed
<1>6. HandledOK
  BY <1>2 DEF HandledOK, guarded
<1>7. AskedForInterrupt
  BY <1>1 DEF AskedForInterrupt, SIGINT
<1> QED
  BY <1>3, <1>4, <1>5, <1>6, <1>7 DEF IInv

\* A tick is measured exactly when the timer runs.
LEMMA TickInv == IInv /\ Tick => IInv'
<1> SUFFICES ASSUME IInv, Tick PROVE IInv'
  OBVIOUS
<1>1. /\ clock' = clock + 1 /\ clock < MaxClock /\ running
      /\ measured' = measured + (IF timed THEN 1 ELSE 0)
      /\ UNCHANGED <<pc, handled, pendingSignal, taken, stdinOpen, stopped, elapsedSec, startTime,
                     delivered, asked>>
  BY Zenon DEF Tick, signals, timer
<1>2. Control'
  BY Zenon, <1>1 DEF IInv, Control
<1>3. Numbers'
  BY <1>1, InterruptsAssumption DEF InterruptsAssumption, IInv, Numbers
<1>4. TimerOK'
  <2>1. running' = running /\ timed' = timed
    BY Zenon, <1>1 DEF running, timed
  <2>2. CASE stopped
    BY <1>1, <2>1, <2>2 DEF IInv, Numbers, TimerOK
  <2>3. CASE ~ stopped
    BY <1>1, <2>1, <2>3 DEF IInv, Numbers, TimerOK
  <2> QED
    BY <2>2, <2>3
<1>5. HandledOK' /\ AskedForInterrupt'
  BY Zenon, <1>1 DEF IInv, HandledOK, guarded, AskedForInterrupt
<1> QED
  BY <1>2, <1>3, <1>4, <1>5 DEF IInv

\* A signal while the program is guarded is recorded and nothing else.
LEMMA DeliverInv ==
  ASSUME IInv, NEW signal \in {SIGINT, SIGALRM}, Deliver(signal)
  PROVE  IInv'
<1>1. /\ delivered < MaxSignals /\ delivered' = delivered + (IF signal = SIGINT THEN 1 ELSE 0)
      /\ UNCHANGED <<handled, taken, stdinOpen, stopped, elapsedSec, startTime, clock, asked,
                     measured>>
  BY Zenon DEF Deliver, record, signals, timer
<1>2. \/ pendingSignal' = signal /\ pc' = pc /\ signal \in handled
      \/ pc' = "killed" /\ pendingSignal' = pendingSignal /\ signal \notin handled
  BY Zenon DEF Deliver, record, signals
<1>3. Control'
  BY Zenon, <1>1, <1>2 DEF IInv, Control
<1>4. Numbers' /\ AskedForInterrupt'
  <2>1. inHand' \in {0, inHand}
    BY <1>1, <1>2 DEF inHand
  <2>2. \/ delivered' = delivered + 1
        \/ delivered' = delivered + 0 /\ pending' \in {0, pending}
    <3>1. CASE signal = SIGINT
      BY Zenon, <1>1, <3>1
    <3>2. CASE signal # SIGINT
      <4>1. pending' \in {0, pending}
        BY <1>2, <3>2 DEF pending, IInv, HandledOK, guarded
      <4> QED
        BY Zenon, <1>1, <3>2, <4>1
    <3> QED
      BY <3>1, <3>2
  <2>3. asked \in 0 .. delivered /\ delivered \in 0 .. MaxSignals /\ delivered < MaxSignals
    BY Zenon, <1>1 DEF IInv, Numbers
  <2>4. asked + inHand + pending <= delivered
    BY Zenon, Counted DEF IInv
  <2>5. delivered' \in 0 .. MaxSignals /\ asked \in 0 .. delivered'
    BY <2>2, <2>3, InterruptsAssumption DEF InterruptsAssumption
  <2>6. asked + inHand' + pending' <= delivered'
    BY <2>1, <2>2, <2>3, <2>4, Bits
  <2> QED
    BY Zenon, <1>1, <2>5, <2>6, Counted DEF IInv, Numbers
<1>5. TimerOK'
  BY <1>1, <1>2 DEF IInv, TimerOK, running, timed
<1>6. HandledOK'
  BY <1>1, <1>2 DEF IInv, HandledOK, guarded
<1> QED
  BY <1>3, <1>4, <1>5, <1>6 DEF IInv

\* The steps that leave the timer alone.
LEMMA QuietInv ==
  ASSUME IInv,
         CloseInput \/ Install \/ Work \/ TakeRead \/ TakeClear \/ Uninstall \/ Return
  PROVE  IInv'
<1>0. asked \in Nat /\ delivered \in Nat /\ asked + inHand + pending <= delivered
  <2>1. asked \in 0 .. delivered /\ delivered \in 0 .. MaxSignals /\ AskedForInterrupt
    BY Zenon DEF IInv, Numbers
  <2> QED
    BY <2>1, Counted
<1> USE DEF CloseInput, Install, Work, TakeRead, TakeClear, Uninstall, Return,
            signals, timer, history
<1>1. UNCHANGED <<stopped, elapsedSec, startTime, clock, delivered, asked, measured>>
  BY Zenon
<1>2. Control'
  BY DEF IInv, Control
<1>3. Numbers'
  BY Zenon, <1>1 DEF IInv, Numbers
<1>4. TimerOK'
  <2>1. running' => (timed' <=> timed)
    BY DEF running, timed
  <2>2. running' => running
    BY DEF running
  <2> QED
    BY Zenon, <1>1, <2>1, <2>2 DEF IInv, TimerOK
<1>5. HandledOK'
  BY DEF IInv, HandledOK, guarded
<1>6. AskedForInterrupt'
  <2>1. \/ inHand' \in {0, pending} /\ pending' = 0
        \/ inHand' \in {0, inHand} /\ pending' \in {0, pending}
    <3>1. CASE TakeRead
      BY <3>1 DEF inHand, pending, SIGINT
    <3>2. CASE TakeClear
      BY <3>2 DEF inHand, pending, SIGINT
    <3>3. CASE CloseInput \/ Install \/ Work \/ Uninstall \/ Return
      BY <3>3 DEF inHand, pending
    <3> QED
      BY Zenon, <3>1, <3>2, <3>3
  <2> HIDE DEF CloseInput, Install, Work, TakeRead, TakeClear, Uninstall, Return,
               signals, timer, history
  <2>2. asked + inHand' + pending' <= delivered
    BY Zenon, <1>0, <2>1, Bits, MovesOn
  <2> QED
    BY Zenon, <1>1, <2>2, Counted
<1> QED
  BY <1>2, <1>3, <1>4, <1>5, <1>6 DEF IInv

\* The steps that start or stop the timer, and the question.
LEMMA TimerInv ==
  ASSUME IInv, Search \/ StopTimer \/ StartTimer \/ Answer \/ StopSearch
  PROVE  IInv'
<1> USE DEF Search, StopTimer, StartTimer, Answer, StopSearch, signals, timer, history
<1>1. UNCHANGED <<clock, measured, handled, pendingSignal, taken, delivered>>
  BY Zenon
<1>2. HandledOK'
  BY <1>1 DEF IInv, HandledOK, guarded
<1>3. AskedForInterrupt' /\ asked' \in 0 .. delivered'
  <2>1. pending' = pending
    BY <1>1 DEF pending
  <2>2. \/ asked' = asked /\ inHand' \in {0, inHand}
        \/ asked' = asked + inHand /\ inHand' = 0
    BY <1>1 DEF inHand
  <2>3. asked \in 0 .. delivered /\ delivered \in 0 .. MaxSignals
    BY Zenon DEF IInv, Numbers
  <2>4. asked + inHand + pending <= delivered
    BY Zenon, Counted DEF IInv
  <2> HIDE DEF Search, StopTimer, StartTimer, Answer, StopSearch, signals, timer, history
  <2>5. asked' + inHand' + pending <= delivered /\ asked' \in 0 .. delivered
    <3>1. asked' \in 0 .. delivered
      BY <2>2, <2>3, <2>4, Bits, MovesOn, InterruptsAssumption DEF InterruptsAssumption
    <3>2. asked \in Nat /\ delivered \in Nat
      BY <2>3
    <3>3. asked' + inHand' + pending <= delivered
      BY Zenon, <2>2, <2>4, <3>2, Bits, MovesOn
    <3> QED
      BY Zenon, <3>1, <3>3
  <2> QED
    BY Zenon, <1>1, <2>1, <2>5, Counted
<1>4. /\ stopped' \in BOOLEAN
      /\ stopped' => elapsedSec' = measured
      /\ ~ stopped' => elapsedSec' + (clock - startTime') = measured
      /\ startTime' \in 0 .. clock /\ elapsedSec' \in 0 .. MaxClock
  <2> DEFINE now == elapsedSec + getSecondsDifference(startTime, clock)
  <2>1. /\ elapsedSec \in 0 .. MaxClock /\ startTime \in 0 .. clock /\ clock \in Nat
        /\ measured \in 0 .. MaxClock
    BY Elapsed DEF IInv, Numbers
  <2>2. /\ stopped => elapsedSec = measured
        /\ ~ stopped => elapsedSec + (clock - startTime) = measured
        /\ ~ stopped => now = measured
        /\ stopped \in BOOLEAN
    BY Zenon, Elapsed DEF IInv, TimerOK, Control
  <2>3. \/ stopped' = stopped /\ elapsedSec' = elapsedSec /\ startTime' = startTime
        \/ stopped /\ ~ stopped' /\ stopped' \in BOOLEAN /\ elapsedSec' = elapsedSec /\ startTime' = clock
        \/ ~ stopped /\ stopped' /\ stopped' \in BOOLEAN /\ elapsedSec' = now /\ startTime' = startTime
    BY Zenon DEF start, stop
  <2> HIDE DEF now
  <2> QED
    BY <2>1, <2>2, <2>3
<1>5. Control'
  BY <1>1, <1>4 DEF IInv, Control
<1>6. Numbers'
  BY <1>1, <1>3, <1>4 DEF IInv, Numbers
<1>7. running' => (timed' <=> ~ stopped')
  BY DEF IInv, TimerOK, running, timed, start, stop
<1>8. TimerOK'
  BY Zenon, <1>1, <1>4, <1>7 DEF TimerOK
<1> QED
  BY <1>2, <1>3, <1>5, <1>6, <1>8 DEF IInv

\* Every step preserves the invariant.
LEMMA NextInv == IInv /\ [Next]_vars => IInv'
<1> SUFFICES ASSUME IInv, [Next]_vars PROVE IInv'
  OBVIOUS
<1>1. CASE Program \/ Answer \/ CloseInput
  BY <1>1, QuietInv, TimerInv DEF Program
<1>2. CASE Tick
  BY <1>2, TickInv
<1>3. CASE \E signal \in {SIGINT, SIGALRM} : Deliver(signal)
  BY <1>3, DeliverInv
<1>4. CASE UNCHANGED vars
  BY Zenon, <1>4
  DEF vars, signals, timer, history, IInv, Control, Numbers, TimerOK, running, timed,
      HandledOK, guarded, AskedForInterrupt
<1> QED
  BY <1>1, <1>2, <1>3, <1>4 DEF Next, Done

\* The invariant holds throughout.
LEMMA Invariance == Spec => []IInv
  BY InitInv, NextInv, PTL DEF Spec

-----------------------------------------------------------------------------
\* For every clock and any sequence of signals, questions and printed
\* statistics the timer shows the time from its start to its stop without the
\* printing.
THEOREM TimesExactly == Spec => []TimerExact
<1>1. IInv => InterruptTypeOK
  BY Zenon DEF IInv, Control, Numbers, InterruptTypeOK
<1>2. IInv => TimerExact
  BY Zenon, <1>1, Elapsed DEF TimerExact
<1> QED
  BY <1>2, Invariance, PTL

\* However many signals come, no question is asked without a SIGINT of its
\* own.
THEOREM AsksForInterrupts == Spec => []AskedForInterrupt
<1>1. IInv => AskedForInterrupt
  BY DEF IInv
<1> QED
  BY <1>1, Invariance, PTL

\* However many signals come, from the installation of the handlers until the
\* answer none kills the program.
THEOREM SurvivesSignals == Spec => NeverKilledSearching
<1>1. IInv /\ [Next]_vars => [pc' = "killed" => pc \in {"prover made", "uninstalled"}]_vars
  <2> SUFFICES ASSUME IInv, Next, pc' = "killed", ~ UNCHANGED vars
               PROVE  pc \in {"prover made", "uninstalled"}
    OBVIOUS
  <2>1. CASE \E signal \in {SIGINT, SIGALRM} : Deliver(signal)
    BY <2>1 DEF IInv, Control, HandledOK, guarded, running, Deliver, record
  <2>2. CASE ~ \E signal \in {SIGINT, SIGALRM} : Deliver(signal)
    BY <2>2
    DEF Next, Program, Install, Search, Work, TakeRead, TakeClear, StopTimer, StartTimer, StopSearch,
        Uninstall, Return, Answer, Tick, CloseInput, Done, running
  <2> QED
    BY <2>1, <2>2
<1> QED
  BY <1>1, Invariance, PTL DEF Spec, NeverKilledSearching
=============================================================================
