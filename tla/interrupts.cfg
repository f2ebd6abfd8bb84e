SPECIFICATION Spec
CONSTANTS
  K = 2
  MaxClock = 5
  MaxSignals = 3
INVARIANTS TimerExact AskedForInterrupt
PROPERTIES NeverKilledSearching RecordedIsReported
