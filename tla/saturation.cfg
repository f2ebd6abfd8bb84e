SPECIFICATION FairSpec
CONSTANTS
  Prop <- TwoProps
  UseFSR = TRUE
  Inputs <- Pool
  Candidates <- NotQ
  MaxPush = 3
  MaxLoopPush = 2
  MaxCalls = 2
INVARIANTS TypeOK WellFormed Sound NothingLost ResolventsKept ActiveReduced Verdict Projection
PROPERTIES Monotone ImplementsDeduction Returns
CHECK_DEADLOCK FALSE
