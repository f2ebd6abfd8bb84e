SPECIFICATION FairSearchSpec
CONSTANTS
  Prop <- FourSymbols
  Symbols <- TwoSymbols
  UseFSR = TRUE
  DFS = FALSE
  UsePretest = FALSE
  Inputs <- Clause
  Candidates <- NoClauses
  Eventualities <- Sometime
  MaxEventualities = 2
  MaxPush = 2
  MaxLoopPush = 0
  MaxCalls = 0
INVARIANTS SearchTypeOK UnsatisfiableIsRight SatisfiableIfReported LoopExact
PROPERTIES Shrinks Terminates
