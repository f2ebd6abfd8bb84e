SPECIFICATION FairSearchSpec
CONSTANTS
  Prop <- FourSymbols
  Symbols <- TwoSymbols
  UseFSR = FALSE
  DFS = TRUE
  UsePretest = FALSE
  Inputs <- DepthClause
  Candidates <- NoClauses
  Eventualities <- DepthSometime
  MaxEventualities = 2
  MaxPush = 3
  MaxLoopPush = 0
  MaxCalls = 0
INVARIANTS UnsatisfiableIsRight SatisfiableIfReported
PROPERTIES Terminates
