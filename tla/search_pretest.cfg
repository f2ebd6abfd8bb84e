SPECIFICATION SearchSpec
CONSTANTS
  Prop <- FourSymbols
  Symbols <- TwoSymbols
  UseFSR = TRUE
  DFS = FALSE
  UsePretest = TRUE
  Inputs <- Clause
  Candidates <- NoClauses
  Eventualities <- Sometime
  MaxEventualities = 2
  MaxPush = 2
  MaxLoopPush = 0
  MaxCalls = 0
INVARIANT PretestDecides
