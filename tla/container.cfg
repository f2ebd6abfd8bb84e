SPECIFICATION Spec
CONSTANTS
  Prop <- TwoProps
  Inputs <- Mixed
  IdRange = 3
  MaxClauses = 4
INVARIANTS ActiveConsistent PassiveKeeps WalkExact
