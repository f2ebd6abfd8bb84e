SPECIFICATION FairSpec
CONSTANTS
  Prop <- ThreeProps
  Items <- Mixed
INVARIANTS IndexTypeOK TrieShape FramesLive NoDeadNode
PROPERTIES ImplementsClauseIndex CallReturns
