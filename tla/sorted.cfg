SPECIFICATION Spec
CONSTANTS
  Prop <- ThreeProps
  Lists <- Short
  Held <- Correct
INVARIANTS WalksDecide InDescendingOrder
