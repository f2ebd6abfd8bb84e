SPECIFICATION Spec
CONSTANTS
  Prop <- ThreeProps
  Names <- ThreeNames
  InputFiles <- Inputs
  OrderFiles <- Orders
  CommandLines <- WithOrderFile
INVARIANT OrderFileOnlyOrder
