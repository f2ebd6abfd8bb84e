SPECIFICATION Spec
CONSTANTS
  Prop <- ThreeProps
  Names <- ThreeNames
  InputFiles <- Inputs
  OrderFiles <- Documented
  CommandLines <- WithOrderFile
INVARIANT OrderedAsDescribed
