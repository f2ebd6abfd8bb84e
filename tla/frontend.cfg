SPECIFICATION Spec
CONSTANTS
  Prop <- ThreeProps
  Names <- ThreeNames
  InputFiles <- Inputs
  OrderFiles <- Orders
  CommandLines <- Lines
INVARIANTS IdsByFirstMention BuiltExact AcceptedIsProblem
PROPERTIES EndsWithAnswer
