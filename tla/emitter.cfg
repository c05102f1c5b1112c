SPECIFICATION Spec
CONSTANTS
  p = p
  q = q
  undefined = undefined
  Names <- MCNames
  split <- MCSplit
  Empty = ""
  Star = "*"
  Depth = 2
  Primitives <- MCPrimitives
  Undefined = undefined
  Inputs <- MCInputs
  Initial <- MCInitial
  MaxUpdates = 3
INVARIANTS
  FirstKnowsTheState
  SecondHearsTheState
PROPERTY
  UpdateIsPathwise
CHECK_DEADLOCK FALSE
