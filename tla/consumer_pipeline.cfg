SPECIFICATION Spec
CONSTANTS
  greet = greet
  part = part
  Types <- MCTypes
  Handled <- OneType
  Outcomes <- AllOutcomes
  Modes = {TRUE, FALSE}
  HighWaterMark = 2
  MaxMessages = 7
  MaxSwitches = 1
INVARIANTS
  TypeOK
  NothingLostOrReordered
  PushesBack
  PausedForAReason
PROPERTY
  EveryMessageAnswered
CHECK_DEADLOCK FALSE
