SPECIFICATION Spec
CONSTANTS
  Routes <- MCRoutes
  HighWaterMark = 1
  MaxMessages = 3
  MaxFalsy = 1
  MaxForeign = 1
  MaxFailures = 1
INVARIANTS
  DrainIsOwed
  InOrder
PROPERTY
  EveryMessageWritten
CHECK_DEADLOCK FALSE
