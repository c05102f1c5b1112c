SPECIFICATION TrackerSpec
CONSTANTS
  i1 = i1
  i2 = i2
  o1 = o1
  o2 = o2
  o3 = o3
  None = None
  Ids <- MCIds
  Objects <- MCObjects
INVARIANTS
  NeverHangs
PROPERTY
  EveryPromiseSettles
CHECK_DEADLOCK FALSE
