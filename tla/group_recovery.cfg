SPECIFICATION RestartSpec
CONSTANTS
  m1 = m1
  m2 = m2
  None = None
  Members <- OneMember
  Configs = {TRUE}
  Outcomes <- OnlyValues
  HighWaterMark = 1
  MaxEntries = 2
  MaxCrashes = 1
  MaxLosses = 0
PROPERTY
  RecoversFromCrash
CHECK_DEADLOCK FALSE
