SPECIFICATION Spec
CONSTANTS
  m1 = m1
  m2 = m2
  None = None
  Members <- MCMembers
  Configs = {TRUE, FALSE}
  Outcomes <- AllOutcomes
  HighWaterMark = 1
  MaxEntries = 2
  MaxCrashes = 1
  MaxLosses = 1
INVARIANTS
  TypeOK
  HandledAtMostOnce
  AckedIsProcessed
  PendingIsHeld
PROPERTIES
  ImplementsWorkQueue
  EveryDeliveryConcludes
CHECK_DEADLOCK FALSE
