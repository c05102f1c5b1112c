SPECIFICATION Spec
CONSTANTS
  x1 = x1
  x2 = x2
  Commands <- MCCommands
  MaxClients = 2
  Max = 2
  MaxBreaks = 2
INVARIANTS
  TypeOK
  MemberIdsDiffer
PROPERTIES
  EveryCommandSettles
  ConnectSettlesOnceReached
CHECK_DEADLOCK FALSE
