SPECIFICATION Spec
CONSTANTS
  r1 = r1
  r2 = r2
  o1 = o1
  o2 = o2
  o3 = o3
  o4 = o4
  None = None
  Ids <- MCIds
  Objects <- MCObjects
  MaxResponses <- MCMaxResponses
INVARIANTS
  TypeOK
  IInv
  Reachable
  OnlyUnwrittenCallsCrash
PROPERTIES
  ImplementsRequestReply
  EveryCallConcludes
CHECK_DEADLOCK FALSE
