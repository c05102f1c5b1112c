SPECIFICATION Spec
CONSTANTS
  p1 = p1
  p2 = p2
  k = k
  f0 = f0
  f1 = f1
  f2 = f2
  Processes <- MCProcesses
  Owners <- MCOwners
  Keys <- MCKeys
  Fields <- MCFields
  Index = f0
  MaxValue = 2
  MaxWrites = 2
  MaxBreaks = 1
INVARIANTS
  TypeOK
  AgreeUnlessRaced
PROPERTY
  EventuallyAgree
