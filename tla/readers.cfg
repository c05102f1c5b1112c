SPECIFICATION BoundedSpec
CONSTANTS
  s1 = s1
  s2 = s2
  i1 = i1
  i2 = i2
  Streams <- MCStreams
  Readers <- MCReaders
  EntryKinds <- AllKinds
  MaxBatch = 1
  MaxEntries = 2
  MaxChanges = 1
  MaxLosses = 1
INVARIANTS
  NoGaps
PROPERTY
  KeepsReading
CHECK_DEADLOCK FALSE
