SPECIFICATION GatewaySpec
CONSTANTS
  c1 = c1
  c2 = c2
  Tokens <- MCTokens
  Streams <- MCStreams
  Readers <- MCReaders
  EntryKinds <- OnlyOk
  MaxBatch = 2
  MaxEntries = 3
  MaxChanges = 0
  MaxLosses = 0
  Routes = 3
  Calls <- MCCalls
  messageType <- Hello
  EventTypes <- MCEventTypes
  topic <- MCTopic
  workerShard <- NoShard
  MaxForeign = 1
INVARIANTS
  GatewayTypeOK
  NewestReaderLives
  OneXreadPerReader
PROPERTIES
  AttendedIsAnswered
  ImplementsRequestReply
CHECK_DEADLOCK FALSE
