SPECIFICATION FairSpec
CONSTANTS
  Window = 4
  MaxCount = 6
  TimeoutTicks = 1
  DataCap = 3
  AckCap = 3
  MaxFaults = 3
  Garbled = "garbled"
  Chunk <- MCChunk
  Payload <- MCPayload
  File <- MCFile5
CHECK_DEADLOCK FALSE
INVARIANT IInv
INVARIANT DeliveredInOrder
INVARIANT NoWriteAfterClose
INVARIANT ReleasedWasDelivered
INVARIANT DoneMeansDelivered
INVARIANT AssertsHold
INVARIANT WindowRespected
INVARIANT NullOnlyForAcknowledged
PROPERTY TimeoutResetsAll
PROPERTY CopiesFile
PROPERTY NeverStuckFaultless
