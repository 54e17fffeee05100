SPECIFICATION FairSpec
CONSTANTS
  Window = 3
  MaxCount = 4
  TimeoutTicks = 1
  DataCap = 2
  AckCap = 2
  MaxFaults = 1
  Garbled = "garbled"
  Chunk <- MCChunk
  Payload <- MCPayload
  File <- MCFile3
CHECK_DEADLOCK FALSE
PROPERTY NeverStuck
