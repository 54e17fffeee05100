SPECIFICATION Spec
CONSTANTS
  MaxCount = 4
  TimeoutTicks = 1
  MaxSeqNo = 9
  Payload <- MCPayload
CHECK_DEADLOCK FALSE
INVARIANT RingConsistent
PROPERTY IsQueue
