SPECIFICATION Spec
CONSTANTS
  Node <- MCNode
  netOut <- MCnetOut
  appls <- MCappls
  maxTTL = 16
  Parameters <- MCParameters
  Source = 0
  Sink = 10
  duration <- MCduration
  delay <- MCdelay
  errorLinks <- MCerrorLinks
  INFINITY = 1000
  Commands <- MCCommands
INVARIANTS TypeOK NothingAborts QueueRestarts StatisticsExact RoutesCurrentWhenUsed PingsComeBack NoPacketExpiresUnnoticed AckUnderWay
CHECK_DEADLOCK FALSE
