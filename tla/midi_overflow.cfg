SPECIFICATION InputSpec
CONSTANTS
  WORD = 2
  QueueCapacity = 1
  RealTimeApart = FALSE
  Truncated = FALSE
  MaxPacket = 4
  MaxSysex = 6
INVARIANT EveryEoxIsRead
CHECK_DEADLOCK FALSE
