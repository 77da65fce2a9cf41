CONSTANTS
  W = 4
  AckUnit = 2
  SeqSpace = 7
  AckSpace = 4
  WordSpace = 64
  PingTimers = {"initiator"}
  PingRetryCount = 1
  InitSeq <- MCInitSeq
  MaxSeq <- MCLongMaxSeq
  NetCapacity = 2
  SeqLife = 3
  AckLife = 3
  Adaptive = TRUE
  Overtaking = FALSE
SPECIFICATION Spec
INVARIANTS
  RebuiltRight
  AckBitsCovered
  NotifiedOnlyIfRead
PROPERTIES
  NotifyHasNote
  ImplementsChannel
CHECK_DEADLOCK FALSE
