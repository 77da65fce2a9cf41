CONSTANTS
  W = 4
  AckUnit = 2
  SeqSpace = 7
  AckSpace = 4
  WordSpace = 64
  PingTimers = {"initiator"}
  PingRetryCount = 1
  InitSeq <- MCInitSeq
  MaxSeq <- MCFairMaxSeq
  NetCapacity = 2
  SeqLife = 3
  AckLife = 3
  Adaptive = FALSE
  Overtaking = TRUE
SPECIFICATION Spec
INVARIANT NotifiedOnlyIfRead
CHECK_DEADLOCK FALSE
