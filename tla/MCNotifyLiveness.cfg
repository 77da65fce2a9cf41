CONSTANTS
  W = 4
  AckUnit = 2
  SeqSpace = 7
  AckSpace = 4
  WordSpace = 64
  PingTimers = {"initiator"}
  PingRetryCount = 1
  InitSeq <- MCInitSeq
  MaxSeq <- MCFairMaxSeq
  NetCapacity = 20
  SeqLife = 3
  AckLife = 3
  Adaptive = FALSE
  Overtaking = FALSE
SPECIFICATION FairSpec
INVARIANT IInv
PROPERTY EveryPacketAnswered
CHECK_DEADLOCK FALSE
