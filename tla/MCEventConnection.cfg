CONSTANTS
  Window = 3
  InitSeq <- MCInitSeq
  EventSpace = 4
  EventWindow = 2
  ClearsNotifies = TRUE
  MayClose = TRUE
  MaxEvents <- MCManyEvents
  MaxMixed <- MCSomeMixed
  MaxLost <- MCLost2
  MaxEmpty = 0
SPECIFICATION FairSpec
INVARIANTS
  TypeOK
  EventInOnePlace
  ProcessedOnce
  EventsInOrder
  WaitListRight
  NoticesAreTrue
PROPERTIES
  FateIsTold
CHECK_DEADLOCK FALSE
