CONSTANTS
  t1 = t1
  t2 = t2
  Thread = {t1, t2}
  MaximumCount = 3
  MaxCalls = 3
  MaxResponses = 3
SPECIFICATION FairSpec
INVARIANTS
  NoLostWakeup
PROPERTY ImplementsQueues
