CONSTANTS
  A = A
  B = B
  Host = {A, B}
  NoAddress = NoAddress
  Starters = {A}
  Allowing = {B}
  ChallengeRetryCount = 1
  ConnectRetryCount = 1
  PunchRetryCount = 1
  Scenarios <- MCScenarios
  Abandons = FALSE
SPECIFICATION FairSpec
INVARIANTS
  TypeOK
  SolutionUsedOnce
  RefusalIsFinal
  EndsAgree
  OneConnectionPerAddress
  ToldInOrder
PROPERTY PendingIsResolved
CHECK_DEADLOCK FALSE
