CONSTANTS
  A = A
  B = B
  Host = {A, B}
  NoAddress = NoAddress
  Starters = {A}
  Allowing = {B}
  ChallengeRetryCount = 1
  ConnectRetryCount = 1
  PunchRetryCount = 1
  Scenarios <- MCScenarios
  Abandons = TRUE
SPECIFICATION Spec
CHECK_DEADLOCK FALSE
INVARIANT DisconnectIsHeeded
