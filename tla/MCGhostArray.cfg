CONSTANTS
  MaxGhostCount = 4
SPECIFICATION Spec
INVARIANTS
  validateGhostArray
  LoopsMeetAll
PROPERTIES
  ImplementsSegments
