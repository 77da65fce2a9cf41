CONSTANTS
  Window = 2
  InitSeq <- MCInitSeq
  o1 = o1
  o2 = o2
  a = a
  b = b
  g1 = g1
  g2 = g2
  Object = {o1}
  NoObject = NoObject
  Bit = {a}
  Ghost = {g1, g2}
  Calls = {"session", "scope", "change", "destroy"}
  MaxCalls = 3
  MaxLost = 1
  MaxEmpty = 0
SPECIFICATION FairSpec
INVARIANTS
  SameSession
  AvailableIsThere
PROPERTIES
  WorldIsMirrored
CHECK_DEADLOCK FALSE
