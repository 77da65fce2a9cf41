CONSTANTS
  Window = 3
  InitSeq <- MCInitSeq
  o1 = o1
  o2 = o2
  a = a
  b = b
  g1 = g1
  g2 = g2
  Object = {o1, o2}
  NoObject = NoObject
  Bit = {a, b}
  Ghost = {g1, g2}
  Calls = {"change", "partial", "clear", "scope", "always", "destroy"}
  MaxCalls = 2
  MaxLost = 1
  MaxEmpty = 1
SPECIFICATION Spec
SYMMETRY MCSymmetry
INVARIANTS
  TypeOK
  SegmentsMatchMasks
  NullIsKilled
  NoDanglingRefs
  UpdatesFindTheirGhost
  NoStateForgotten
CHECK_DEADLOCK FALSE
