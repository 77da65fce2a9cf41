CONSTANTS
  Window = 2
  InitSeq <- MCInitSeq
  a = a
  b = b
  c = c
  String = {a, b, c}
  NoString = NoString
  Garbage = Garbage
  Prefix <- MCPrefix
  EntryCount = 2
  MaxUnits = 2
  MaxPackets = 4
SPECIFICATION Spec
INVARIANTS
  ReadAsWritten
  ConfirmedIsThere
CHECK_DEADLOCK FALSE
SYMMETRY MCSymmetry
