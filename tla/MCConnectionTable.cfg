CONSTANTS
  c1 = c1
  c2 = c2
  c3 = c3
  c4 = c4
  c5 = c5
  Connection = {c1, c2, c3, c4, c5}
  NULL = NULL
  Hash <- MCHash
  Addresses <- MCAddresses
  InitialSize = 5
SPECIFICATION Spec
INVARIANTS
  FindsConnected
  TableMirrorsList
  ToldIsRemoved
