--------------------------- MODULE MCGhostConnection ---------------------------
(* Instances of GhostConnection for TLC.                                   *)
EXTENDS GhostConnection, TLC

CONSTANTS o1, o2, a, b, g1, g2

MCInitSeq == [s \in Side |-> 0]

MCSymmetry == Permutations(Object) \union Permutations(Bit) \union Permutations(Ghost)
=============================================================================
