--------------------------- MODULE MCEventConnection ---------------------------
(* Instances of EventConnection for TLC.                                   *)
EXTENDS EventConnection

Sides(initiator, host) ==
  [s \in Side |-> IF s = "initiator" THEN initiator ELSE host]

MCInitSeq == Sides(0, 0)

\* One side posts three events of any type, or seven ordered ones: more than
\* there are numbers in a packet.
MCManyEvents == Sides(7, 0)
MCSomeMixed == Sides(3, 0)

MCLost2 == Sides(2, 0)
=============================================================================
