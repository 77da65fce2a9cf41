----------------------------- MODULE GhostSegments -----------------------------
(***************************************************************************)
(* What the ghost array of a GhostConnection promises: a GhostInfo is free *)
(* or in use, and among those in use the ones with updates to send are     *)
(* kept apart.  One call moves one GhostInfo and leaves the others alone.  *)
(***************************************************************************)
CONSTANT Ghost

VARIABLES
  inUse,       \* the GhostInfos in use
  updating     \* those of them with a non-zero update mask

Init == inUse = {} /\ updating = {}

Scope(g) == g \notin inUse /\ inUse' = inUse \union {g} /\ updating' = updating \union {g}

Update(g) == g \in inUse /\ inUse' = inUse /\ updating' = updating \union {g}

Send(g) == g \in updating /\ inUse' = inUse /\ updating' = updating \ {g}

Free(g) == g \in inUse /\ inUse' = inUse \ {g} /\ updating' = updating \ {g}

Next == \E g \in Ghost : Scope(g) \/ Update(g) \/ Send(g) \/ Free(g)

Spec == Init /\ [][Next]_<<inUse, updating>>
=============================================================================
