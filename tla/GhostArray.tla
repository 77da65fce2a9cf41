------------------------------ MODULE GhostArray ------------------------------
(***************************************************************************)
(* The ghost array of a GhostConnection: how GhostSegments is done with    *)
(* one array of pointers and two indices.                                  *)
(*                                                                         *)
(*      0 ..          mGhostZeroUpdateIndex ..     mGhostFreeIndex ..      *)
(*      updates to send | in use, nothing to send | free                   *)
(*                                                                         *)
(* A GhostInfo moves to the next segment by changing places with the one   *)
(* at the border.  The loops of writePacket move GhostInfos while they run *)
(* over the array, and clearGhostInfo while it runs over the references.   *)
(*                                                                         *)
(* Of an update mask it matters here whether it is zero.  NetObject::      *)
(* clearMaskBits is left out: GhostConnection shows how it can leave a     *)
(* zero mask in the first segment, which is the end of what follows.       *)
(***************************************************************************)
EXTENDS Integers

CONSTANT MaxGhostCount

ASSUME MaxGhostCountAssumption == MaxGhostCount \in Nat \ {0}

Ghost == 0 .. MaxGhostCount - 1       \* index of a GhostInfo in mGhostRefs
Place == 0 .. MaxGhostCount - 1       \* place in mGhostArray

VARIABLES
  table,       \* the array and its indices
  nonZero,     \* the GhostInfos with a non-zero update mask
  loop,        \* the loop that runs
  i,           \* its variable
  todo         \* history: the GhostInfos the loop has still to visit

vars == <<table, nonZero, loop, i, todo>>

Table == [mGhostArray : [Place -> Ghost], arrayIndex : [Ghost -> Place],
          zero : 0 .. MaxGhostCount, free : 0 .. MaxGhostCount]

Updating(t) == {g \in Ghost : t.arrayIndex[g] < t.zero}
InUse(t) == {g \in Ghost : t.arrayIndex[g] < t.free}

NewTable == [mGhostArray |-> [p \in Place |-> p], arrayIndex |-> [g \in Ghost |-> g],
             zero |-> 0, free |-> 0]

\* Ghosting has been activated for the first time.
Init ==
  /\ table = NewTable
  /\ nonZero = {}
  /\ loop = "none" /\ i = 0 /\ todo = {}

-----------------------------------------------------------------------------
\* GhostInfo g changes places with the one that is at place p.
\* Faulty variant: the other one is not told its new place.
PutAt_Half(t, g, p) ==
  LET h == t.mGhostArray[p]
      q == t.arrayIndex[g]
  IN  [t EXCEPT !.mGhostArray = [@ EXCEPT ![q] = h, ![p] = g],
                !.arrayIndex = [@ EXCEPT ![g] = p]]

PutAt(t, g, p) ==
  LET h == t.mGhostArray[p]
      q == t.arrayIndex[g]
  IN  [t EXCEPT !.mGhostArray = [@ EXCEPT ![q] = h, ![p] = g],
                !.arrayIndex = [@ EXCEPT ![h] = q, ![g] = p]]

ghostPushNonZero(t, g) == [PutAt(t, g, t.zero) EXCEPT !.zero = @ + 1]
ghostPushToZero(t, g) == [PutAt(t, g, t.zero - 1) EXCEPT !.zero = @ - 1]
ghostPushFreeToZero(t, g) == [PutAt(t, g, t.free) EXCEPT !.free = @ + 1]
\* Faulty variant: the border is moved, nothing else.
ghostPushZeroToFree_NoSwap(t, g) == [t EXCEPT !.free = @ - 1]
ghostPushZeroToFree(t, g) == [PutAt(t, g, t.free - 1) EXCEPT !.free = @ - 1]

freeGhostInfo(t, g) ==
  ghostPushZeroToFree(IF t.arrayIndex[g] < t.zero THEN ghostPushToZero(t, g) ELSE t, g)

\* The mask of g becomes non-zero, or gets more bits.
MaskSet(t, g) == IF g \in nonZero THEN t ELSE ghostPushNonZero(t, g)

-----------------------------------------------------------------------------
objectInScope ==
  /\ loop = "none"
  /\ table.free < MaxGhostCount
  /\ LET g == table.mGhostArray[table.free] IN
       /\ table' = ghostPushNonZero(ghostPushFreeToZero(table, g), g)
       /\ nonZero' = nonZero \union {g}
  /\ UNCHANGED <<loop, i, todo>>

(* collapseDirtyList, detachObject and packetDropped do this.              *)
SetMask(g) ==
  /\ loop = "none"
  /\ g \in InUse(table)
  /\ table' = MaskSet(table, g)
  /\ nonZero' = nonZero \union {g}
  /\ UNCHANGED <<loop, i, todo>>

\* packetReceived, for the removal of a ghost.
RemovalReceived(g) ==
  /\ loop = "none"
  /\ g \in InUse(table)
  /\ table' = freeGhostInfo(table, g)
  /\ nonZero' = nonZero \ {g}
  /\ UNCHANGED <<loop, i, todo>>

(* writePacket: one loop over the first segment frees what need not be     *)
(* killed; the segment is sorted; another loop writes the updates.  Both   *)
(* run downwards.                                                          *)
StartWrite ==
  /\ loop = "none"
  /\ loop' = "clean" /\ i' = table.zero - 1 /\ todo' = Updating(table)
  /\ UNCHANGED <<table, nonZero>>

Visit(next, g) == i' = next /\ todo' = todo \ {g}

Clean ==
  /\ loop = "clean" /\ i >= 0
  /\ LET g == table.mGhostArray[i] IN
       /\ \/ table' = freeGhostInfo(table, g) /\ nonZero' = nonZero \ {g}
          \/ UNCHANGED <<table, nonZero>>
       /\ Visit(i - 1, g)
  /\ UNCHANGED loop

\* Faulty variant: the indices are not set anew.
Sorted_Stale(t, array) == [t EXCEPT !.mGhostArray = array]

\* qsort, and the indices are set anew.
Sorted(t, array) ==
  [t EXCEPT !.mGhostArray = array,
            !.arrayIndex = [g \in Ghost |->
               IF t.arrayIndex[g] < t.zero
                 THEN CHOOSE p \in Place : array[p] = g
                 ELSE @[g]]]

Permutations(t) ==
  {array \in [Place -> Ghost] :
     /\ \A p \in Place : IF p < t.zero THEN array[p] \in Updating(t)
                         ELSE array[p] = t.mGhostArray[p]
     /\ \A g \in Updating(t) : \E p \in Place : \A q \in Place : array[q] = g <=> q = p}

Sort ==
  /\ loop = "clean" /\ i < 0
  /\ \E array \in Permutations(table) : table' = Sorted(table, array)
  /\ loop' = "write" /\ i' = table.zero - 1 /\ todo' = Updating(table)
  /\ UNCHANGED nonZero

(* A ghost that is in flight is passed over, and packUpdate may return     *)
(* bits; otherwise the mask is zero now.                                   *)
Write ==
  /\ loop = "write" /\ i >= 0
  /\ LET g == table.mGhostArray[i] IN
       /\ \/ table' = ghostPushToZero(table, g) /\ nonZero' = nonZero \ {g}
          \/ UNCHANGED <<table, nonZero>>
       /\ Visit(i - 1, g)
  /\ UNCHANGED loop

\* At the end, or when the packet is full.
EndWrite ==
  /\ loop = "write"
  /\ loop' = "none" /\ i' = 0 /\ todo' = {}
  /\ UNCHANGED <<table, nonZero>>

(* clearGhostInfo, called by resetGhosting, runs over mGhostRefs.          *)
StartClear ==
  /\ loop = "none"
  /\ loop' = "clear" /\ i' = 0 /\ todo' = InUse(table)
  /\ UNCHANGED <<table, nonZero>>

Clear ==
  /\ loop = "clear" /\ i < MaxGhostCount
  /\ IF table.arrayIndex[i] < table.free
       THEN table' = freeGhostInfo(MaskSet(table, i), i) /\ nonZero' = nonZero \ {i}
       ELSE UNCHANGED <<table, nonZero>>
  /\ Visit(i + 1, i)
  /\ UNCHANGED loop

EndClear ==
  /\ loop = "clear" /\ i = MaxGhostCount
  /\ loop' = "none" /\ i' = 0 /\ todo' = {}
  /\ UNCHANGED <<table, nonZero>>

\* It sets the array anew.  (The code asserts that nothing is in use.)
activateGhosting ==
  /\ loop = "none"
  /\ table.zero = 0 /\ table.free = 0
  /\ table' = NewTable
  /\ UNCHANGED <<nonZero, loop, i, todo>>

Next ==
  \/ objectInScope \/ activateGhosting
  \/ \E g \in Ghost : SetMask(g) \/ RemovalReceived(g)
  \/ StartWrite \/ Clean \/ Sort \/ Write \/ EndWrite
  \/ StartClear \/ Clear \/ EndClear

Spec == Init /\ [][Next]_vars

-----------------------------------------------------------------------------
TypeOK ==
  /\ table \in Table
  /\ nonZero \subseteq Ghost
  /\ loop \in {"none", "clean", "write", "clear"}
  /\ i \in -1 .. MaxGhostCount
  /\ todo \subseteq Ghost

(* validateGhostArray, all it asserts: the borders are in order, every     *)
(* GhostInfo knows its place, and the masks are those of the segments.     *)
validateGhostArray ==
  /\ table.zero <= table.free
  /\ \A p \in Place : table.arrayIndex[table.mGhostArray[p]] = p
  /\ \A p \in Place : p < table.free =>
       (table.mGhostArray[p] \in nonZero <=> p < table.zero)

(* Though GhostInfos move, a loop of writePacket comes by each one of the  *)
(* first segment, once: what it has not visited is at the places to come.  *)
LoopsMeetAll ==
  loop \in {"clean", "write"} => todo = {table.mGhostArray[p] : p \in 0 .. i}

(* clearGhostInfo frees all: "Invalid indices." is never said.             *)
AllCleared ==
  loop = "clear" /\ i = MaxGhostCount => table.zero = 0 /\ table.free = 0

(* The array does what GhostSegments says: whatever moves, one GhostInfo   *)
(* at a time changes its segment.                                          *)
Segments == INSTANCE GhostSegments WITH inUse <- InUse(table), updating <- Updating(table)

ImplementsSegments == Segments!Spec

(* The inductive invariant.  A GhostInfo in use is found where it says it  *)
(* is; what the loops have still to do lies ahead of them.                 *)
Consistent(t) ==
  /\ t \in Table
  /\ t.zero <= t.free
  /\ \A p \in Place : t.arrayIndex[t.mGhostArray[p]] = p
  /\ \A g \in Ghost : t.mGhostArray[t.arrayIndex[g]] = g

LoopInv ==
  /\ loop \in {"none", "clean", "write", "clear"}
  /\ i \in -1 .. MaxGhostCount
  /\ todo \subseteq Ghost
  /\ LoopsMeetAll
  /\ loop \in {"clean", "write"} => i < table.zero
  /\ loop = "clear" => i >= 0 /\ InUse(table) \subseteq i .. MaxGhostCount - 1

IInv == Consistent(table) /\ nonZero = Updating(table) /\ LoopInv
=============================================================================
