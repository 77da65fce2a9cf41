-------------------------- MODULE GhostArray_proofs --------------------------
(***************************************************************************)
(* Proofs about GhostArray.                                                *)
(***************************************************************************)
EXTENDS GhostArray, TLAPS

-----------------------------------------------------------------------------
(* What the exchange of two GhostInfos changes, and what it leaves alone.  *)
LEMMA PutAtFacts ==
  ASSUME NEW t, Consistent(t), NEW g \in Ghost, NEW p \in Place,
         NEW u, u = PutAt(t, g, p)
  PROVE  /\ Consistent(u)
         /\ u.zero = t.zero /\ u.free = t.free
         /\ \A x \in Ghost : u.arrayIndex[x] =
              IF x = g THEN p
              ELSE IF t.arrayIndex[x] = p THEN t.arrayIndex[g] ELSE t.arrayIndex[x]
         /\ \A r \in Place : r # p /\ r # t.arrayIndex[g] =>
              u.mGhostArray[r] = t.mGhostArray[r]
<1> DEFINE h == t.mGhostArray[p]
           q == t.arrayIndex[g]
<1>1. /\ t \in Table /\ t.zero <= t.free
      /\ \A r \in Place : t.arrayIndex[t.mGhostArray[r]] = r
      /\ \A x \in Ghost : t.mGhostArray[t.arrayIndex[x]] = x
  BY DEF Consistent
<1>2. /\ t.mGhostArray \in [Place -> Ghost] /\ t.arrayIndex \in [Ghost -> Place]
      /\ t.zero \in 0 .. MaxGhostCount /\ t.free \in 0 .. MaxGhostCount
      /\ t = [mGhostArray |-> t.mGhostArray, arrayIndex |-> t.arrayIndex,
              zero |-> t.zero, free |-> t.free]
  BY <1>1 DEF Table
<1>3. h \in Ghost /\ q \in Place /\ t.arrayIndex[h] = p /\ t.mGhostArray[q] = g
  BY <1>1, <1>2
<1>4. /\ u.zero = t.zero /\ u.free = t.free
      /\ u.mGhostArray = [[t.mGhostArray EXCEPT ![q] = h] EXCEPT ![p] = g]
      /\ u.arrayIndex = [[t.arrayIndex EXCEPT ![h] = q] EXCEPT ![g] = p]
      /\ u = [mGhostArray |-> u.mGhostArray, arrayIndex |-> u.arrayIndex,
              zero |-> u.zero, free |-> u.free]
  BY <1>2, <1>3 DEF PutAt
<1>5. u \in Table
  BY <1>2, <1>3, <1>4 DEF Table
<1>6. /\ \A r \in Place : u.mGhostArray[r] = IF r = p THEN g ELSE IF r = q THEN h
                                             ELSE t.mGhostArray[r]
      /\ \A x \in Ghost : u.arrayIndex[x] = IF x = g THEN p ELSE IF x = h THEN q
                                            ELSE t.arrayIndex[x]
  BY <1>2, <1>3, <1>4
<1> HIDE DEF h, q
<1>7. \A r \in Place : u.arrayIndex[u.mGhostArray[r]] = r
  BY <1>1, <1>2, <1>3, <1>6
<1>8. \A x \in Ghost : u.mGhostArray[u.arrayIndex[x]] = x
  BY <1>1, <1>2, <1>3, <1>6
<1>9. \A x \in Ghost : t.arrayIndex[x] = p <=> x = h
  BY <1>1, <1>2, <1>3
<1> QED
  BY <1>1, <1>3, <1>4, <1>5, <1>6, <1>7, <1>8, <1>9 DEF Consistent, q

(* Moving a border keeps the table in order.                               *)
LEMMA BorderFacts ==
  ASSUME NEW v, Consistent(v)
  PROVE  /\ \A z \in 0 .. v.free : \A u : u = [v EXCEPT !.zero = z] =>
              /\ Consistent(u) /\ u.zero = z /\ u.free = v.free
              /\ u.mGhostArray = v.mGhostArray /\ u.arrayIndex = v.arrayIndex
         /\ \A f \in v.zero .. MaxGhostCount : \A u : u = [v EXCEPT !.free = f] =>
              /\ Consistent(u) /\ u.zero = v.zero /\ u.free = f
              /\ u.mGhostArray = v.mGhostArray /\ u.arrayIndex = v.arrayIndex
         /\ v.zero \in Int /\ v.free \in Int
<1>1. /\ v.mGhostArray \in [Place -> Ghost] /\ v.arrayIndex \in [Ghost -> Place]
      /\ v.zero \in 0 .. MaxGhostCount /\ v.free \in 0 .. MaxGhostCount
      /\ v = [mGhostArray |-> v.mGhostArray, arrayIndex |-> v.arrayIndex,
              zero |-> v.zero, free |-> v.free]
  BY DEF Consistent, Table
<1>2. ASSUME NEW z \in 0 .. v.free, NEW u, u = [v EXCEPT !.zero = z]
      PROVE  /\ Consistent(u) /\ u.zero = z /\ u.free = v.free
             /\ u.mGhostArray = v.mGhostArray /\ u.arrayIndex = v.arrayIndex
  <2>1. /\ u.zero = z /\ u.free = v.free
        /\ u.mGhostArray = v.mGhostArray /\ u.arrayIndex = v.arrayIndex
        /\ u = [mGhostArray |-> v.mGhostArray, arrayIndex |-> v.arrayIndex,
                zero |-> z, free |-> v.free]
    BY <1>1, <1>2
  <2>2. z \in 0 .. MaxGhostCount
    BY <1>1, MaxGhostCountAssumption
  <2>3. u \in Table
    BY <1>1, <2>1, <2>2 DEF Table
  <2> QED
    BY <1>1, <2>1, <2>3 DEF Consistent
<1>3. ASSUME NEW f \in v.zero .. MaxGhostCount, NEW u, u = [v EXCEPT !.free = f]
      PROVE  /\ Consistent(u) /\ u.zero = v.zero /\ u.free = f
             /\ u.mGhostArray = v.mGhostArray /\ u.arrayIndex = v.arrayIndex
  <2>1. /\ u.zero = v.zero /\ u.free = f
        /\ u.mGhostArray = v.mGhostArray /\ u.arrayIndex = v.arrayIndex
        /\ u = [mGhostArray |-> v.mGhostArray, arrayIndex |-> v.arrayIndex,
                zero |-> v.zero, free |-> f]
    BY <1>1, <1>3
  <2>2. f \in 0 .. MaxGhostCount
    BY <1>1, MaxGhostCountAssumption
  <2>3. u \in Table
    BY <1>1, <2>1, <2>2 DEF Table
  <2>4. u.zero <= u.free
    BY <1>1, <2>1, <2>2
  <2> QED
    BY <1>1, <2>1, <2>3, <2>4 DEF Consistent
<1> QED
  BY <1>1, <1>2, <1>3

(* What is known of a GhostInfo by its segment, and the other way round.   *)
LEMMA SegmentFacts ==
  ASSUME NEW t, Consistent(t)
  PROVE  /\ t.zero \in 0 .. MaxGhostCount /\ t.free \in 0 .. MaxGhostCount
         /\ t.zero <= t.free
         /\ \A g \in Ghost : t.arrayIndex[g] \in Place /\ t.mGhostArray[t.arrayIndex[g]] = g
         /\ \A p \in Place : t.mGhostArray[p] \in Ghost /\ t.arrayIndex[t.mGhostArray[p]] = p
         /\ Place = {p \in Int : 0 <= p /\ p < MaxGhostCount}
         /\ Ghost = Place
         /\ \A g : g \in Updating(t) <=> g \in Ghost /\ t.arrayIndex[g] < t.zero
         /\ \A g : g \in InUse(t) <=> g \in Ghost /\ t.arrayIndex[g] < t.free
         /\ Updating(t) \subseteq InUse(t)
<1>1. /\ t.mGhostArray \in [Place -> Ghost] /\ t.arrayIndex \in [Ghost -> Place]
      /\ t.zero \in 0 .. MaxGhostCount /\ t.free \in 0 .. MaxGhostCount
      /\ t.zero <= t.free
  BY DEF Consistent, Table
<1>2. Place = {p \in Int : 0 <= p /\ p < MaxGhostCount} /\ Ghost = Place
  BY MaxGhostCountAssumption DEF Place, Ghost
<1>3. /\ \A g : g \in Updating(t) <=> g \in Ghost /\ t.arrayIndex[g] < t.zero
      /\ \A g : g \in InUse(t) <=> g \in Ghost /\ t.arrayIndex[g] < t.free
  BY DEF Updating, InUse
<1>4. Updating(t) \subseteq InUse(t)
  BY <1>1, <1>2, <1>3
<1> QED
  BY <1>1, <1>2, <1>3, <1>4 DEF Consistent

(* The four moves, in which one GhostInfo changes its segment.  First the  *)
(* one to the first segment, when a mask becomes non-zero.                 *)
LEMMA ghostPushNonZeroFacts ==
  ASSUME NEW t, Consistent(t), NEW g \in InUse(t), g \notin Updating(t),
         NEW u, u = ghostPushNonZero(t, g)
  PROVE  /\ Consistent(u)
         /\ Updating(u) = Updating(t) \union {g} /\ InUse(u) = InUse(t)
         /\ u.zero = t.zero + 1 /\ u.free = t.free
<1> DEFINE v == PutAt(t, g, t.zero)
<1>1. /\ g \in Ghost /\ t.zero \in Place
      /\ t.arrayIndex[g] < t.free /\ t.zero <= t.arrayIndex[g]
  BY SegmentFacts, MaxGhostCountAssumption
<1>2. /\ Consistent(v) /\ v.zero = t.zero /\ v.free = t.free
      /\ \A x \in Ghost : v.arrayIndex[x] =
           IF x = g THEN t.zero
           ELSE IF t.arrayIndex[x] = t.zero THEN t.arrayIndex[g] ELSE t.arrayIndex[x]
  BY <1>1, PutAtFacts
<1> HIDE DEF v
<1>3. t.zero + 1 \in 0 .. v.free
  BY <1>1, <1>2, SegmentFacts, MaxGhostCountAssumption
<1>4. u = [v EXCEPT !.zero = t.zero + 1]
  BY <1>2 DEF ghostPushNonZero, v
<1>5. /\ Consistent(u) /\ u.zero = t.zero + 1 /\ u.free = t.free
      /\ u.arrayIndex = v.arrayIndex
  BY <1>2, <1>3, <1>4, BorderFacts
<1>6. ASSUME NEW x \in Ghost
      PROVE  /\ u.arrayIndex[x] < u.zero <=> t.arrayIndex[x] < t.zero \/ x = g
             /\ u.arrayIndex[x] < u.free <=> t.arrayIndex[x] < t.free
  <2>1. /\ t.arrayIndex[x] \in Int /\ t.arrayIndex[g] \in Int
        /\ t.zero \in Int /\ t.free \in Int
        /\ t.arrayIndex[x] = t.arrayIndex[g] => x = g
    BY <1>1, SegmentFacts
  <2>2. u.arrayIndex[x] = IF x = g THEN t.zero
           ELSE IF t.arrayIndex[x] = t.zero THEN t.arrayIndex[g] ELSE t.arrayIndex[x]
    BY <1>2, <1>5
  <2> QED
    BY <1>1, <1>5, <2>1, <2>2
<1>7. Updating(u) = Updating(t) \union {g} /\ InUse(u) = InUse(t)
  BY <1>1, <1>6 DEF Updating, InUse
<1> QED
  BY <1>5, <1>7

(* The update was sent: from the first segment to the second.              *)
LEMMA ghostPushToZeroFacts ==
  ASSUME NEW t, Consistent(t), NEW g \in Updating(t),
         NEW u, u = ghostPushToZero(t, g)
  PROVE  /\ Consistent(u)
         /\ Updating(u) = Updating(t) \ {g} /\ InUse(u) = InUse(t)
         /\ u.zero = t.zero - 1 /\ u.free = t.free
         /\ u.arrayIndex[g] = t.zero - 1
         /\ \A r \in Place : r < t.arrayIndex[g] => u.mGhostArray[r] = t.mGhostArray[r]
<1> DEFINE v == PutAt(t, g, t.zero - 1)
<1>1. /\ g \in Ghost /\ t.zero - 1 \in Place
      /\ t.arrayIndex[g] <= t.zero - 1
  BY SegmentFacts, MaxGhostCountAssumption
<1>2. /\ Consistent(v) /\ v.zero = t.zero /\ v.free = t.free
      /\ \A x \in Ghost : v.arrayIndex[x] =
           IF x = g THEN t.zero - 1
           ELSE IF t.arrayIndex[x] = t.zero - 1 THEN t.arrayIndex[g] ELSE t.arrayIndex[x]
      /\ \A r \in Place : r # t.zero - 1 /\ r # t.arrayIndex[g] =>
           v.mGhostArray[r] = t.mGhostArray[r]
  BY <1>1, PutAtFacts
<1> HIDE DEF v
<1>3. t.zero - 1 \in 0 .. v.free
  BY <1>1, <1>2, SegmentFacts, MaxGhostCountAssumption
<1>4. u = [v EXCEPT !.zero = t.zero - 1]
  BY <1>2 DEF ghostPushToZero, v
<1>5. /\ Consistent(u) /\ u.zero = t.zero - 1 /\ u.free = t.free
      /\ u.arrayIndex = v.arrayIndex /\ u.mGhostArray = v.mGhostArray
  BY <1>2, <1>3, <1>4, BorderFacts
<1>6. ASSUME NEW x \in Ghost
      PROVE  /\ u.arrayIndex[x] < u.zero <=> t.arrayIndex[x] < t.zero /\ x # g
             /\ u.arrayIndex[x] < u.free <=> t.arrayIndex[x] < t.free
  <2>1. /\ t.arrayIndex[x] \in Int /\ t.arrayIndex[g] \in Int
        /\ t.zero \in Int /\ t.free \in Int /\ t.zero <= t.free
        /\ t.arrayIndex[x] = t.arrayIndex[g] => x = g
    BY <1>1, SegmentFacts
  <2>2. u.arrayIndex[x] = IF x = g THEN t.zero - 1
           ELSE IF t.arrayIndex[x] = t.zero - 1 THEN t.arrayIndex[g] ELSE t.arrayIndex[x]
    BY <1>2, <1>5
  <2> QED
    BY <1>1, <1>5, <2>1, <2>2
<1>7. Updating(u) = Updating(t) \ {g} /\ InUse(u) = InUse(t)
  BY <1>1, <1>6 DEF Updating, InUse
<1>8. \A r \in Place : r < t.arrayIndex[g] => u.mGhostArray[r] = t.mGhostArray[r]
  <2> SUFFICES ASSUME NEW r \in Place, r < t.arrayIndex[g]
               PROVE  u.mGhostArray[r] = t.mGhostArray[r]
    OBVIOUS
  <2>1. r # t.zero - 1 /\ r # t.arrayIndex[g]
    BY <1>1, SegmentFacts
  <2> QED
    BY <1>2, <1>5, <2>1
<1> QED
  BY <1>1, <1>2, <1>5, <1>7, <1>8

(* A GhostInfo of the second segment is given back.                        *)
LEMMA ghostPushZeroToFreeFacts ==
  ASSUME NEW t, Consistent(t), NEW g \in InUse(t), g \notin Updating(t),
         NEW u, u = ghostPushZeroToFree(t, g)
  PROVE  /\ Consistent(u)
         /\ Updating(u) = Updating(t) /\ InUse(u) = InUse(t) \ {g}
         /\ u.zero = t.zero /\ u.free = t.free - 1
         /\ u.arrayIndex[g] = t.free - 1
         /\ \A r \in Place : r < t.arrayIndex[g] => u.mGhostArray[r] = t.mGhostArray[r]
<1> DEFINE v == PutAt(t, g, t.free - 1)
<1>1. /\ g \in Ghost /\ t.free - 1 \in Place
      /\ t.arrayIndex[g] <= t.free - 1 /\ t.zero <= t.arrayIndex[g]
  BY SegmentFacts, MaxGhostCountAssumption
<1>2. /\ Consistent(v) /\ v.zero = t.zero /\ v.free = t.free
      /\ \A x \in Ghost : v.arrayIndex[x] =
           IF x = g THEN t.free - 1
           ELSE IF t.arrayIndex[x] = t.free - 1 THEN t.arrayIndex[g] ELSE t.arrayIndex[x]
      /\ \A r \in Place : r # t.free - 1 /\ r # t.arrayIndex[g] =>
           v.mGhostArray[r] = t.mGhostArray[r]
  BY <1>1, PutAtFacts
<1> HIDE DEF v
<1>3. t.free - 1 \in v.zero .. MaxGhostCount
  BY <1>1, <1>2, SegmentFacts, MaxGhostCountAssumption
<1>4. u = [v EXCEPT !.free = t.free - 1]
  BY <1>2 DEF ghostPushZeroToFree, v
<1>5. /\ Consistent(u) /\ u.zero = t.zero /\ u.free = t.free - 1
      /\ u.arrayIndex = v.arrayIndex /\ u.mGhostArray = v.mGhostArray
  BY <1>2, <1>3, <1>4, BorderFacts
<1>6. ASSUME NEW x \in Ghost
      PROVE  /\ u.arrayIndex[x] < u.zero <=> t.arrayIndex[x] < t.zero
             /\ u.arrayIndex[x] < u.free <=> t.arrayIndex[x] < t.free /\ x # g
  <2>1. /\ t.arrayIndex[x] \in Int /\ t.arrayIndex[g] \in Int
        /\ t.zero \in Int /\ t.free \in Int /\ t.zero <= t.free
        /\ t.arrayIndex[x] = t.arrayIndex[g] => x = g
    BY <1>1, SegmentFacts
  <2>2. u.arrayIndex[x] = IF x = g THEN t.free - 1
           ELSE IF t.arrayIndex[x] = t.free - 1 THEN t.arrayIndex[g] ELSE t.arrayIndex[x]
    BY <1>2, <1>5
  <2> QED
    BY <1>1, <1>5, <2>1, <2>2
<1>7. Updating(u) = Updating(t) /\ InUse(u) = InUse(t) \ {g}
  BY <1>1, <1>6 DEF Updating, InUse
<1>8. \A r \in Place : r < t.arrayIndex[g] => u.mGhostArray[r] = t.mGhostArray[r]
  <2> SUFFICES ASSUME NEW r \in Place, r < t.arrayIndex[g]
               PROVE  u.mGhostArray[r] = t.mGhostArray[r]
    OBVIOUS
  <2>1. r # t.free - 1 /\ r # t.arrayIndex[g]
    BY <1>1, SegmentFacts
  <2> QED
    BY <1>2, <1>5, <2>1
<1> QED
  BY <1>1, <1>2, <1>5, <1>7, <1>8

(* A free GhostInfo is taken into use.                                     *)
LEMMA ghostPushFreeToZeroFacts ==
  ASSUME NEW t, Consistent(t), NEW g \in Ghost, g \notin InUse(t),
         NEW u, u = ghostPushFreeToZero(t, g)
  PROVE  /\ Consistent(u)
         /\ Updating(u) = Updating(t) /\ InUse(u) = InUse(t) \union {g}
         /\ u.zero = t.zero /\ u.free = t.free + 1
<1> DEFINE v == PutAt(t, g, t.free)
<1>1. /\ g \in Ghost /\ t.free \in Place
      /\ t.free <= t.arrayIndex[g]
  BY SegmentFacts, MaxGhostCountAssumption
<1>2. /\ Consistent(v) /\ v.zero = t.zero /\ v.free = t.free
      /\ \A x \in Ghost : v.arrayIndex[x] =
           IF x = g THEN t.free
           ELSE IF t.arrayIndex[x] = t.free THEN t.arrayIndex[g] ELSE t.arrayIndex[x]
  BY <1>1, PutAtFacts
<1> HIDE DEF v
<1>3. t.free + 1 \in v.zero .. MaxGhostCount
  BY <1>1, <1>2, SegmentFacts, MaxGhostCountAssumption
<1>4. u = [v EXCEPT !.free = t.free + 1]
  BY <1>2 DEF ghostPushFreeToZero, v
<1>5. /\ Consistent(u) /\ u.zero = t.zero /\ u.free = t.free + 1
      /\ u.arrayIndex = v.arrayIndex
  BY <1>2, <1>3, <1>4, BorderFacts
<1>6. ASSUME NEW x \in Ghost
      PROVE  /\ u.arrayIndex[x] < u.zero <=> t.arrayIndex[x] < t.zero
             /\ u.arrayIndex[x] < u.free <=> t.arrayIndex[x] < t.free \/ x = g
  <2>1. /\ t.arrayIndex[x] \in Int /\ t.arrayIndex[g] \in Int
        /\ t.zero \in Int /\ t.free \in Int /\ t.zero <= t.free
        /\ t.arrayIndex[x] = t.arrayIndex[g] => x = g
    BY <1>1, SegmentFacts
  <2>2. u.arrayIndex[x] = IF x = g THEN t.free
           ELSE IF t.arrayIndex[x] = t.free THEN t.arrayIndex[g] ELSE t.arrayIndex[x]
    BY <1>2, <1>5
  <2> QED
    BY <1>1, <1>5, <2>1, <2>2
<1>7. Updating(u) = Updating(t) /\ InUse(u) = InUse(t) \union {g}
  BY <1>1, <1>6 DEF Updating, InUse
<1> QED
  BY <1>5, <1>7

(* freeGhostInfo, from either segment; what comes before stays in place.   *)
LEMMA freeGhostInfoFacts ==
  ASSUME NEW t, Consistent(t), NEW g \in InUse(t),
         NEW u, u = freeGhostInfo(t, g)
  PROVE  /\ Consistent(u)
         /\ Updating(u) = Updating(t) \ {g} /\ InUse(u) = InUse(t) \ {g}
         /\ t.zero - 1 <= u.zero
         /\ \A r \in Place : r < t.arrayIndex[g] => u.mGhostArray[r] = t.mGhostArray[r]
<1>0. /\ g \in Ghost /\ t.zero \in Int
      /\ \A r \in Place : r \in Int
      /\ t.arrayIndex[g] \in Int
  BY SegmentFacts
<1>1. CASE g \in Updating(t)
  <2> DEFINE v == ghostPushToZero(t, g)
  <2>1. /\ Consistent(v)
        /\ Updating(v) = Updating(t) \ {g} /\ InUse(v) = InUse(t)
        /\ v.zero = t.zero - 1 /\ v.arrayIndex[g] = t.zero - 1
        /\ \A r \in Place : r < t.arrayIndex[g] => v.mGhostArray[r] = t.mGhostArray[r]
    BY <1>1, ghostPushToZeroFacts
  <2>2. u = ghostPushZeroToFree(v, g)
    BY <1>0, <1>1 DEF freeGhostInfo, Updating
  <2> HIDE DEF v
  <2>3. /\ Consistent(u)
        /\ Updating(u) = Updating(v) /\ InUse(u) = InUse(v) \ {g}
        /\ u.zero = v.zero
        /\ \A r \in Place : r < v.arrayIndex[g] => u.mGhostArray[r] = v.mGhostArray[r]
    BY <2>1, <2>2, ghostPushZeroToFreeFacts
  <2>4. t.arrayIndex[g] <= v.arrayIndex[g] /\ v.arrayIndex[g] \in Int
    BY <1>0, <1>1, <2>1 DEF Updating
  <2>5. \A r \in Place : r < t.arrayIndex[g] => r < v.arrayIndex[g]
    BY <1>0, <2>4
  <2> QED
    BY <1>0, <2>1, <2>3, <2>5
<1>2. CASE g \notin Updating(t)
  <2>1. u = ghostPushZeroToFree(t, g)
    BY <1>0, <1>2 DEF freeGhostInfo, Updating
  <2>2. /\ Consistent(u)
        /\ Updating(u) = Updating(t) /\ InUse(u) = InUse(t) \ {g}
        /\ u.zero = t.zero
        /\ \A r \in Place : r < t.arrayIndex[g] => u.mGhostArray[r] = t.mGhostArray[r]
    BY <1>2, <2>1, ghostPushZeroToFreeFacts
  <2> QED
    BY <1>0, <1>2, <2>2
<1> QED
  BY <1>1, <1>2

(* A mask that is set puts its GhostInfo in the first segment, if it was   *)
(* not there: collapseDirtyList, detachObject, packetDropped.              *)
LEMMA MaskSetFacts ==
  ASSUME NEW t, Consistent(t), NEW g \in InUse(t), nonZero = Updating(t),
         NEW u, u = MaskSet(t, g)
  PROVE  /\ Consistent(u)
         /\ Updating(u) = Updating(t) \union {g} /\ InUse(u) = InUse(t)
  BY ghostPushNonZeroFacts DEF MaskSet

(* The table that activateGhosting sets up is in order and empty.          *)
LEMMA NewTableFacts ==
  /\ Consistent(NewTable) /\ NewTable.zero = 0 /\ NewTable.free = 0
  /\ Updating(NewTable) = {} /\ InUse(NewTable) = {}
<1>1. /\ NewTable.mGhostArray = [p \in Place |-> p]
      /\ NewTable.arrayIndex = [g \in Ghost |-> g]
      /\ NewTable.zero = 0 /\ NewTable.free = 0
      /\ Ghost = Place
  BY DEF NewTable, Ghost, Place
<1>2. NewTable \in Table
  BY <1>1, MaxGhostCountAssumption DEF Table, NewTable
<1>3. \A g \in Ghost : ~(NewTable.arrayIndex[g] < 0)
  BY <1>1, MaxGhostCountAssumption DEF Ghost
<1>4. Updating(NewTable) = {} /\ InUse(NewTable) = {}
  BY <1>1, <1>3 DEF Updating, InUse
<1> QED
  BY <1>1, <1>2, <1>4 DEF Consistent

(* After qsort every GhostInfo of the first segment is found again.        *)
LEMMA SortedFacts ==
  ASSUME NEW t, Consistent(t), NEW array \in Permutations(t),
         NEW u, u = Sorted(t, array)
  PROVE  /\ Consistent(u)
         /\ Updating(u) = Updating(t) /\ InUse(u) = InUse(t)
         /\ u.zero = t.zero
<1> DEFINE at(g) == CHOOSE p \in Place : array[p] = g
<1>1. /\ t.mGhostArray \in [Place -> Ghost] /\ t.arrayIndex \in [Ghost -> Place]
      /\ t.zero \in 0 .. MaxGhostCount /\ t.free \in 0 .. MaxGhostCount
      /\ t = [mGhostArray |-> t.mGhostArray, arrayIndex |-> t.arrayIndex,
              zero |-> t.zero, free |-> t.free]
      /\ t.zero <= t.free
  BY DEF Consistent, Table
<1>2. /\ array \in [Place -> Ghost]
      /\ \A p \in Place : IF p < t.zero THEN array[p] \in Updating(t)
                          ELSE array[p] = t.mGhostArray[p]
      /\ \A g \in Updating(t) : \E p \in Place : \A q \in Place : array[q] = g <=> q = p
  BY DEF Permutations
<1>3. ASSUME NEW g \in Updating(t)
      PROVE  at(g) \in Place /\ \A q \in Place : array[q] = g <=> q = at(g)
  BY <1>2
<1> HIDE DEF at
<1>4. /\ u.zero = t.zero /\ u.free = t.free /\ u.mGhostArray = array
      /\ u.arrayIndex = [g \in Ghost |-> IF t.arrayIndex[g] < t.zero THEN at(g)
                                         ELSE t.arrayIndex[g]]
      /\ u = [mGhostArray |-> u.mGhostArray, arrayIndex |-> u.arrayIndex,
              zero |-> u.zero, free |-> u.free]
  BY <1>1 DEF Sorted, at
<1>5. /\ \A g \in Updating(t) : u.arrayIndex[g] = at(g)
      /\ \A g \in Ghost \ Updating(t) : u.arrayIndex[g] = t.arrayIndex[g]
  BY <1>4 DEF Updating
<1>6. u.arrayIndex \in [Ghost -> Place]
  BY <1>1, <1>3, <1>4 DEF Updating
<1>7. u \in Table
  BY <1>1, <1>2, <1>4, <1>6 DEF Table
<1>8. ASSUME NEW g \in Updating(t)
      PROVE  at(g) < t.zero
  <2>1. at(g) \in Place /\ array[at(g)] = g
    BY <1>3
  <2>2. CASE ~(at(g) < t.zero)
    <3>1. t.mGhostArray[at(g)] = g
      BY <1>2, <2>1, <2>2
    <3>2. t.arrayIndex[g] = at(g)
      BY <2>1, <3>1, SegmentFacts
    <3> QED
      BY <2>2, <3>2, SegmentFacts
  <2> QED
    BY <2>2
<1>9. ASSUME NEW g \in Ghost
      PROVE  u.mGhostArray[u.arrayIndex[g]] = g
  <2>1. CASE g \in Updating(t)
    BY <1>3, <1>4, <1>5, <2>1
  <2>2. CASE g \notin Updating(t)
    BY <1>2, <1>4, <1>5, <2>2, SegmentFacts
  <2> QED
    BY <2>1, <2>2
<1>10. ASSUME NEW p \in Place
       PROVE  u.arrayIndex[u.mGhostArray[p]] = p
  <2>1. CASE p < t.zero
    BY <1>2, <1>3, <1>4, <1>5, <2>1
  <2>2. CASE ~(p < t.zero)
    <3>1. array[p] = t.mGhostArray[p] /\ t.mGhostArray[p] \in Ghost
      BY <1>1, <1>2, <2>2
    <3>2. t.arrayIndex[array[p]] = p /\ array[p] \notin Updating(t)
      BY <2>2, <3>1, SegmentFacts
    <3> QED
      BY <1>4, <1>5, <3>1, <3>2
  <2> QED
    BY <2>1, <2>2
<1>11. Consistent(u)
  BY <1>1, <1>4, <1>7, <1>9, <1>10 DEF Consistent
<1>12. ASSUME NEW g \in Ghost
       PROVE  /\ u.arrayIndex[g] < u.zero <=> t.arrayIndex[g] < t.zero
              /\ u.arrayIndex[g] < u.free <=> t.arrayIndex[g] < t.free
  <2>1. CASE g \in Updating(t)
    <3>1. u.arrayIndex[g] = at(g) /\ at(g) < t.zero /\ at(g) \in Int
      BY <1>3, <1>5, <1>8, <2>1 DEF Place
    <3>2. t.arrayIndex[g] < t.zero /\ t.arrayIndex[g] \in Int
      BY <2>1, SegmentFacts
    <3> QED
      BY <1>1, <1>4, <3>1, <3>2
  <2>2. CASE g \notin Updating(t)
    BY <1>4, <1>5, <2>2
  <2> QED
    BY <2>1, <2>2
<1> QED
  BY <1>4, <1>11, <1>12 DEF Updating, InUse

-----------------------------------------------------------------------------
(* A loop of writePacket is at a place of the first segment.               *)
LEMMA PlaceFacts ==
  ASSUME Consistent(table), i \in Int, 0 <= i, i < table.zero
  PROVE  /\ i \in Place
         /\ table.mGhostArray[i] \in Updating(table)
         /\ table.mGhostArray[i] \in InUse(table)
         /\ table.arrayIndex[table.mGhostArray[i]] = i
<1>1. table.zero \in 0 .. MaxGhostCount /\ table.zero <= table.free
      /\ table.free \in 0 .. MaxGhostCount
  BY SegmentFacts
<1>2. i \in Place /\ i < table.zero /\ i < table.free
  BY <1>1, MaxGhostCountAssumption DEF Place
<1>3. table.mGhostArray[i] \in Ghost /\ table.arrayIndex[table.mGhostArray[i]] = i
  BY <1>2, SegmentFacts
<1> QED
  BY <1>2, <1>3 DEF Updating, InUse

(* A step keeps the table in order and its first segment the GhostInfos    *)
(* with a non-zero mask; and it is a step of GhostSegments or moves none.  *)
LEMMA TableStep ==
  ASSUME IInv, Next
  PROVE  /\ Consistent(table') /\ nonZero' = Updating(table')
         /\ \/ \E g \in Ghost : /\ g \notin InUse(table)
                                /\ InUse(table') = InUse(table) \union {g}
                                /\ Updating(table') = Updating(table) \union {g}
            \/ \E g \in Ghost : /\ g \in InUse(table)
                                /\ InUse(table') = InUse(table)
                                /\ Updating(table') = Updating(table) \union {g}
            \/ \E g \in Ghost : /\ g \in Updating(table)
                                /\ InUse(table') = InUse(table)
                                /\ Updating(table') = Updating(table) \ {g}
            \/ \E g \in Ghost : /\ g \in InUse(table)
                                /\ InUse(table') = InUse(table) \ {g}
                                /\ Updating(table') = Updating(table) \ {g}
            \/ InUse(table') = InUse(table) /\ Updating(table') = Updating(table)
<1>0. /\ Consistent(table) /\ nonZero = Updating(table) /\ i \in Int
      /\ loop \in {"clean", "write"} => i < table.zero
      /\ loop = "clear" => i >= 0
  BY DEF IInv, LoopInv
<1>1. ASSUME objectInScope
      PROVE  \E g \in Ghost : /\ Consistent(table') /\ nonZero' = Updating(table')
                              /\ g \notin InUse(table)
                              /\ InUse(table') = InUse(table) \union {g}
                              /\ Updating(table') = Updating(table) \union {g}
  <2> DEFINE g == table.mGhostArray[table.free]
             t == ghostPushFreeToZero(table, g)
  <2>1. table.free < MaxGhostCount /\ table' = ghostPushNonZero(t, g)
        /\ nonZero' = nonZero \union {g}
    BY <1>1 DEF objectInScope
  <2>2. table.free \in Place
    BY <1>0, <2>1, SegmentFacts, MaxGhostCountAssumption
  <2>3. g \in Ghost /\ g \notin InUse(table) /\ g \notin Updating(table)
    BY <1>0, <2>2, SegmentFacts
  <2>4. /\ Consistent(t) /\ Updating(t) = Updating(table)
        /\ InUse(t) = InUse(table) \union {g}
    BY <1>0, <2>3, ghostPushFreeToZeroFacts
  <2> HIDE DEF g, t
  <2>5. /\ Consistent(table') /\ Updating(table') = Updating(t) \union {g}
        /\ InUse(table') = InUse(t)
    BY <2>1, <2>3, <2>4, ghostPushNonZeroFacts
  <2> QED
    BY <1>0, <2>1, <2>3, <2>4, <2>5
<1>2. ASSUME NEW g \in Ghost, SetMask(g)
      PROVE  /\ Consistent(table') /\ nonZero' = Updating(table')
             /\ g \in InUse(table)
             /\ InUse(table') = InUse(table)
             /\ Updating(table') = Updating(table) \union {g}
  BY <1>0, <1>2, MaskSetFacts DEF SetMask
<1>3. ASSUME NEW g \in Ghost, RemovalReceived(g)
      PROVE  /\ Consistent(table') /\ nonZero' = Updating(table')
             /\ g \in InUse(table)
             /\ InUse(table') = InUse(table) \ {g}
             /\ Updating(table') = Updating(table) \ {g}
  BY <1>0, <1>3, freeGhostInfoFacts DEF RemovalReceived
<1>4. ASSUME UNCHANGED <<table, nonZero>>
      PROVE  /\ Consistent(table') /\ nonZero' = Updating(table')
             /\ InUse(table') = InUse(table) /\ Updating(table') = Updating(table)
  BY <1>0, <1>4
<1>5. ASSUME loop \in {"clean", "write"}, i >= 0
      PROVE  table.mGhostArray[i] \in Updating(table) /\ table.mGhostArray[i] \in InUse(table)
  BY <1>0, <1>5, PlaceFacts
<1>6. ASSUME Clean, ~UNCHANGED <<table, nonZero>>
      PROVE  \E g \in Ghost : /\ Consistent(table') /\ nonZero' = Updating(table')
                              /\ g \in InUse(table)
                              /\ InUse(table') = InUse(table) \ {g}
                              /\ Updating(table') = Updating(table) \ {g}
  <2> DEFINE g == table.mGhostArray[i]
  <2>1. loop = "clean" /\ i >= 0 /\ table' = freeGhostInfo(table, g) /\ nonZero' = nonZero \ {g}
    BY <1>6 DEF Clean
  <2>2. g \in InUse(table) /\ g \in Ghost
    BY <1>0, <1>5, <2>1, SegmentFacts
  <2> HIDE DEF g
  <2> QED
    BY <1>0, <2>1, <2>2, freeGhostInfoFacts
<1>7. ASSUME Sort
      PROVE  /\ Consistent(table') /\ nonZero' = Updating(table')
             /\ InUse(table') = InUse(table) /\ Updating(table') = Updating(table)
  BY <1>0, <1>7, SortedFacts DEF Sort
<1>8. ASSUME Write, ~UNCHANGED <<table, nonZero>>
      PROVE  \E g \in Ghost : /\ Consistent(table') /\ nonZero' = Updating(table')
                              /\ g \in Updating(table)
                              /\ InUse(table') = InUse(table)
                              /\ Updating(table') = Updating(table) \ {g}
  <2> DEFINE g == table.mGhostArray[i]
  <2>1. loop = "write" /\ i >= 0 /\ table' = ghostPushToZero(table, g) /\ nonZero' = nonZero \ {g}
    BY <1>8 DEF Write
  <2>2. g \in Updating(table) /\ g \in Ghost
    BY <1>0, <1>5, <2>1, SegmentFacts
  <2> HIDE DEF g
  <2> QED
    BY <1>0, <2>1, <2>2, ghostPushToZeroFacts
<1>9. ASSUME Clear, ~UNCHANGED <<table, nonZero>>
      PROVE  \E g \in Ghost : /\ Consistent(table') /\ nonZero' = Updating(table')
                              /\ g \in InUse(table)
                              /\ InUse(table') = InUse(table) \ {g}
                              /\ Updating(table') = Updating(table) \ {g}
  <2>1. /\ loop = "clear" /\ i < MaxGhostCount /\ table.arrayIndex[i] < table.free
        /\ table' = freeGhostInfo(MaskSet(table, i), i) /\ nonZero' = nonZero \ {i}
    BY <1>9 DEF Clear
  <2>2. i \in Ghost /\ i \in InUse(table)
    BY <1>0, <2>1, SegmentFacts
  <2> DEFINE t == MaskSet(table, i)
  <2>3. Consistent(t) /\ InUse(t) = InUse(table) /\ Updating(t) = Updating(table) \union {i}
    BY <1>0, <2>2, MaskSetFacts
  <2> HIDE DEF t
  <2>4. /\ Consistent(table') /\ InUse(table') = InUse(t) \ {i}
        /\ Updating(table') = Updating(t) \ {i}
    BY <2>1, <2>2, <2>3, freeGhostInfoFacts DEF t
  <2> QED
    BY <1>0, <2>1, <2>2, <2>3, <2>4
<1>10. ASSUME activateGhosting
       PROVE  /\ Consistent(table') /\ nonZero' = Updating(table')
              /\ InUse(table') = InUse(table) /\ Updating(table') = Updating(table)
  <2>1. table.zero = 0 /\ table.free = 0 /\ table' = NewTable /\ nonZero' = nonZero
    BY <1>10 DEF activateGhosting
  <2>2. Updating(table) = {} /\ InUse(table) = {}
    BY <1>0, <2>1, SegmentFacts
  <2>3. Consistent(table') /\ Updating(table') = {} /\ InUse(table') = {}
    BY <2>1, NewTableFacts
  <2> QED
    BY <1>0, <2>1, <2>2, <2>3
<1> QED
  BY <1>1, <1>2, <1>3, <1>4, <1>6, <1>7, <1>8, <1>9, <1>10
     DEF Next, StartWrite, EndWrite, StartClear, EndClear

(* The loops: visiting place i leaves what is at the places before it.     *)
LEMMA VisitFacts ==
  ASSUME Consistent(table), i \in Int, 0 <= i, i < table.zero,
         todo = {table.mGhostArray[p] : p \in 0 .. i},
         \A r \in Place : r < i => table'.mGhostArray[r] = table.mGhostArray[r],
         Visit(i - 1, table.mGhostArray[i])
  PROVE  todo' = {table'.mGhostArray[p] : p \in 0 .. i'}
<1>1. i \in Place /\ \A p \in 0 .. i : p \in Place
  BY SegmentFacts, MaxGhostCountAssumption DEF Place
<1>2. i' = i - 1 /\ todo' = todo \ {table.mGhostArray[i]}
  BY DEF Visit
<1>3. \A p \in 0 .. i : table.mGhostArray[p] = table.mGhostArray[i] => p = i
  BY <1>1, SegmentFacts
<1>4. \A p : p \in 0 .. i - 1 <=> p \in 0 .. i /\ p # i
  OBVIOUS
<1>5. todo' = {table.mGhostArray[p] : p \in 0 .. i - 1}
  BY <1>2, <1>3, <1>4
<1>6. \A p \in 0 .. i - 1 : table'.mGhostArray[p] = table.mGhostArray[p]
  BY <1>1, <1>4
<1> QED
  BY <1>2, <1>5, <1>6

(* A loop that begins at the last place of the first segment has all of it *)
(* before it, as writePacket's loops have.                                 *)
LEMMA StartFacts ==
  ASSUME NEW t, Consistent(t)
  PROVE  Updating(t) = {t.mGhostArray[p] : p \in 0 .. t.zero - 1}
<1>1. \A p \in 0 .. t.zero - 1 : p \in Place /\ p < t.zero
  BY SegmentFacts, MaxGhostCountAssumption DEF Place
<1>2. ASSUME NEW p \in 0 .. t.zero - 1 PROVE t.mGhostArray[p] \in Updating(t)
  BY <1>1, SegmentFacts DEF Updating
<1>3. ASSUME NEW g \in Updating(t)
      PROVE  \E p \in 0 .. t.zero - 1 : g = t.mGhostArray[p]
  <2>1. /\ t.arrayIndex[g] \in Place /\ t.arrayIndex[g] < t.zero
        /\ t.mGhostArray[t.arrayIndex[g]] = g /\ t.zero \in Int
    BY SegmentFacts DEF Updating
  <2>2. t.arrayIndex[g] \in 0 .. t.zero - 1
    BY <2>1 DEF Place
  <2> QED
    BY <2>1, <2>2
<1> QED
  BY <1>2, <1>3

(* What the loops have still to do lies ahead of them after every step.    *)
LEMMA LoopStep ==
  ASSUME IInv, Next
  PROVE  LoopInv'
<1>0. /\ Consistent(table) /\ nonZero = Updating(table)
      /\ loop \in {"none", "clean", "write", "clear"}
      /\ i \in -1 .. MaxGhostCount /\ todo \subseteq Ghost
      /\ LoopsMeetAll
      /\ loop \in {"clean", "write"} => i < table.zero
      /\ loop = "clear" => i >= 0 /\ InUse(table) \subseteq i .. MaxGhostCount - 1
  BY DEF IInv, LoopInv
<1>1. Consistent(table') /\ nonZero' = Updating(table')
  BY TableStep
<1>2. /\ table'.zero \in 0 .. MaxGhostCount /\ table.zero \in 0 .. MaxGhostCount
      /\ Updating(table') \subseteq Ghost
      /\ MaxGhostCount \in Int /\ MaxGhostCount > 0
      /\ i \in Int /\ -1 <= i /\ i <= MaxGhostCount
      /\ \A j : j \in -1 .. MaxGhostCount <=> j \in Int /\ -1 <= j /\ j <= MaxGhostCount
  BY <1>0, <1>1, SegmentFacts, MaxGhostCountAssumption
<1>3. ASSUME loop = "none", UNCHANGED loop, i' = i, todo' = todo
      PROVE  LoopInv'
  BY <1>2, <1>3, <1>0 DEF LoopInv, LoopsMeetAll
<1>4. ASSUME loop' = "none", i' = 0, todo' = {}
      PROVE  LoopInv'
  BY <1>2, <1>4 DEF LoopInv, LoopsMeetAll
<1>5. ASSUME loop' \in {"clean", "write"}, i' = table'.zero - 1, todo' = Updating(table')
      PROVE  LoopInv'
  BY <1>1, <1>2, <1>5, StartFacts DEF LoopInv, LoopsMeetAll
<1>6. ASSUME loop \in {"clean", "write"}, UNCHANGED loop, 0 <= i,
             Visit(i - 1, table.mGhostArray[i]), table.zero - 1 <= table'.zero,
             i - 1 < table'.zero,
             \A r \in Place : r < i => table'.mGhostArray[r] = table.mGhostArray[r]
      PROVE  LoopInv'
  <2>1. todo' = {table'.mGhostArray[p] : p \in 0 .. i'}
    BY <1>0, <1>2, <1>6, VisitFacts DEF LoopInv, LoopsMeetAll
  <2>2. i' = i - 1 /\ todo' \subseteq Ghost /\ i' \in -1 .. MaxGhostCount
    BY <1>0, <1>2, <1>6 DEF Visit
  <2> QED
    BY <1>6, <2>1, <2>2 DEF LoopInv, LoopsMeetAll
<1>7. CASE objectInScope \/ activateGhosting \/ \E g \in Ghost : SetMask(g) \/ RemovalReceived(g)
  BY <1>3, <1>7 DEF objectInScope, activateGhosting, SetMask, RemovalReceived
<1>8. CASE StartWrite
  BY <1>5, <1>8 DEF StartWrite
<1>9. CASE Clean
  <2>1. loop = "clean" /\ 0 <= i /\ i < table.zero /\ UNCHANGED loop
        /\ Visit(i - 1, table.mGhostArray[i])
    BY <1>0, <1>9 DEF Clean
  <2>2. CASE UNCHANGED table
    BY <1>2, <1>6, <2>1, <2>2
  <2>3. CASE table' = freeGhostInfo(table, table.mGhostArray[i])
    <3>1. /\ table.zero - 1 <= table'.zero
          /\ \A r \in Place : r < i => table'.mGhostArray[r] = table.mGhostArray[r]
      BY <1>0, <1>2, <2>1, <2>3, PlaceFacts, freeGhostInfoFacts
    <3> QED
      BY <1>2, <1>6, <2>1, <3>1
  <2> QED
    BY <1>9, <2>2, <2>3 DEF Clean
<1>10. CASE Sort
  <2>1. table'.zero = table.zero /\ Updating(table') = Updating(table)
    BY <1>0, <1>10, SortedFacts DEF Sort
  <2> QED
    BY <1>5, <1>10, <2>1 DEF Sort
<1>11. CASE Write
  <2>1. loop = "write" /\ 0 <= i /\ i < table.zero /\ UNCHANGED loop
        /\ Visit(i - 1, table.mGhostArray[i])
    BY <1>0, <1>11 DEF Write
  <2>2. CASE UNCHANGED table
    BY <1>2, <1>6, <2>1, <2>2
  <2>3. CASE table' = ghostPushToZero(table, table.mGhostArray[i])
    <3>1. /\ table'.zero = table.zero - 1
          /\ \A r \in Place : r < i => table'.mGhostArray[r] = table.mGhostArray[r]
      BY <1>0, <1>2, <2>1, <2>3, PlaceFacts, ghostPushToZeroFacts
    <3> QED
      BY <1>2, <1>6, <2>1, <3>1
  <2> QED
    BY <1>11, <2>2, <2>3 DEF Write
<1>12. CASE EndWrite \/ EndClear
  BY <1>4, <1>12 DEF EndWrite, EndClear
<1>13. CASE StartClear
  <2>1. /\ loop' = "clear" /\ i' = 0 /\ todo' = InUse(table) /\ InUse(table') = InUse(table)
        /\ InUse(table) \subseteq 0 .. MaxGhostCount - 1
    BY <1>13 DEF StartClear, InUse, Ghost
  <2> QED
    BY <1>2, <2>1 DEF LoopInv, LoopsMeetAll, Ghost
<1>14. CASE Clear
  <2>1. /\ loop = "clear" /\ loop' = "clear" /\ i >= 0 /\ i < MaxGhostCount
        /\ i' = i + 1 /\ todo' = todo \ {i}
        /\ InUse(table) \subseteq i .. MaxGhostCount - 1
    BY <1>0, <1>14 DEF Clear, Visit
  <2>2. i \in Ghost
    BY <1>2, <2>1 DEF Ghost
  <2>3. InUse(table') \subseteq InUse(table) \ {i}
    <3>1. CASE table.arrayIndex[i] < table.free
      <4> DEFINE t == MaskSet(table, i)
      <4>1. table' = freeGhostInfo(t, i) /\ i \in InUse(table)
        BY <1>14, <2>2, <3>1 DEF Clear, InUse
      <4>2. Consistent(t) /\ InUse(t) = InUse(table)
        BY <1>0, <4>1, MaskSetFacts
      <4> HIDE DEF t
      <4> QED
        BY <4>1, <4>2, freeGhostInfoFacts
    <3>2. CASE ~(table.arrayIndex[i] < table.free)
      BY <1>14, <3>2 DEF Clear, InUse
    <3> QED
      BY <3>1, <3>2
  <2>4. InUse(table') \subseteq i + 1 .. MaxGhostCount - 1
    BY <1>2, <2>1, <2>3
  <2> QED
    BY <1>0, <1>2, <2>1, <2>4 DEF LoopInv, LoopsMeetAll
<1> QED
  BY <1>7, <1>8, <1>9, <1>10, <1>11, <1>12, <1>13, <1>14 DEF Next

(* The invariant is inductive.                                             *)
LEMMA Inductive == IInv /\ [Next]_vars => IInv'
<1>1. ASSUME IInv, UNCHANGED vars PROVE IInv'
  BY <1>1 DEF vars, IInv, LoopInv, LoopsMeetAll
<1>2. ASSUME IInv, Next PROVE IInv'
  BY <1>2, TableStep, LoopStep DEF IInv
<1> QED
  BY <1>1, <1>2

(* The invariant holds after the first activateGhosting.                   *)
LEMMA InitInv == Init => IInv
<1> SUFFICES ASSUME Init PROVE IInv
  OBVIOUS
<1>1. table = NewTable /\ nonZero = {} /\ loop = "none" /\ i = 0 /\ todo = {}
  BY DEF Init
<1>2. Consistent(table) /\ Updating(table) = {}
  BY <1>1, NewTableFacts
<1> QED
  BY <1>1, <1>2, MaxGhostCountAssumption DEF IInv, LoopInv, LoopsMeetAll

(* The table stays in order: IInv holds in every reachable state.          *)
THEOREM Invariance == Spec => []IInv
  BY InitInv, Inductive, PTL DEF Spec

(* The array, its indices and the loop variables of writePacket and        *)
(* clearGhostInfo stay within their ranges.                                *)
THEOREM TypeCorrect == Spec => []TypeOK
<1>1. IInv => TypeOK
  BY DEF IInv, LoopInv, Consistent, TypeOK, Updating
<1> QED
  BY <1>1, Invariance, PTL

(* All that validateGhostArray asserts holds after every call, for any     *)
(* MaxGhostCount.                                                          *)
THEOREM ValidArray == Spec => []validateGhostArray
<1>1. IInv => validateGhostArray
  <2> SUFFICES ASSUME IInv PROVE validateGhostArray
    OBVIOUS
  <2>1. Consistent(table) /\ nonZero = Updating(table)
    BY DEF IInv
  <2> QED
    BY <2>1, SegmentFacts DEF validateGhostArray
<1> QED
  BY <1>1, Invariance, PTL

(* The loops of writePacket miss no GhostInfo of the first segment and     *)
(* meet none twice, though they move them about.                           *)
THEOREM LoopsAreComplete == Spec => []LoopsMeetAll
<1>1. IInv => LoopsMeetAll
  BY DEF IInv, LoopInv
<1> QED
  BY <1>1, Invariance, PTL

(* clearGhostInfo leaves both indices at zero.                             *)
THEOREM ClearGhostInfoClears == Spec => []AllCleared
<1>1. IInv => AllCleared
  <2> SUFFICES ASSUME IInv, loop = "clear", i = MaxGhostCount
               PROVE  table.zero = 0 /\ table.free = 0
    BY DEF AllCleared
  <2>1. Consistent(table) /\ InUse(table) \subseteq i .. MaxGhostCount - 1
    BY DEF IInv, LoopInv
  <2>2. InUse(table) = {}
    BY <2>1, MaxGhostCountAssumption
  <2>3. table.free \in 0 .. MaxGhostCount /\ table.zero \in 0 .. MaxGhostCount
        /\ table.zero <= table.free
    BY <2>1, SegmentFacts
  <2>4. CASE table.free > 0
    <3>1. 0 \in Place /\ table.mGhostArray[0] \in Ghost
          /\ table.arrayIndex[table.mGhostArray[0]] = 0
      BY <2>1, SegmentFacts, MaxGhostCountAssumption
    <3> QED
      BY <2>2, <2>4, <3>1 DEF InUse
  <2> QED
    BY <2>3, <2>4
<1> QED
  BY <1>1, Invariance, PTL

(* The array with its two indices implements the three sets.               *)
THEOREM ArrayImplementsSegments == Spec => ImplementsSegments
<1>1. Init => Segments!Init
  BY NewTableFacts DEF Init, Segments!Init
<1>2. IInv /\ [Next]_vars => [Segments!Next]_<<InUse(table), Updating(table)>>
  <2> SUFFICES ASSUME IInv, [Next]_vars
               PROVE  [Segments!Next]_<<InUse(table), Updating(table)>>
    OBVIOUS
  <2>1. CASE UNCHANGED vars
    BY <2>1 DEF vars, InUse, Updating
  <2>2. CASE Next
    BY <2>2, TableStep
       DEF Segments!Next, Segments!Scope, Segments!Update, Segments!Send, Segments!Free
  <2> QED
    BY <2>1, <2>2
<1> QED
  BY <1>1, <1>2, Invariance, PTL DEF Spec, ImplementsSegments, Segments!Spec
=============================================================================
