------------------------ MODULE GhostConnection_proofs ------------------------
(***************************************************************************)
(* Proofs about GhostConnection: the invariant IInv, that every action     *)
(* keeps it, and what it says of the properties.  The ghost array and the  *)
(* packets are treated by themselves, as t and w, in the lemmas about them.*)
(***************************************************************************)
EXTENDS GhostConnection, SequenceTheorems, WellFoundedInduction, TLAPS

-----------------------------------------------------------------------------
(* Numbers.                                                                *)

(* A set of natural numbers has a least one.                               *)
LEMMA LeastNat == ASSUME NEW T, T \subseteq Nat, T # {}
  PROVE \E x \in T : \A y \in T : x <= y
<1>. DEFINE R == OpToRel(<, Nat)
<1>1. IsWellFoundedOn(R, Nat)
  BY NatLessThanWellFounded
<1>2. \A x, y \in Nat : <<x, y>> \in R <=> x < y
  BY DEF OpToRel
<1>. HIDE DEF R
<1>3. PICK x \in T : \A y \in T : ~(<<y, x>> \in R)
  BY <1>1, WFMin
<1>4. ASSUME NEW y \in T PROVE x <= y
  <2>1. x \in Nat /\ y \in Nat
    OBVIOUS
  <2>2. ~(y < x)
    BY <1>2, <1>3, <2>1
  <2>. QED
    BY <2>1, <2>2
<1>. QED
  BY <1>4

-----------------------------------------------------------------------------
(* What the invariant speaks of, besides the ghost array: the packets with *)
(* a queued notify, which of them have arrived and which may still be read *)
(* (by their place in notes), the ghosts of the initiator, the ends of     *)
(* sessions that it has not yet been told of, and the RPCs that wait.      *)
Link ==
  [notes   |-> notes,
   ghosts  |-> mLocalGhosts,
   arr     |-> {i \in DOMAIN notes : notified[Server] + i \in arrived[Server]},
   rd      |-> {i \in DOMAIN notes : \A m \in arrived[Server] : m < notified[Server] + i},
   ends    |-> {r \in rpcDone + 1 .. Len(rpcs) : rpcs[r].type = "rpcEndGhosting"},
   waiting |-> rpcWaiting]

Pos(w) == DOMAIN w.notes
Updates(w, i) == w.notes[i].updates
List(w, i) == IF w.notes[i].listed THEN w.notes[i].updates ELSE {}

\* What a packet says by itself.
NotesInv(w) ==
  \A i \in Pos(w) : \A u \in Updates(w, i) :
    /\ \A v \in Updates(w, i) : u.ghost = v.ghost => u = v
    /\ u.kind # "KillingGhost" => u.obj # NoObject
    /\ u.obj = NoObject => u.current = {}
    /\ u.current \subseteq u.mask

\* When a session has been ended, no update is sent before the initiator has
\* deleted its ghosts.
EndsInv(w) ==
  /\ \A r \in w.ends :
       /\ \A i \in Pos(w) : r \in w.notes[i].rpcs =>
            \A j \in Pos(w) : i <= j => Updates(w, j) = {}
       /\ r \in w.waiting => \A j \in w.rd : Updates(w, j) = {}
  /\ w.ends = {} => \A i \in w.rd : ~w.notes[i].listed => Updates(w, i) = {}

\* The updates that may still be read are for the ghosts there will be.
ReadableInv(w) ==
  \A i \in w.rd : \A u \in Updates(w, i) :
    /\ u.kind = "Ghosting" <=> w.ghosts[u.ghost] = NoGhost
    /\ u.kind = "Update" => w.ghosts[u.ghost].of = u.obj
    /\ u.kind # "Update" =>
         \A j \in w.rd : i < j => \A v \in Updates(w, j) : v.ghost # u.ghost

\* The states that are current in a packet stay so when they are sent again,
\* and are current at the initiator when the packet has arrived.
CurrentInv(w) ==
  /\ \A g \in Ghost : w.ghosts[g] = NoGhost \/ w.ghosts[g].of # NoObject
  /\ \A i \in Pos(w) : \A u \in List(w, i) :
       /\ \A j \in Pos(w) : \A v \in List(w, j) :
            i < j /\ u.ghost = v.ghost /\ u.obj = v.obj =>
              u.current \intersect v.mask \subseteq v.current
       /\ w.ghosts[u.ghost].of = u.obj =>
            /\ i \in w.arr => u.current \subseteq w.ghosts[u.ghost].current
            /\ i \in w.rd => w.ghosts[u.ghost].current \intersect u.mask \subseteq u.current

LinkInv(w) == NotesInv(w) /\ EndsInv(w) /\ ReadableInv(w) /\ CurrentInv(w)

\* What a GhostInfo says by itself.  (When more than one bit is cleared at
\* once, one with a zero mask may be left in the first segment.)
InSegment(t, g) ==
  /\ t.info[g].updateMask # {} => g \in t.updating
  /\ "clearMany" \notin Calls => (g \in t.updating => t.info[g].updateMask # {})

InfoInv(t) ==
  \A g \in t.inUse :
    /\ InSegment(t, g)
    /\ t.info[g].obj = NoObject <=>
         "KillGhost" \in t.info[g].flags \/ "KillingGhost" \in t.info[g].flags
    /\ ~({"NotYetGhosted", "Ghosting"} \subseteq t.info[g].flags)
    /\ ~({"NotYetGhosted", "KillingGhost"} \subseteq t.info[g].flags)
    /\ ~({"Ghosting", "KillingGhost"} \subseteq t.info[g].flags)

\* What the flags of a GhostInfo say of the packets in flight and of the
\* initiator: it has no ghost; the creation is in flight; it has one; the
\* removal is in flight.
Absent(w, g) ==
  /\ \A i \in Pos(w) : \A u \in List(w, i) : u.ghost # g
  /\ w.ends = {} => w.ghosts[g] = NoGhost

Creating(w, g, o) ==
  \E i \in Pos(w) : \E u \in List(w, i) :
    /\ u.ghost = g /\ u.kind = "Ghosting" /\ (o # NoObject => u.obj = o)
    /\ \A j \in Pos(w) : \A v \in List(w, j) : v.ghost = g => j = i
    /\ i \in w.arr => w.ghosts[g].of = u.obj
    /\ i \notin w.arr => w.ghosts[g] = NoGhost

Present(w, g, o) ==
  /\ w.ghosts[g] # NoGhost /\ (o # NoObject => w.ghosts[g].of = o)
  /\ \A i \in Pos(w) : \A u \in List(w, i) :
       u.ghost = g => u.kind = "Update" /\ u.obj = w.ghosts[g].of

Removing(w, g) ==
  \E i \in Pos(w) : \E u \in List(w, i) :
    /\ u.ghost = g /\ u.kind = "KillingGhost"
    /\ \A j \in Pos(w) : \A v \in List(w, j) :
         v.ghost = g => j <= i /\ (j < i => v.kind = "Update")
    /\ i \in w.arr <=> w.ghosts[g] = NoGhost

GhostsInv(t, w) ==
  /\ \A g \in Ghost \ t.inUse : Absent(w, g)
  /\ \A g \in t.inUse :
       /\ "NotYetGhosted" \in t.info[g].flags => Absent(w, g)
       /\ "Ghosting" \in t.info[g].flags => Creating(w, g, t.info[g].obj)
       /\ "KillingGhost" \in t.info[g].flags => Removing(w, g)
       /\ t.info[g].flags \intersect {"NotYetGhosted", "Ghosting", "KillingGhost"} = {} =>
            Present(w, g, t.info[g].obj)

\* The states of the ghost of o that need not be sent now.
ToBeSent(t, dirty, free, g, o, bit) ==
  bit \in t.info[g].updateMask \/ bit \in dirty[o] \/ <<o, bit>> \in free
Remembered(w, g, o, bit) ==
  \/ w.ghosts[g].of = o /\ bit \in w.ghosts[g].current
  \/ \E i \in Pos(w) : \E u \in List(w, i) : u.ghost = g /\ bit \in u.current /\ i \notin w.arr

StatesInv(t, dirty, free, w) ==
  \A g \in t.inUse : t.info[g].obj # NoObject => \A bit \in Bit :
    \/ ToBeSent(t, dirty, free, g, t.info[g].obj, bit)
    \/ "NotYetGhosted" \notin t.info[g].flags /\ Remembered(w, g, t.info[g].obj, bit)

TableInv(t, dirty, free, w) ==
  /\ t \in GhostArray /\ t.updating \subseteq t.inUse
  /\ InfoInv(t) /\ GhostsInv(t, w) /\ StatesInv(t, dirty, free, w)

\* Nothing has been ghosted in this session.
Dormant(t, w) ==
  /\ \A g \in t.inUse : "NotYetGhosted" \in t.info[g].flags
  /\ \A i \in Pos(w) : List(w, i) = {}

StartsRight ==
  \A r \in DOMAIN rpcs : rpcs[r].type = "rpcStartGhosting" =>
    /\ rpcs[r].sequence <= mGhostingSequence
    /\ rpcs[r].sequence = mGhostingSequence =>
         \A x \in r + 1 .. Len(rpcs) : rpcs[x].type # "rpcEndGhosting"

ChannelInv ==
  /\ notified[Server] <= sent[Server]
  /\ \A m \in arrived[Server] : m <= sent[Server]

(* The inductive invariant: the types, what each end has received, the     *)
(* order of the session's remote calls, and what the array and the link    *)
(* hold of every ghost slot (LinkInv, TableInv).                           *)
IInv ==
  /\ TypeOK /\ ChannelInv /\ StartsRight
  /\ mGhosting => Link.ends = {}
  /\ mGhosting \/ Dormant(mGhostArray, Link)
  /\ LinkInv(Link)
  /\ TableInv(mGhostArray, mDirtyMaskBits, cleared, Link)

-----------------------------------------------------------------------------
(* The ghost array by itself.                                              *)
LinkType(w) ==
  /\ w.notes \in Seq(Note) /\ w.ghosts \in [Ghost -> LocalGhost]
  /\ w.arr \subseteq Pos(w) /\ w.rd \subseteq Pos(w) /\ w.arr \intersect w.rd = {}
  /\ \A i \in w.rd, j \in Pos(w) : i <= j => j \in w.rd

InFlightFlag == {"NotYetGhosted", "Ghosting", "KillingGhost"}

\* A call that changes nothing but masks, the scope, and what has no object
\* any more, and that uses some free GhostInfos for objects new in scope.
Tweak(t, d, free, t2, d2, free2) ==
  /\ t.inUse \subseteq t2.inUse
  /\ \A g \in t.inUse :
       /\ t2.info[g].obj = t.info[g].obj \/ t2.info[g].obj = NoObject
       /\ \A f \in InFlightFlag : f \in t2.info[g].flags <=> f \in t.info[g].flags
       /\ t2.info[g].obj # NoObject => \A bit \in Bit :
            ToBeSent(t, d, free, g, t2.info[g].obj, bit)
              => ToBeSent(t2, d2, free2, g, t2.info[g].obj, bit)
  /\ \A g \in t2.inUse : g \notin t.inUse =>
       /\ t2.info[g].updateMask = Bit /\ "NotYetGhosted" \in t2.info[g].flags
       /\ "Ghosting" \notin t2.info[g].flags /\ "KillingGhost" \notin t2.info[g].flags

(* A ghost that is being created, or is there, is so too when its          *)
(* GhostInfo loses the object.                                             *)
LEMMA LostObject ==
  ASSUME NEW w, NEW g, NEW o, NEW o2, o2 = o \/ o2 = NoObject
  PROVE  /\ Creating(w, g, o) => Creating(w, g, o2)
         /\ Present(w, g, o) => Present(w, g, o2)
<1>1. ASSUME Creating(w, g, o) PROVE Creating(w, g, o2)
  BY <1>1 DEF Creating
<1>2. ASSUME Present(w, g, o) PROVE Present(w, g, o2)
  BY <1>2 DEF Present
<1>. QED
  BY <1>1, <1>2

(* A Tweak keeps what the ghost array says of the packets and the          *)
(* initiator.                                                              *)
LEMMA Tweaked ==
  ASSUME NEW t, NEW d, NEW free, NEW t2, NEW d2, NEW free2, NEW w,
         TableInv(t, d, free, w), Tweak(t, d, free, t2, d2, free2),
         t2 \in GhostArray, t2.updating \subseteq t2.inUse, InfoInv(t2)
  PROVE  TableInv(t2, d2, free2, w)
<1>1. /\ t.inUse \subseteq t2.inUse /\ t2.inUse \subseteq Ghost
      /\ t \in GhostArray
  BY DEF Tweak, TableInv, GhostArray
<1>2. ASSUME NEW g \in t2.inUse, g \in t.inUse
      PROVE  /\ t2.info[g].obj = t.info[g].obj \/ t2.info[g].obj = NoObject
             /\ "NotYetGhosted" \in t2.info[g].flags <=> "NotYetGhosted" \in t.info[g].flags
             /\ "Ghosting" \in t2.info[g].flags <=> "Ghosting" \in t.info[g].flags
             /\ "KillingGhost" \in t2.info[g].flags <=> "KillingGhost" \in t.info[g].flags
  BY <1>2 DEF Tweak, InFlightFlag
<1>3. ASSUME NEW g \in t2.inUse, g \notin t.inUse
      PROVE  /\ "NotYetGhosted" \in t2.info[g].flags /\ "Ghosting" \notin t2.info[g].flags
             /\ "KillingGhost" \notin t2.info[g].flags /\ t2.info[g].updateMask = Bit
             /\ Absent(w, g)
  BY <1>1, <1>3 DEF Tweak, TableInv, GhostsInv
<1>4. GhostsInv(t2, w)
  <2>1. \A g \in Ghost \ t2.inUse : Absent(w, g)
    BY <1>1 DEF TableInv, GhostsInv
  <2>2. ASSUME NEW g \in t2.inUse
        PROVE  /\ "NotYetGhosted" \in t2.info[g].flags => Absent(w, g)
               /\ "Ghosting" \in t2.info[g].flags => Creating(w, g, t2.info[g].obj)
               /\ "KillingGhost" \in t2.info[g].flags => Removing(w, g)
               /\ t2.info[g].flags \intersect {"NotYetGhosted", "Ghosting", "KillingGhost"} = {} =>
                    Present(w, g, t2.info[g].obj)
    <3>1. CASE g \notin t.inUse
      BY <1>3, <3>1
    <3>2. CASE g \in t.inUse
      <4>1. /\ "NotYetGhosted" \in t.info[g].flags => Absent(w, g)
            /\ "Ghosting" \in t.info[g].flags => Creating(w, g, t.info[g].obj)
            /\ "KillingGhost" \in t.info[g].flags => Removing(w, g)
            /\ t.info[g].flags \intersect {"NotYetGhosted", "Ghosting", "KillingGhost"} = {} =>
                 Present(w, g, t.info[g].obj)
        BY <3>2 DEF TableInv, GhostsInv
      <4>2. t2.info[g].flags \intersect {"NotYetGhosted", "Ghosting", "KillingGhost"} = {} =>
              t.info[g].flags \intersect {"NotYetGhosted", "Ghosting", "KillingGhost"} = {}
        BY <1>2, <3>2
      <4>. QED
        BY <1>2, <3>2, <4>1, <4>2, LostObject
    <3>. QED
      BY <3>1, <3>2
  <2>. QED
    BY <2>1, <2>2 DEF GhostsInv
<1>5. StatesInv(t2, d2, free2, w)
  <2>. SUFFICES ASSUME NEW g \in t2.inUse, t2.info[g].obj # NoObject, NEW bit \in Bit
                PROVE  \/ ToBeSent(t2, d2, free2, g, t2.info[g].obj, bit)
                       \/ /\ "NotYetGhosted" \notin t2.info[g].flags
                          /\ Remembered(w, g, t2.info[g].obj, bit)
    BY DEF StatesInv
  <2>1. CASE g \notin t.inUse
    BY <1>3, <2>1 DEF ToBeSent
  <2>2. CASE g \in t.inUse
    <3>1. t2.info[g].obj = t.info[g].obj
      BY <1>2, <2>2
    <3>2. \/ ToBeSent(t, d, free, g, t.info[g].obj, bit)
          \/ /\ "NotYetGhosted" \notin t.info[g].flags
             /\ Remembered(w, g, t.info[g].obj, bit)
      BY <2>2, <3>1 DEF TableInv, StatesInv
    <3>3. ToBeSent(t, d, free, g, t2.info[g].obj, bit)
            => ToBeSent(t2, d2, free2, g, t2.info[g].obj, bit)
      BY <2>2 DEF Tweak
    <3>. QED
      BY <1>2, <2>2, <3>1, <3>2, <3>3
  <2>. QED
    BY <2>1, <2>2
<1>. QED
  BY <1>4, <1>5 DEF TableInv

TableStep(t, d, free, t2, d2, free2) ==
  /\ Tweak(t, d, free, t2, d2, free2)
  /\ t2 \in GhostArray /\ t2.updating \subseteq t2.inUse /\ InfoInv(t2)

(* A TableStep keeps TableInv, and a table of which nothing has been       *)
(* ghosted.                                                                *)
LEMMA StepTaken ==
  ASSUME NEW t, NEW d, NEW free, NEW t2, NEW d2, NEW free2, NEW w,
         TableInv(t, d, free, w), TableStep(t, d, free, t2, d2, free2)
  PROVE  TableInv(t2, d2, free2, w) /\ (Dormant(t, w) => Dormant(t2, w))
<1>1. TableInv(t2, d2, free2, w)
  BY Tweaked DEF TableStep
<1>2. Dormant(t, w) => Dormant(t2, w)
  BY DEF Dormant, TableStep, Tweak, InFlightFlag
<1>. QED
  BY <1>1, <1>2

(* The fields of a ghost array.                                            *)
LEMMA ArrayFields ==
  ASSUME NEW t \in GhostArray
  PROVE  /\ t = [info |-> t.info, updating |-> t.updating, inUse |-> t.inUse]
         /\ t.info \in [Ghost -> GhostInfo]
         /\ t.updating \subseteq Ghost /\ t.inUse \subseteq Ghost
BY DEF GhostArray

(* The fields of a GhostInfo.                                              *)
LEMMA InfoFields ==
  ASSUME NEW info \in GhostInfo
  PROVE  /\ info = [obj |-> info.obj, updateMask |-> info.updateMask, flags |-> info.flags]
         /\ info.obj \in Object \union {NoObject}
         /\ info.updateMask \subseteq Bit /\ info.flags \subseteq Flag
BY DEF GhostInfo

(* detachObject keeps the array right, for GhostInfos that are in use: one *)
(* without a state to send goes to the first segment with all of them.     *)
LEMMA DetachedStep ==
  ASSUME NEW t, NEW d, NEW d2, NEW free, NEW w, TableInv(t, d, free, w),
         NEW gs \in SUBSET t.inUse, NEW t2, t2 = Detached(t, gs),
         \A g \in t.inUse \ gs : t.info[g].obj # NoObject =>
           d[t.info[g].obj] \subseteq d2[t.info[g].obj]
  PROVE  TableStep(t, d, free, t2, d2, free) /\ t2.inUse = t.inUse
<1>1. t \in GhostArray /\ InfoInv(t) /\ t.updating \subseteq t.inUse
  BY DEF TableInv
<1>2. t.info \in [Ghost -> GhostInfo] /\ t.inUse \subseteq Ghost
  BY <1>1, ArrayFields
<1>3. /\ t2.inUse = t.inUse
      /\ t2.updating = t.updating \union {g \in gs : t.info[g].updateMask = {}}
      /\ t2.info = [g \in Ghost |->
           IF g \in gs
             THEN [obj |-> NoObject,
                   updateMask |-> IF t.info[g].updateMask = {} THEN Bit
                                                              ELSE t.info[g].updateMask,
                   flags |-> t.info[g].flags \union {"KillGhost"}]
             ELSE t.info[g]]
      /\ t2 = [info |-> t2.info, updating |-> t2.updating, inUse |-> t2.inUse]
  BY DEF Detached
<1>4. ASSUME NEW g \in gs
      PROVE  /\ g \in Ghost /\ t.info[g] \in GhostInfo
             /\ t2.info[g].obj = NoObject /\ t2.info[g].updateMask # {}
             /\ t2.info[g].updateMask \subseteq Bit
             /\ t2.info[g].flags = t.info[g].flags \union {"KillGhost"}
             /\ t2.info[g] \in GhostInfo
  <2>1. g \in Ghost /\ t.info[g] \in GhostInfo
    BY <1>2
  <2>2. t.info[g].updateMask \subseteq Bit /\ t.info[g].flags \subseteq Flag
    BY <2>1, InfoFields
  <2>. DEFINE mask == IF t.info[g].updateMask = {} THEN Bit ELSE t.info[g].updateMask
  <2>3. mask # {} /\ mask \subseteq Bit
    BY <2>2, GhostConstants
  <2>4. t2.info[g] = [obj |-> NoObject, updateMask |-> mask,
                      flags |-> t.info[g].flags \union {"KillGhost"}]
    BY <1>3, <2>1
  <2>. HIDE DEF mask
  <2>5. t2.info[g] \in GhostInfo
    BY <2>2, <2>3, <2>4 DEF GhostInfo, Flag
  <2>. QED
    BY <2>1, <2>3, <2>4, <2>5
<1>5. \A g \in Ghost : g \notin gs => t2.info[g] = t.info[g]
  BY <1>3
<1>6. t2.info \in [Ghost -> GhostInfo]
  <2>1. \A g \in Ghost : t2.info[g] \in GhostInfo
    BY <1>2, <1>4, <1>5
  <2>. QED
    BY <1>3, <2>1
<1>7. t2 \in GhostArray /\ t2.updating \subseteq t2.inUse
  <2>1. t2.updating \subseteq t2.inUse
    BY <1>1, <1>3
  <2>. QED
    BY <1>2, <1>3, <1>6, <2>1 DEF GhostArray
<1>8. InfoInv(t2)
  <2>. SUFFICES ASSUME NEW g \in t.inUse
                PROVE  /\ InSegment(t2, g)
                       /\ t2.info[g].obj = NoObject <=>
                            "KillGhost" \in t2.info[g].flags \/ "KillingGhost" \in t2.info[g].flags
                       /\ ~({"NotYetGhosted", "Ghosting"} \subseteq t2.info[g].flags)
                       /\ ~({"NotYetGhosted", "KillingGhost"} \subseteq t2.info[g].flags)
                       /\ ~({"Ghosting", "KillingGhost"} \subseteq t2.info[g].flags)
    BY <1>3 DEF InfoInv
  <2>1. /\ InSegment(t, g)
        /\ t.info[g].obj = NoObject <=>
             "KillGhost" \in t.info[g].flags \/ "KillingGhost" \in t.info[g].flags
        /\ ~({"NotYetGhosted", "Ghosting"} \subseteq t.info[g].flags)
        /\ ~({"NotYetGhosted", "KillingGhost"} \subseteq t.info[g].flags)
        /\ ~({"Ghosting", "KillingGhost"} \subseteq t.info[g].flags)
    BY <1>1 DEF InfoInv
  <2>2. CASE g \in gs
    BY <1>3, <1>4, <2>1, <2>2 DEF InSegment
  <2>3. CASE g \notin gs
    BY <1>2, <1>3, <1>5, <2>1, <2>3 DEF InSegment
  <2>. QED
    BY <2>2, <2>3
<1>9. Tweak(t, d, free, t2, d2, free)
  <2>1. ASSUME NEW g \in t.inUse
        PROVE  /\ t2.info[g].obj = t.info[g].obj \/ t2.info[g].obj = NoObject
               /\ \A f \in InFlightFlag : f \in t2.info[g].flags <=> f \in t.info[g].flags
               /\ t2.info[g].obj # NoObject => \A bit \in Bit :
                    ToBeSent(t, d, free, g, t2.info[g].obj, bit)
                      => ToBeSent(t2, d2, free, g, t2.info[g].obj, bit)
    <3>1. CASE g \in gs
      BY <1>4, <3>1 DEF InFlightFlag
    <3>2. CASE g \notin gs
      <4>1. t2.info[g] = t.info[g]
        BY <1>2, <1>5, <3>2
      <4>. QED
        BY <3>2, <4>1 DEF ToBeSent
    <3>. QED
      BY <3>1, <3>2
  <2>. QED
    BY <1>3, <2>1 DEF Tweak
<1>. QED
  BY <1>3, <1>7, <1>8, <1>9 DEF TableStep

(* freeGhostInfo keeps the array right, for ghosts that the initiator does *)
(* not have and no packet speaks of.                                       *)
LEMMA FreedKeeps ==
  ASSUME NEW t, NEW d, NEW free, NEW w, TableInv(t, d, free, w),
         NEW gs \in SUBSET t.inUse, \A g \in gs : Absent(w, g),
         NEW t2, t2 = Freed(t, gs)
  PROVE  /\ TableInv(t2, d, free, w) /\ (Dormant(t, w) => Dormant(t2, w))
         /\ t2.inUse = t.inUse \ gs /\ t2.updating = t.updating \ gs
         /\ \A g \in t2.inUse : t2.info[g] = t.info[g]
<1>1. t \in GhostArray /\ InfoInv(t) /\ t.updating \subseteq t.inUse
  BY DEF TableInv
<1>2. t.info \in [Ghost -> GhostInfo] /\ t.inUse \subseteq Ghost /\ t.updating \subseteq Ghost
  BY <1>1, ArrayFields
<1>3. /\ t2.inUse = t.inUse \ gs /\ t2.updating = t.updating \ gs
      /\ t2.info = [g \in Ghost |-> IF g \in gs THEN Unused ELSE t.info[g]]
      /\ t2 = [info |-> t2.info, updating |-> t2.updating, inUse |-> t2.inUse]
  BY DEF Freed
<1>4. t2.info \in [Ghost -> GhostInfo]
  <2>1. Unused \in GhostInfo
    BY DEF Unused, GhostInfo
  <2>2. \A g \in Ghost : t2.info[g] \in GhostInfo
    BY <1>2, <1>3, <2>1
  <2>. QED
    BY <1>3, <2>2
<1>5. t2 \in GhostArray /\ t2.updating \subseteq t2.inUse
  <2>1. t2.updating \subseteq t2.inUse
    BY <1>1, <1>3
  <2>. QED
    BY <1>2, <1>3, <1>4, <2>1 DEF GhostArray
<1>6. ASSUME NEW g \in t2.inUse
      PROVE  g \in t.inUse /\ t2.info[g] = t.info[g] /\ (g \in t2.updating <=> g \in t.updating)
  BY <1>2, <1>3
<1>7. InfoInv(t2)
  BY <1>1, <1>6 DEF InfoInv, InSegment
<1>8. GhostsInv(t2, w)
  <2>1. \A g \in Ghost \ t2.inUse : Absent(w, g)
    BY <1>3 DEF TableInv, GhostsInv
  <2>. QED
    BY <1>6, <2>1 DEF TableInv, GhostsInv
<1>9. StatesInv(t2, d, free, w)
  BY <1>6 DEF TableInv, StatesInv, ToBeSent
<1>10. Dormant(t, w) => Dormant(t2, w)
  BY <1>6 DEF Dormant
<1>. QED
  BY <1>3, <1>5, <1>6, <1>7, <1>8, <1>9, <1>10 DEF TableInv

\* A step in which each GhostInfo keeps its object and the flags that say
\* something of the ghost.
ScopeFlag == {"InScope", "ScopeLocalAlways"}

SameFlags(flags, flags2) == \A f \in Flag \ ScopeFlag : f \in flags2 <=> f \in flags

(* A change of flags of the scope only is a TableStep.                     *)
LEMMA FieldsStep ==
  ASSUME NEW t, NEW d, NEW free, NEW w, TableInv(t, d, free, w),
         NEW t2 \in GhostArray, NEW d2, NEW free2,
         t2.inUse = t.inUse, t2.updating \subseteq t2.inUse,
         \A g \in t.inUse :
           /\ t2.info[g].obj = t.info[g].obj
           /\ SameFlags(t.info[g].flags, t2.info[g].flags)
           /\ InSegment(t2, g)
           /\ t.info[g].obj # NoObject => \A bit \in Bit :
                ToBeSent(t, d, free, g, t.info[g].obj, bit)
                  => ToBeSent(t2, d2, free2, g, t.info[g].obj, bit)
  PROVE  TableStep(t, d, free, t2, d2, free2)
<1>1. ASSUME NEW g \in t.inUse, NEW f \in Flag \ ScopeFlag
      PROVE  f \in t2.info[g].flags <=> f \in t.info[g].flags
  BY DEF SameFlags
<1>2. ASSUME NEW g \in t.inUse
      PROVE  /\ "NotYetGhosted" \in t2.info[g].flags <=> "NotYetGhosted" \in t.info[g].flags
             /\ "Ghosting" \in t2.info[g].flags <=> "Ghosting" \in t.info[g].flags
             /\ "KillGhost" \in t2.info[g].flags <=> "KillGhost" \in t.info[g].flags
             /\ "KillingGhost" \in t2.info[g].flags <=> "KillingGhost" \in t.info[g].flags
  <2>1. {"NotYetGhosted", "Ghosting", "KillGhost", "KillingGhost"} \subseteq Flag \ ScopeFlag
    BY DEF Flag, ScopeFlag
  <2>. QED
    BY <1>1, <2>1
<1>3. InfoInv(t2)
  <2>1. InfoInv(t)
    BY DEF TableInv
  <2>. QED
    BY <1>2, <2>1 DEF InfoInv
<1>4. Tweak(t, d, free, t2, d2, free2)
  BY <1>2 DEF Tweak, InFlightFlag
<1>. QED
  BY <1>3, <1>4 DEF TableStep

\* What Flagged does to each GhostInfo.
FlaggedTo(t, gs, bits, t2) ==
  /\ t2 \in GhostArray /\ t2.inUse = t.inUse /\ t2.updating \subseteq t2.inUse
  /\ t2.updating = t.updating \union {g \in gs : t.info[g].updateMask = {} /\ bits[g] # {}}
  /\ \A g \in Ghost :
       /\ t2.info[g].obj = t.info[g].obj /\ t2.info[g].flags = t.info[g].flags
       /\ g \in gs => t2.info[g].updateMask = t.info[g].updateMask \union bits[g]
       /\ g \notin gs => t2.info[g].updateMask = t.info[g].updateMask

(* What Flagged does, field by field.                                      *)
LEMMA FlaggedFields ==
  ASSUME NEW t \in GhostArray, t.updating \subseteq t.inUse, NEW gs \in SUBSET t.inUse,
         NEW bits \in [gs -> SUBSET Bit], NEW t2, t2 = Flagged(t, gs, bits)
  PROVE  FlaggedTo(t, gs, bits, t2)
<1>1. t.info \in [Ghost -> GhostInfo] /\ t.inUse \subseteq Ghost /\ t.updating \subseteq Ghost
  BY ArrayFields
<1>2. /\ t2.inUse = t.inUse
      /\ t2.updating = t.updating \union {g \in gs : t.info[g].updateMask = {} /\ bits[g] # {}}
      /\ t2.info = [g \in Ghost |->
           IF g \in gs THEN [t.info[g] EXCEPT !.updateMask = @ \union bits[g]] ELSE t.info[g]]
      /\ t2 = [info |-> t2.info, updating |-> t2.updating, inUse |-> t2.inUse]
  BY DEF Flagged
<1>3. ASSUME NEW g \in Ghost
      PROVE  /\ t2.info[g].obj = t.info[g].obj /\ t2.info[g].flags = t.info[g].flags
             /\ g \in gs => t2.info[g].updateMask = t.info[g].updateMask \union bits[g]
             /\ g \notin gs => t2.info[g].updateMask = t.info[g].updateMask
             /\ t2.info[g] \in GhostInfo
  <2>1. t.info[g] \in GhostInfo
    BY <1>1
  <2>2. CASE g \in gs
    <3>1. t2.info[g] = [t.info[g] EXCEPT !.updateMask = @ \union bits[g]]
      BY <1>2, <2>2
    <3>2. bits[g] \subseteq Bit
      BY <2>2
    <3>. QED
      BY <2>1, <2>2, <3>1, <3>2 DEF GhostInfo
  <2>3. CASE g \notin gs
    BY <1>2, <2>1, <2>3
  <2>. QED
    BY <2>2, <2>3
<1>4. t2.info \in [Ghost -> GhostInfo]
  BY <1>2, <1>3
<1>5. t2 \in GhostArray /\ t2.updating \subseteq t2.inUse
  <2>1. t2.updating \subseteq t2.inUse
    BY <1>2
  <2>. QED
    BY <1>1, <1>2, <1>4, <2>1 DEF GhostArray
<1>. QED
  BY <1>2, <1>3, <1>5 DEF FlaggedTo

(* collapseDirtyList: no state of an object gets lost on its way from the  *)
(* dirty list to the masks.                                                *)
LEMMA CollapsedStep ==
  ASSUME NEW free, NEW w, TableInv(mGhostArray, mDirtyMaskBits, free, w),
         mDirtyMaskBits \in [Object -> SUBSET Bit], NEW d2
  PROVE  TableStep(mGhostArray, mDirtyMaskBits, free, Collapsed(mGhostArray), d2, free)
<1>. DEFINE t == mGhostArray
            gs == {g \in t.inUse : t.info[g].obj # NoObject}
            bits == [g \in gs |-> mDirtyMaskBits[t.info[g].obj]]
            t2 == Flagged(t, gs, bits)
<1>1. t2 = Collapsed(mGhostArray)
  BY DEF Collapsed
<1>2. t \in GhostArray /\ t.updating \subseteq t.inUse /\ InfoInv(t)
  BY DEF TableInv
<1>3. gs \in SUBSET t.inUse
  OBVIOUS
<1>4. bits \in [gs -> SUBSET Bit]
  <2>1. \A g \in gs : t.info[g].obj \in Object
    <3>1. t.info \in [Ghost -> GhostInfo] /\ t.inUse \subseteq Ghost
      BY <1>2, ArrayFields
    <3>. QED
      BY <3>1 DEF GhostInfo
  <2>. QED
    BY <2>1
<1>5. \A g \in gs : bits[g] = mDirtyMaskBits[t.info[g].obj]
  OBVIOUS
<1>6. t.inUse \subseteq Ghost
  BY <1>2, ArrayFields
<1>. HIDE DEF bits, t2
<1>7. /\ t2 \in GhostArray /\ t2.inUse = t.inUse /\ t2.updating \subseteq t2.inUse
      /\ t2.updating = t.updating \union {g \in gs : t.info[g].updateMask = {} /\ bits[g] # {}}
      /\ \A g \in Ghost :
           /\ t2.info[g].obj = t.info[g].obj /\ t2.info[g].flags = t.info[g].flags
           /\ g \in gs => t2.info[g].updateMask = t.info[g].updateMask \union bits[g]
           /\ g \notin gs => t2.info[g].updateMask = t.info[g].updateMask
  <2>. HIDE DEF gs
  <2>1. t2 = Flagged(t, gs, bits)
    BY DEF t2
  <2>2. FlaggedTo(t, gs, bits, t2)
    <3>. HIDE DEF t
    <3>. QED
      BY <1>2, <1>3, <1>4, <2>1, FlaggedFields
  <2>. QED
    BY <2>2 DEF FlaggedTo
<1>8. ASSUME NEW g \in t.inUse
      PROVE  /\ t2.info[g].obj = t.info[g].obj
             /\ SameFlags(t.info[g].flags, t2.info[g].flags)
             /\ InSegment(t2, g)
             /\ t.info[g].obj # NoObject => \A bit \in Bit :
                  ToBeSent(t, mDirtyMaskBits, free, g, t.info[g].obj, bit)
                    => ToBeSent(t2, d2, free, g, t.info[g].obj, bit)
  <2>1. InSegment(t, g)
    BY <1>2 DEF InfoInv
  <2>2. g \in Ghost
    BY <1>6
  <2>3. t2.info[g].obj = t.info[g].obj /\ SameFlags(t.info[g].flags, t2.info[g].flags)
    BY <1>7, <2>2 DEF SameFlags
  <2>4. InSegment(t2, g)
    BY <1>7, <2>1, <2>2 DEF InSegment
  <2>5. ASSUME t.info[g].obj # NoObject, NEW bit \in Bit,
               ToBeSent(t, mDirtyMaskBits, free, g, t.info[g].obj, bit)
        PROVE  ToBeSent(t2, d2, free, g, t.info[g].obj, bit)
    <3>1. g \in gs
      BY <2>5
    <3>2. t2.info[g].updateMask = t.info[g].updateMask \union mDirtyMaskBits[t.info[g].obj]
      BY <1>5, <1>7, <2>2, <3>1
    <3>. QED
      BY <2>5, <3>2 DEF ToBeSent
  <2>. QED
    BY <2>3, <2>4, <2>5
<1>9. TableStep(t, mDirtyMaskBits, free, t2, d2, free)
  <2>1. TableInv(t, mDirtyMaskBits, free, w)
    OBVIOUS
  <2>. HIDE DEF t
  <2>. QED
    BY <1>7, <1>8, <2>1, FieldsStep
<1>. QED
  BY <1>1, <1>9

(* clearMaskBits: what has been cleared need not be sent. With one bit at  *)
(* a time a GhostInfo whose mask becomes zero is moved.                    *)
LEMMA MaskClearedStep ==
  ASSUME NEW t, NEW d \in [Object -> SUBSET Bit], NEW free, NEW w, TableInv(t, d, free, w),
         NEW o \in Object, NEW bits \in SUBSET Bit, NEW t2,
         "clearMany" \notin Calls => \E bit \in Bit : bits = {bit},
         t2 = [info |-> [g \in Ghost |->
                 IF g \in GhostsOf(t, o) THEN [t.info[g] EXCEPT !.updateMask = @ \ bits]
                                         ELSE t.info[g]],
               updating |-> t.updating \ {g \in GhostsOf(t, o) : t.info[g].updateMask = bits},
               inUse |-> t.inUse]
  PROVE  TableStep(t, d, free, t2, [d EXCEPT ![o] = @ \ bits], free \union ({o} \X bits))
<1>. DEFINE d2 == [d EXCEPT ![o] = @ \ bits]
            free2 == free \union ({o} \X bits)
            gs == GhostsOf(t, o)
<1>1. t \in GhostArray /\ InfoInv(t) /\ t.updating \subseteq t.inUse
  BY DEF TableInv
<1>2. t.info \in [Ghost -> GhostInfo] /\ t.inUse \subseteq Ghost /\ t.updating \subseteq Ghost
  BY <1>1, ArrayFields
<1>3. /\ t2.inUse = t.inUse
      /\ t2.updating = t.updating \ {g \in gs : t.info[g].updateMask = bits}
      /\ t2.info = [g \in Ghost |->
           IF g \in gs THEN [t.info[g] EXCEPT !.updateMask = @ \ bits] ELSE t.info[g]]
      /\ t2 = [info |-> t2.info, updating |-> t2.updating, inUse |-> t2.inUse]
  OBVIOUS
<1>4. \A g \in t.inUse : g \in gs <=> t.info[g].obj = o
  BY DEF GhostsOf
<1>5. ASSUME NEW g \in Ghost
      PROVE  /\ t2.info[g].obj = t.info[g].obj /\ t2.info[g].flags = t.info[g].flags
             /\ g \in gs => t2.info[g].updateMask = t.info[g].updateMask \ bits
             /\ g \notin gs => t2.info[g].updateMask = t.info[g].updateMask
             /\ t2.info[g] \in GhostInfo
  <2>. HIDE DEF gs
  <2>1. t.info[g] \in GhostInfo
    BY <1>2
  <2>2. CASE g \in gs
    <3>1. t2.info[g] = [t.info[g] EXCEPT !.updateMask = @ \ bits]
      BY <1>3, <2>2
    <3>. QED
      BY <2>1, <2>2, <3>1 DEF GhostInfo
  <2>3. CASE g \notin gs
    BY <1>3, <2>1, <2>3
  <2>. QED
    BY <2>2, <2>3
<1>6. t2 \in GhostArray /\ t2.updating \subseteq t2.inUse
  <2>1. t2.info \in [Ghost -> GhostInfo]
    BY <1>3, <1>5
  <2>2. t2.updating \subseteq t2.inUse
    BY <1>1, <1>3
  <2>. QED
    BY <1>2, <1>3, <2>1, <2>2 DEF GhostArray
<1>7. ASSUME NEW g \in t.inUse
      PROVE  /\ t2.info[g].obj = t.info[g].obj
             /\ SameFlags(t.info[g].flags, t2.info[g].flags)
             /\ InSegment(t2, g)
             /\ t.info[g].obj # NoObject => \A bit \in Bit :
                  ToBeSent(t, d, free, g, t.info[g].obj, bit)
                    => ToBeSent(t2, d2, free2, g, t.info[g].obj, bit)
  <2>1. InSegment(t, g) /\ g \in Ghost
    BY <1>1, <1>2 DEF InfoInv
  <2>2. t2.info[g].obj = t.info[g].obj /\ SameFlags(t.info[g].flags, t2.info[g].flags)
    BY <1>5, <2>1 DEF SameFlags
  <2>3. InSegment(t2, g)
    <3>. HIDE DEF gs
    <3>1. CASE g \notin gs
      <4>1. t2.info[g].updateMask = t.info[g].updateMask /\ (g \in t2.updating <=> g \in t.updating)
        BY <1>3, <1>5, <2>1, <3>1
      <4>. QED
        BY <2>1, <4>1 DEF InSegment
    <3>2. CASE g \in gs
      <4>1. t2.info[g].updateMask = t.info[g].updateMask \ bits
        BY <1>5, <2>1, <3>2
      <4>2. g \in t2.updating <=> g \in t.updating /\ t.info[g].updateMask # bits
        BY <1>3, <3>2
      <4>3. t2.info[g].updateMask # {} => g \in t2.updating
        BY <2>1, <4>1, <4>2 DEF InSegment
      <4>4. ASSUME "clearMany" \notin Calls, g \in t2.updating
            PROVE  t2.info[g].updateMask # {}
        <5>1. PICK bit \in Bit : bits = {bit}
          BY <4>4
        <5>2. t.info[g].updateMask # {} /\ t.info[g].updateMask # {bit}
          BY <2>1, <4>2, <4>4, <5>1 DEF InSegment
        <5>. QED
          BY <4>1, <5>1, <5>2
      <4>. QED
        BY <4>3, <4>4 DEF InSegment
    <3>. QED
      BY <3>1, <3>2
  <2>4. ASSUME t.info[g].obj # NoObject, NEW bit \in Bit,
               ToBeSent(t, d, free, g, t.info[g].obj, bit)
        PROVE  ToBeSent(t2, d2, free2, g, t.info[g].obj, bit)
    <3>1. t.info[g].obj \in Object
      BY <1>2, <2>1, <2>4 DEF GhostInfo
    <3>2. CASE t.info[g].obj = o /\ bit \in bits
      <4>1. <<o, bit>> \in free2
        BY <3>2
      <4>. QED
        BY <3>2, <4>1 DEF ToBeSent
    <3>3. CASE ~(t.info[g].obj = o /\ bit \in bits)
      <4>1. bit \in t.info[g].updateMask => bit \in t2.info[g].updateMask
        BY <1>4, <1>5, <2>1, <3>3
      <4>2. bit \in d[t.info[g].obj] => bit \in d2[t.info[g].obj]
        BY <3>1, <3>3
      <4>3. <<t.info[g].obj, bit>> \in free => <<t.info[g].obj, bit>> \in free2
        OBVIOUS
      <4>. HIDE DEF d2, free2
      <4>. QED
        BY <2>4, <4>1, <4>2, <4>3 DEF ToBeSent
    <3>. QED
      BY <3>2, <3>3
  <2>. QED
    BY <2>2, <2>3, <2>4
<1>8. TableStep(t, d, free, t2, d2, free2)
  <2>. HIDE DEF d2, free2
  <2>. QED
    BY <1>3, <1>6, <1>7, FieldsStep
<1>. QED
  BY <1>8

(* A call that only changes flags of the scope is a TableStep.             *)
LEMMA ScopeFlagsStep ==
  ASSUME NEW t, NEW d, NEW free, NEW w, TableInv(t, d, free, w),
         NEW f \in [Ghost -> GhostInfo], NEW t2, t2 = [t EXCEPT !.info = f],
         \A g \in Ghost :
           /\ f[g].obj = t.info[g].obj /\ f[g].updateMask = t.info[g].updateMask
           /\ SameFlags(t.info[g].flags, f[g].flags)
  PROVE  TableStep(t, d, free, t2, d, free)
<1>1. t \in GhostArray /\ InfoInv(t) /\ t.updating \subseteq t.inUse
  BY DEF TableInv
<1>2. t.info \in [Ghost -> GhostInfo] /\ t.inUse \subseteq Ghost /\ t.updating \subseteq Ghost
  BY <1>1, ArrayFields
<1>3. t2.info = f /\ t2.updating = t.updating /\ t2.inUse = t.inUse /\ t2 \in GhostArray
  BY <1>1 DEF GhostArray
<1>4. ASSUME NEW g \in t.inUse
      PROVE  /\ t2.info[g].obj = t.info[g].obj
             /\ SameFlags(t.info[g].flags, t2.info[g].flags)
             /\ InSegment(t2, g)
             /\ t.info[g].obj # NoObject => \A bit \in Bit :
                  ToBeSent(t, d, free, g, t.info[g].obj, bit)
                    => ToBeSent(t2, d, free, g, t.info[g].obj, bit)
  <2>1. InSegment(t, g) /\ g \in Ghost
    BY <1>1, <1>2 DEF InfoInv
  <2>2. t2.info[g].updateMask = t.info[g].updateMask
    BY <1>3, <2>1
  <2>. QED
    BY <1>3, <2>1, <2>2 DEF ToBeSent, InSegment
<1>. QED
  BY <1>1, <1>3, <1>4, FieldsStep

(* objectInScope for a set of objects: the GhostInfos that it takes are    *)
(* new, with all states to be sent.                                        *)
LEMMA ScopedStep ==
  ASSUME NEW t, NEW d, NEW free, NEW w, TableInv(t, d, free, w),
         NEW objs \in SUBSET Object, NEW t2 \in Scoped(t, objs)
  PROVE  TableStep(t, d, free, t2, d, free)
<1>1. t \in GhostArray /\ InfoInv(t) /\ t.updating \subseteq t.inUse
  BY DEF TableInv
<1>2. t.info \in [Ghost -> GhostInfo] /\ t.inUse \subseteq Ghost /\ t.updating \subseteq Ghost
  BY <1>1, ArrayFields
<1>3. PICK taken \in UNION {[gs -> {o \in objs : GhostsOf(t, o) = {}}] :
                              gs \in SUBSET (Ghost \ t.inUse)} :
        t2 = [info |-> [g \in Ghost |->
                IF g \in DOMAIN taken
                  THEN [obj |-> taken[g], updateMask |-> Bit,
                        flags |-> {"NotYetGhosted", "InScope"}]
                ELSE IF t.info[g].obj \in objs
                  THEN [t.info[g] EXCEPT !.flags = @ \union {"InScope"}]
                  ELSE t.info[g]],
              updating |-> t.updating \union DOMAIN taken,
              inUse |-> t.inUse \union DOMAIN taken]
  BY DEF Scoped
<1>4. DOMAIN taken \subseteq Ghost \ t.inUse /\ \A g \in DOMAIN taken : taken[g] \in Object
  OBVIOUS
<1>5. /\ t2.inUse = t.inUse \union DOMAIN taken
      /\ t2.updating = t.updating \union DOMAIN taken
      /\ t2.info = [g \in Ghost |->
                IF g \in DOMAIN taken
                  THEN [obj |-> taken[g], updateMask |-> Bit,
                        flags |-> {"NotYetGhosted", "InScope"}]
                ELSE IF t.info[g].obj \in objs
                  THEN [t.info[g] EXCEPT !.flags = @ \union {"InScope"}]
                  ELSE t.info[g]]
      /\ t2 = [info |-> t2.info, updating |-> t2.updating, inUse |-> t2.inUse]
  BY <1>3
<1>6. ASSUME NEW g \in DOMAIN taken
      PROVE  /\ g \in Ghost /\ g \notin t.inUse /\ taken[g] \in Object
             /\ t2.info[g].obj = taken[g] /\ t2.info[g].updateMask = Bit
             /\ t2.info[g].flags = {"NotYetGhosted", "InScope"}
             /\ t2.info[g] \in GhostInfo
  <2>1. g \in Ghost /\ g \notin t.inUse /\ taken[g] \in Object
    BY <1>4
  <2>2. t2.info[g] = [obj |-> taken[g], updateMask |-> Bit,
                      flags |-> {"NotYetGhosted", "InScope"}]
    BY <1>5, <2>1
  <2>. QED
    BY <2>1, <2>2 DEF GhostInfo, Flag
<1>7. ASSUME NEW g \in Ghost, g \notin DOMAIN taken
      PROVE  /\ t2.info[g].obj = t.info[g].obj
             /\ t2.info[g].updateMask = t.info[g].updateMask
             /\ SameFlags(t.info[g].flags, t2.info[g].flags)
             /\ t2.info[g] \in GhostInfo
  <2>1. t.info[g] \in GhostInfo
    BY <1>2
  <2>2. CASE t.info[g].obj \in objs
    <3>1. t2.info[g] = [t.info[g] EXCEPT !.flags = @ \union {"InScope"}]
      BY <1>5, <1>7, <2>2
    <3>. QED
      BY <2>1, <3>1 DEF GhostInfo, Flag, SameFlags, ScopeFlag
  <2>3. CASE t.info[g].obj \notin objs
    <3>1. t2.info[g] = t.info[g]
      BY <1>5, <1>7, <2>3
    <3>. QED
      BY <2>1, <3>1 DEF SameFlags
  <2>. QED
    BY <2>2, <2>3
<1>8. t2 \in GhostArray /\ t2.updating \subseteq t2.inUse
  <2>1. \A g \in Ghost : t2.info[g] \in GhostInfo
    BY <1>6, <1>7
  <2>2. t2.info \in [Ghost -> GhostInfo]
    BY <1>5, <2>1
  <2>3. t2.updating \subseteq t2.inUse /\ t2.inUse \subseteq Ghost /\ t2.updating \subseteq Ghost
    BY <1>1, <1>2, <1>4, <1>5
  <2>. QED
    BY <1>5, <2>2, <2>3 DEF GhostArray
<1>9. \A g \in t.inUse : g \in Ghost /\ g \notin DOMAIN taken
  BY <1>2, <1>4
<1>10. ASSUME NEW g \in t.inUse
       PROVE  \A f \in Flag \ ScopeFlag : f \in t2.info[g].flags <=> f \in t.info[g].flags
  BY <1>7, <1>9 DEF SameFlags
<1>11. {"NotYetGhosted", "Ghosting", "KillGhost", "KillingGhost"} \subseteq Flag \ ScopeFlag
  BY DEF Flag, ScopeFlag
<1>12. InfoInv(t2)
  <2>1. ASSUME NEW g \in t.inUse
        PROVE  /\ t2.info[g].obj = t.info[g].obj
               /\ t2.info[g].updateMask = t.info[g].updateMask
               /\ g \in t2.updating <=> g \in t.updating
               /\ "NotYetGhosted" \in t2.info[g].flags <=> "NotYetGhosted" \in t.info[g].flags
               /\ "Ghosting" \in t2.info[g].flags <=> "Ghosting" \in t.info[g].flags
               /\ "KillGhost" \in t2.info[g].flags <=> "KillGhost" \in t.info[g].flags
               /\ "KillingGhost" \in t2.info[g].flags <=> "KillingGhost" \in t.info[g].flags
    <3>1. g \in t2.updating <=> g \in t.updating
      BY <1>5, <1>9
    <3>. QED
      BY <1>7, <1>9, <1>10, <1>11, <3>1
  <2>2. ASSUME NEW g \in DOMAIN taken
        PROVE  /\ g \in t2.updating /\ t2.info[g].updateMask # {}
               /\ t2.info[g].obj # NoObject
               /\ "KillGhost" \notin t2.info[g].flags /\ "KillingGhost" \notin t2.info[g].flags
               /\ "Ghosting" \notin t2.info[g].flags
    <3>1. g \in t2.updating
      BY <1>5
    <3>. QED
      BY <1>6, <3>1, GhostConstants
  <2>. SUFFICES ASSUME NEW g \in t2.inUse
                PROVE  /\ InSegment(t2, g)
                       /\ t2.info[g].obj = NoObject <=>
                            "KillGhost" \in t2.info[g].flags \/ "KillingGhost" \in t2.info[g].flags
                       /\ ~({"NotYetGhosted", "Ghosting"} \subseteq t2.info[g].flags)
                       /\ ~({"NotYetGhosted", "KillingGhost"} \subseteq t2.info[g].flags)
                       /\ ~({"Ghosting", "KillingGhost"} \subseteq t2.info[g].flags)
    BY DEF InfoInv
  <2>3. CASE g \in t.inUse
    <3>1. /\ InSegment(t, g)
          /\ t.info[g].obj = NoObject <=>
               "KillGhost" \in t.info[g].flags \/ "KillingGhost" \in t.info[g].flags
          /\ ~({"NotYetGhosted", "Ghosting"} \subseteq t.info[g].flags)
          /\ ~({"NotYetGhosted", "KillingGhost"} \subseteq t.info[g].flags)
          /\ ~({"Ghosting", "KillingGhost"} \subseteq t.info[g].flags)
      BY <1>1, <2>3 DEF InfoInv
    <3>. QED
      BY <2>1, <2>3, <3>1 DEF InSegment
  <2>4. CASE g \notin t.inUse
    <3>1. g \in DOMAIN taken
      BY <1>5, <2>4
    <3>. QED
      BY <2>2, <3>1 DEF InSegment
  <2>. QED
    BY <2>3, <2>4
<1>13. Tweak(t, d, free, t2, d, free)
  <2>1. ASSUME NEW g \in t.inUse
        PROVE  /\ t2.info[g].obj = t.info[g].obj
               /\ t2.info[g].updateMask = t.info[g].updateMask
               /\ \A f \in InFlightFlag : f \in t2.info[g].flags <=> f \in t.info[g].flags
    BY <1>7, <1>9, <1>10, <1>11 DEF InFlightFlag
  <2>2. ASSUME NEW g \in t2.inUse, g \notin t.inUse
        PROVE  /\ t2.info[g].updateMask = Bit /\ "NotYetGhosted" \in t2.info[g].flags
               /\ "Ghosting" \notin t2.info[g].flags /\ "KillingGhost" \notin t2.info[g].flags
    <3>1. g \in DOMAIN taken
      BY <1>5, <2>2
    <3>. QED
      BY <1>6, <3>1
  <2>3. t.inUse \subseteq t2.inUse
    BY <1>5
  <2>. QED
    BY <2>1, <2>2, <2>3 DEF Tweak, ToBeSent
<1>. QED
  BY <1>8, <1>12, <1>13 DEF TableStep

(* prepareWritePacket keeps the array right, whatever the scope query      *)
(* finds.                                                                  *)
LEMMA PreparedKeeps ==
  ASSUME NEW t, NEW d, NEW free, NEW w, TableInv(t, d, free, w), scope \subseteq Object,
         NEW t2 \in Prepared(t)
  PROVE  TableInv(t2, d, free, w) /\ (Dormant(t, w) => Dormant(t2, w))
<1>. DEFINE f == [g \in Ghost |->
                   IF g \in t.updating /\ "ScopeLocalAlways" \notin t.info[g].flags
                     THEN [t.info[g] EXCEPT !.flags = @ \ {"InScope"}]
                     ELSE t.info[g]]
            t0 == [t EXCEPT !.info = f]
<1>1. t.info \in [Ghost -> GhostInfo]
  BY ArrayFields DEF TableInv
<1>2. ASSUME NEW g \in Ghost
      PROVE  /\ f[g].obj = t.info[g].obj /\ f[g].updateMask = t.info[g].updateMask
             /\ SameFlags(t.info[g].flags, f[g].flags)
             /\ f[g] \in GhostInfo
  <2>1. t.info[g] \in GhostInfo
    BY <1>1
  <2>2. CASE g \in t.updating /\ "ScopeLocalAlways" \notin t.info[g].flags
    <3>1. f[g] = [t.info[g] EXCEPT !.flags = @ \ {"InScope"}]
      BY <2>2
    <3>. HIDE DEF f
    <3>. QED
      BY <2>1, <3>1 DEF GhostInfo, SameFlags, ScopeFlag
  <2>3. CASE ~(g \in t.updating /\ "ScopeLocalAlways" \notin t.info[g].flags)
    <3>1. f[g] = t.info[g]
      BY <2>3
    <3>. HIDE DEF f
    <3>. QED
      BY <2>1, <3>1 DEF SameFlags
  <2>. QED
    BY <2>2, <2>3
<1>3. f \in [Ghost -> GhostInfo]
  BY <1>2
<1>4. TableStep(t, d, free, t0, d, free)
  <2>. HIDE DEF f
  <2>. QED
    BY <1>2, <1>3, ScopeFlagsStep
<1>5. TableInv(t0, d, free, w) /\ (Dormant(t, w) => Dormant(t0, w))
  <2>. HIDE DEF t0
  <2>. QED
    BY <1>4, StepTaken
<1>6. t2 \in IF mScopeObject /\ mScoping THEN Scoped(t0, scope) ELSE {t0}
  BY DEF Prepared
<1>. HIDE DEF t0
<1>7. CASE t2 = t0
  BY <1>5, <1>7
<1>8. CASE t2 \in Scoped(t0, scope)
  <2>1. TableStep(t0, d, free, t2, d, free)
    BY <1>5, <1>8, ScopedStep
  <2>. QED
    BY <1>5, <2>1, StepTaken
<1>. QED
  BY <1>6, <1>7, <1>8

(* writePacket detaches what is out of scope, and frees what was never     *)
(* ghosted.                                                                *)
LEMMA CleanedKeeps ==
  ASSUME NEW t, NEW d, NEW free, NEW w, TableInv(t, d, free, w)
  PROVE  /\ TableInv(Cleaned(t), d, free, w)
         /\ \A g \in Cleaned(t).updating :
              ~({"KillGhost", "NotYetGhosted"} \subseteq Cleaned(t).info[g].flags)
<1>. DEFINE t1 == Detached(t, OutOfScope(t))
            t2 == Freed(t1, NeverGhosted(t1))
<1>1. t2 = Cleaned(t)
  BY DEF Cleaned
<1>2. t.updating \subseteq t.inUse
  BY DEF TableInv
<1>3. OutOfScope(t) \in SUBSET t.inUse
  BY <1>2 DEF OutOfScope
<1>4. TableStep(t, d, free, t1, d, free)
  BY <1>3, DetachedStep
<1>. HIDE DEF t1
<1>5. TableInv(t1, d, free, w)
  BY <1>4, StepTaken
<1>6. t1.updating \subseteq t1.inUse /\ GhostsInv(t1, w)
  BY <1>5 DEF TableInv
<1>7. NeverGhosted(t1) \in SUBSET t1.inUse
  BY <1>6 DEF NeverGhosted
<1>8. \A g \in NeverGhosted(t1) : Absent(w, g)
  BY <1>6 DEF NeverGhosted, GhostsInv
<1>. HIDE DEF t2
<1>9. /\ TableInv(t2, d, free, w)
      /\ t2.inUse = t1.inUse \ NeverGhosted(t1) /\ t2.updating = t1.updating \ NeverGhosted(t1)
      /\ \A g \in t2.inUse : t2.info[g] = t1.info[g]
  BY <1>5, <1>7, <1>8, FreedKeeps DEF t2
<1>10. \A g \in t2.updating : ~({"KillGhost", "NotYetGhosted"} \subseteq t2.info[g].flags)
  <2>1. \A g \in t2.updating : g \in t2.inUse
    BY <1>6, <1>9
  <2>. QED
    BY <1>9, <2>1 DEF NeverGhosted
<1>. QED
  BY <1>1, <1>9, <1>10

-----------------------------------------------------------------------------
(* A packet is written: its note comes to be the last, the k-th.           *)
SentTo(w, note, k, w2) ==
  /\ Pos(w2) = Pos(w) \union {k} /\ k \notin Pos(w)
  /\ \A i \in Pos(w) : w2.notes[i] = w.notes[i] /\ i < k /\ i <= k /\ ~(k < i) /\ ~(k <= i)
  /\ ~(k < k) /\ k <= k
  /\ w2.notes[k] = note
  /\ w2.ghosts = w.ghosts /\ w2.arr = w.arr /\ w2.rd = w.rd \union {k}
  /\ w2.ends = w.ends /\ w2.waiting = w.waiting

(* The list of a note has what its packet carries, unless it has been      *)
(* cleared.                                                                *)
LEMMA ListIsUpdates ==
  ASSUME NEW w, NEW i
  PROVE  /\ List(w, i) \subseteq Updates(w, i)
         /\ w.notes[i].listed => List(w, i) = Updates(w, i)
         /\ Updates(w, i) = {} => List(w, i) = {}
BY DEF List, Updates

(* A packet more leaves the others as they are.                            *)
LEMMA SentLists ==
  ASSUME NEW w, NEW note, NEW k, NEW w2, SentTo(w, note, k, w2), note.listed
  PROVE  /\ \A i \in Pos(w) : Updates(w2, i) = Updates(w, i) /\ List(w2, i) = List(w, i)
         /\ Updates(w2, k) = note.updates /\ List(w2, k) = note.updates
<1>1. \A i \in Pos(w) : Updates(w2, i) = Updates(w, i) /\ List(w2, i) = List(w, i)
  BY DEF SentTo, Updates, List
<1>2. Updates(w2, k) = note.updates /\ List(w2, k) = note.updates
  BY DEF SentTo, Updates, List
<1>. QED
  BY <1>1, <1>2

\* What is written for a ghost suits what the initiator will have.
Suits(w, updates) ==
  \A u \in updates :
    /\ \A v \in updates : u.ghost = v.ghost => u = v
    /\ u.ghost \in Ghost
    /\ u.kind # "KillingGhost" => u.obj # NoObject
    /\ u.obj = NoObject => u.current = {}
    /\ u.current \subseteq u.mask
    /\ u.obj # NoObject => u.current = u.mask
    /\ u.kind = "Ghosting" <=> w.ghosts[u.ghost] = NoGhost
    /\ u.kind = "Update" => w.ghosts[u.ghost].of = u.obj
    /\ \A i \in Pos(w) : \A v \in List(w, i) : v.ghost = u.ghost => v.kind = "Update"

(* A packet whose updates suit the ghosts there will be keeps what the     *)
(* packets say of one another.                                             *)
LEMMA SentLink ==
  ASSUME NEW w, NEW note, NEW k, NEW w2, LinkType(w), LinkInv(w), SentTo(w, note, k, w2),
         note.listed, note.updates = {} \/ w.ends = {}, Suits(w, note.updates)
  PROVE  LinkInv(w2)
<1>1. \A i \in Pos(w) : Updates(w2, i) = Updates(w, i) /\ List(w2, i) = List(w, i)
  BY SentLists
<1>2. Updates(w2, k) = note.updates /\ List(w2, k) = note.updates
  BY SentLists
<1>3. /\ Pos(w2) = Pos(w) \union {k} /\ k \notin Pos(w)
      /\ w2.ghosts = w.ghosts /\ w2.arr = w.arr /\ w2.rd = w.rd \union {k}
      /\ w2.ends = w.ends /\ w2.waiting = w.waiting
      /\ w2.notes[k] = note
  BY DEF SentTo
<1>4. /\ \A i \in Pos(w) : i < k /\ ~(k < i) /\ ~(k <= i) /\ w2.notes[i] = w.notes[i]
      /\ ~(k < k)
  BY DEF SentTo
<1>5. w.arr \subseteq Pos(w) /\ w.rd \subseteq Pos(w)
  BY DEF LinkType
<1>6. NotesInv(w2)
  BY <1>1, <1>2, <1>3 DEF NotesInv, Suits, LinkInv
<1>7. EndsInv(w2)
  <2>1. ASSUME NEW r \in w2.ends
        PROVE  /\ \A i \in Pos(w2) : r \in w2.notes[i].rpcs =>
                    \A j \in Pos(w2) : i <= j => Updates(w2, j) = {}
               /\ r \in w2.waiting => \A j \in w2.rd : Updates(w2, j) = {}
    <3>1. Updates(w2, k) = {}
      BY <1>2, <1>3
    <3>2. /\ \A i \in Pos(w) : r \in w.notes[i].rpcs =>
               \A j \in Pos(w) : i <= j => Updates(w, j) = {}
          /\ r \in w.waiting => \A j \in w.rd : Updates(w, j) = {}
      BY <1>3 DEF LinkInv, EndsInv
    <3>. QED
      BY <1>1, <1>3, <1>4, <1>5, <3>1, <3>2
  <2>2. ASSUME w2.ends = {}, NEW i \in w2.rd, ~w2.notes[i].listed
        PROVE  Updates(w2, i) = {}
    BY <1>1, <1>3, <1>4, <1>5, <2>2 DEF LinkInv, EndsInv
  <2>. QED
    BY <2>1, <2>2 DEF EndsInv
<1>8. \A i \in w.rd : \A u \in Updates(w, i) : \A v \in note.updates :
        v.ghost = u.ghost => u.kind = "Update"
  <2>1. CASE note.updates = {}
    BY <2>1
  <2>2. CASE w.ends = {}
    <3>1. \A i \in w.rd : List(w, i) = Updates(w, i)
      BY <2>2, ListIsUpdates DEF LinkInv, EndsInv
    <3>. QED
      BY <1>5, <3>1 DEF Suits
  <2>. QED
    BY <2>1, <2>2
<1>9. ReadableInv(w2)
  <2>1. ASSUME NEW i \in w2.rd, NEW u \in Updates(w2, i)
        PROVE  /\ u.kind = "Ghosting" <=> w2.ghosts[u.ghost] = NoGhost
               /\ u.kind = "Update" => w2.ghosts[u.ghost].of = u.obj
               /\ u.kind # "Update" =>
                    \A j \in w2.rd : i < j => \A v \in Updates(w2, j) : v.ghost # u.ghost
    <3>1. CASE i = k
      BY <1>2, <1>3, <1>4, <1>5, <2>1, <3>1 DEF Suits
    <3>2. CASE i \in w.rd
      <4>1. i \in Pos(w) /\ u \in Updates(w, i)
        BY <1>1, <1>5, <2>1, <3>2
      <4>2. /\ u.kind = "Ghosting" <=> w.ghosts[u.ghost] = NoGhost
            /\ u.kind = "Update" => w.ghosts[u.ghost].of = u.obj
            /\ u.kind # "Update" =>
                 \A j \in w.rd : i < j => \A v \in Updates(w, j) : v.ghost # u.ghost
        BY <3>2, <4>1 DEF LinkInv, ReadableInv
      <4>3. ASSUME u.kind # "Update", NEW j \in w2.rd, i < j, NEW v \in Updates(w2, j)
            PROVE  v.ghost # u.ghost
        <5>1. CASE j = k
          BY <1>2, <1>8, <3>2, <4>1, <4>3, <5>1
        <5>2. CASE j \in w.rd
          <6>1. v \in Updates(w, j)
            BY <1>1, <1>5, <4>3, <5>2
          <6>. QED
            BY <4>2, <4>3, <5>2, <6>1
        <5>. QED
          BY <1>3, <5>1, <5>2
      <4>. QED
        BY <1>3, <4>2, <4>3
    <3>. QED
      BY <1>3, <3>1, <3>2
  <2>. QED
    BY <2>1 DEF ReadableInv
<1>10. CurrentInv(w2)
  <2>1. \A g \in Ghost : w2.ghosts[g] = NoGhost \/ w2.ghosts[g].of # NoObject
    BY <1>3 DEF LinkInv, CurrentInv
  <2>2. ASSUME NEW i \in Pos(w), NEW u \in List(w, i), NEW v \in note.updates,
               u.ghost = v.ghost, u.obj = v.obj
        PROVE  u.current \intersect v.mask \subseteq v.current
    <3>1. u \in Updates(w, i)
      BY <2>2, ListIsUpdates
    <3>2. u.obj = NoObject => u.current = {}
      BY <3>1 DEF LinkInv, NotesInv
    <3>3. v.obj # NoObject => v.current = v.mask
      BY DEF Suits
    <3>. QED
      BY <2>2, <3>2, <3>3
  <2>3. ASSUME NEW i \in Pos(w2), NEW u \in List(w2, i), NEW j \in Pos(w2),
               NEW v \in List(w2, j), i < j, u.ghost = v.ghost, u.obj = v.obj
        PROVE  u.current \intersect v.mask \subseteq v.current
    <3>1. CASE j = k
      <4>1. i \in Pos(w)
        BY <1>3, <1>4, <2>3, <3>1
      <4>. QED
        BY <1>1, <1>2, <2>2, <2>3, <3>1, <4>1
    <3>2. CASE j \in Pos(w)
      <4>1. i \in Pos(w)
        BY <1>3, <1>4, <2>3, <3>2
      <4>2. u \in List(w, i) /\ v \in List(w, j)
        BY <1>1, <2>3, <3>2, <4>1
      <4>. QED
        BY <2>3, <3>2, <4>1, <4>2 DEF LinkInv, CurrentInv
    <3>. QED
      BY <1>3, <3>1, <3>2
  <2>4. ASSUME NEW i \in Pos(w2), NEW u \in List(w2, i), w2.ghosts[u.ghost].of = u.obj
        PROVE  /\ i \in w2.arr => u.current \subseteq w2.ghosts[u.ghost].current
               /\ i \in w2.rd => w2.ghosts[u.ghost].current \intersect u.mask \subseteq u.current
    <3>1. CASE i = k
      <4>1. k \notin w2.arr
        BY <1>3, <1>5
      <4>2. u \in note.updates /\ u.ghost \in Ghost
        BY <1>2, <2>4, <3>1 DEF Suits
      <4>3. u.obj # NoObject => u.current = u.mask
        BY <4>2 DEF Suits
      <4>4. u.obj = NoObject => w2.ghosts[u.ghost].current = {}
        BY <2>1, <2>4, <4>2 DEF NoGhost
      <4>. QED
        BY <3>1, <4>1, <4>3, <4>4
    <3>2. CASE i \in Pos(w)
      <4>1. u \in List(w, i) /\ w.ghosts[u.ghost].of = u.obj
        BY <1>1, <1>3, <2>4, <3>2
      <4>2. i \in w2.rd => i \in w.rd
        BY <1>3, <3>2
      <4>. QED
        BY <1>3, <3>2, <4>1, <4>2 DEF LinkInv, CurrentInv
    <3>. QED
      BY <1>3, <3>1, <3>2
  <2>. QED
    BY <2>1, <2>3, <2>4 DEF CurrentInv
<1>. QED
  BY <1>6, <1>7, <1>9, <1>10 DEF LinkInv

(* What the flags say of a ghost still holds with a packet more that says  *)
(* nothing of it.                                                          *)
LEMMA NotMentioned ==
  ASSUME NEW w, NEW note, NEW k, NEW w2, LinkType(w), SentTo(w, note, k, w2), note.listed,
         NEW g, \A u \in note.updates : u.ghost # g
  PROVE  /\ Absent(w, g) => Absent(w2, g)
         /\ \A o : Creating(w, g, o) => Creating(w2, g, o)
         /\ \A o : Present(w, g, o) => Present(w2, g, o)
         /\ Removing(w, g) => Removing(w2, g)
<1>1. \A i \in Pos(w) : List(w2, i) = List(w, i)
  BY SentLists
<1>2. List(w2, k) = note.updates
  BY SentLists
<1>3. /\ Pos(w2) = Pos(w) \union {k} /\ k \notin Pos(w)
      /\ w2.ghosts = w.ghosts /\ w2.arr = w.arr /\ w2.ends = w.ends
  BY DEF SentTo
<1>4. Absent(w, g) => Absent(w2, g)
  BY <1>1, <1>2, <1>3 DEF Absent
<1>5. ASSUME NEW o, Creating(w, g, o) PROVE Creating(w2, g, o)
  <2>0. PICK i \in Pos(w) : \E u \in List(w, i) :
          /\ u.ghost = g /\ u.kind = "Ghosting" /\ (o # NoObject => u.obj = o)
          /\ \A j \in Pos(w) : \A v \in List(w, j) : v.ghost = g => j = i
          /\ i \in w.arr => w.ghosts[g].of = u.obj
          /\ i \notin w.arr => w.ghosts[g] = NoGhost
    BY <1>5 DEF Creating
  <2>1. PICK u \in List(w, i) :
          /\ u.ghost = g /\ u.kind = "Ghosting" /\ (o # NoObject => u.obj = o)
          /\ \A j \in Pos(w) : \A v \in List(w, j) : v.ghost = g => j = i
          /\ i \in w.arr => w.ghosts[g].of = u.obj
          /\ i \notin w.arr => w.ghosts[g] = NoGhost
    BY <2>0
  <2>2. i \in Pos(w2) /\ u \in List(w2, i)
    BY <1>1, <1>3, <2>1
  <2>3. \A j \in Pos(w2) : \A v \in List(w2, j) : v.ghost = g => j = i
    BY <1>1, <1>2, <1>3, <2>1
  <2>. QED
    BY <1>3, <2>1, <2>2, <2>3 DEF Creating
<1>6. ASSUME NEW o, Present(w, g, o) PROVE Present(w2, g, o)
  BY <1>1, <1>2, <1>3, <1>6 DEF Present
<1>7. ASSUME Removing(w, g) PROVE Removing(w2, g)
  <2>0. PICK i \in Pos(w) : \E u \in List(w, i) :
          /\ u.ghost = g /\ u.kind = "KillingGhost"
          /\ \A j \in Pos(w) : \A v \in List(w, j) :
               v.ghost = g => j <= i /\ (j < i => v.kind = "Update")
          /\ i \in w.arr <=> w.ghosts[g] = NoGhost
    BY <1>7 DEF Removing
  <2>1. PICK u \in List(w, i) :
          /\ u.ghost = g /\ u.kind = "KillingGhost"
          /\ \A j \in Pos(w) : \A v \in List(w, j) :
               v.ghost = g => j <= i /\ (j < i => v.kind = "Update")
          /\ i \in w.arr <=> w.ghosts[g] = NoGhost
    BY <2>0
  <2>2. i \in Pos(w2) /\ u \in List(w2, i)
    BY <1>1, <1>3, <2>1
  <2>3. \A j \in Pos(w2) : \A v \in List(w2, j) :
          v.ghost = g => j <= i /\ (j < i => v.kind = "Update")
    BY <1>1, <1>2, <1>3, <2>1
  <2>. QED
    BY <1>3, <2>1, <2>2, <2>3 DEF Removing
<1>. QED
  BY <1>4, <1>5, <1>6, <1>7

(* A state that a packet or the initiator has is not forgotten with a      *)
(* packet more.                                                            *)
LEMMA RememberedStill ==
  ASSUME NEW w, NEW note, NEW k, NEW w2, LinkType(w), SentTo(w, note, k, w2), note.listed,
         NEW g, NEW o, NEW bit, Remembered(w, g, o, bit)
  PROVE  Remembered(w2, g, o, bit)
<1>1. \A i \in Pos(w) : i \in Pos(w2) /\ List(w2, i) = List(w, i)
  <2>1. \A i \in Pos(w) : List(w2, i) = List(w, i)
    BY SentLists
  <2>. QED
    BY <2>1 DEF SentTo
<1>2. w2.ghosts = w.ghosts /\ w2.arr = w.arr
  BY DEF SentTo
<1>. QED
  BY <1>1, <1>2 DEF Remembered

(* A packet without updates changes nothing but the notes.                 *)
LEMMA SentEmpty ==
  ASSUME NEW t, NEW d, NEW free, NEW w, NEW note, NEW k, NEW w2,
         TableInv(t, d, free, w), LinkType(w), SentTo(w, note, k, w2), note.listed,
         note.updates = {}
  PROVE  TableInv(t, d, free, w2) /\ (Dormant(t, w) => Dormant(t, w2))
<1>1. ASSUME NEW g
      PROVE  /\ Absent(w, g) => Absent(w2, g)
             /\ \A o : Creating(w, g, o) => Creating(w2, g, o)
             /\ \A o : Present(w, g, o) => Present(w2, g, o)
             /\ Removing(w, g) => Removing(w2, g)
  BY NotMentioned
<1>2. GhostsInv(t, w2)
  <2>1. GhostsInv(t, w)
    BY DEF TableInv
  <2>2. \A g \in Ghost \ t.inUse : Absent(w2, g)
    BY <1>1, <2>1 DEF GhostsInv
  <2>3. ASSUME NEW g \in t.inUse
        PROVE  /\ "NotYetGhosted" \in t.info[g].flags => Absent(w2, g)
               /\ "Ghosting" \in t.info[g].flags => Creating(w2, g, t.info[g].obj)
               /\ "KillingGhost" \in t.info[g].flags => Removing(w2, g)
               /\ t.info[g].flags \intersect {"NotYetGhosted", "Ghosting", "KillingGhost"} = {} =>
                    Present(w2, g, t.info[g].obj)
    BY <1>1, <2>1 DEF GhostsInv
  <2>. QED
    BY <2>2, <2>3 DEF GhostsInv
<1>3. StatesInv(t, d, free, w2)
  BY RememberedStill DEF TableInv, StatesInv
<1>4. Dormant(t, w) => Dormant(t, w2)
  <2>1. \A i \in Pos(w) : List(w2, i) = List(w, i)
    BY SentLists
  <2>2. List(w2, k) = {}
    BY SentLists
  <2>3. Pos(w2) = Pos(w) \union {k}
    BY DEF SentTo
  <2>. QED
    BY <2>1, <2>2, <2>3 DEF Dormant
<1>. QED
  BY <1>2, <1>3, <1>4 DEF TableInv

\* What is written for one GhostInfo, and what becomes of that.
WrittenAs(info, g, returned, u, info2) ==
  /\ returned \subseteq info.updateMask
  /\ u.ghost = g /\ u.obj = info.obj /\ u.mask = info.updateMask \ returned
  /\ u.current = IF u.obj = NoObject THEN {} ELSE u.mask
  /\ u.kind \in {"Ghosting", "Update", "KillingGhost"}
  /\ u.kind = "KillingGhost" <=> info.obj = NoObject
  /\ u.kind = "Ghosting" <=> "NotYetGhosted" \in info.flags
  /\ info2 \in GhostInfo /\ info2.obj = info.obj /\ info2.updateMask = returned
  /\ "NotYetGhosted" \notin info2.flags
  /\ "Ghosting" \in info2.flags <=> u.kind = "Ghosting"
  /\ "KillingGhost" \in info2.flags <=> u.kind = "KillingGhost"
  /\ "KillGhost" \notin info2.flags

(* What an update is made of, and what is left of its GhostInfo:           *)
(* packUpdate for a new ghost or one that is there, or the removal.        *)
LEMMA UpdateFields ==
  ASSUME NEW info \in GhostInfo, NEW g, NEW returned \in MayReturn(info),
         info.obj = NoObject <=> "KillGhost" \in info.flags \/ "KillingGhost" \in info.flags,
         "Ghosting" \notin info.flags, "KillingGhost" \notin info.flags,
         ~({"KillGhost", "NotYetGhosted"} \subseteq info.flags),
         NEW u, u = UpdateOf(info, g, returned), NEW info2, info2 = AfterUpdate(info, returned)
  PROVE  WrittenAs(info, g, returned, u, info2)
<1>1. info.updateMask \subseteq Bit /\ info.flags \subseteq Flag /\ info.obj \in Object \union {NoObject}
  BY InfoFields
<1>2. returned \subseteq info.updateMask
  BY DEF MayReturn
<1>3. /\ Kind(info) \in {"Ghosting", "Update", "KillingGhost"}
      /\ Kind(info) = "KillingGhost" <=> "KillGhost" \in info.flags
      /\ Kind(info) = "Ghosting" <=> "NotYetGhosted" \in info.flags
  BY DEF Kind
<1>4. /\ u.ghost = g /\ u.obj = info.obj /\ u.mask = info.updateMask \ returned
      /\ u.current = (IF u.obj = NoObject THEN {} ELSE u.mask)
      /\ u.kind = Kind(info)
  BY DEF UpdateOf
<1>5. /\ info2 = [info EXCEPT !.updateMask = returned,
            !.flags = IF Kind(info) = "Update" THEN info.flags
                      ELSE (info.flags \ {"KillGhost", "NotYetGhosted"}) \union {Kind(info)}]
  BY DEF AfterUpdate
<1>6. CASE Kind(info) = "Update"
  <2>1. info2 = [info EXCEPT !.updateMask = returned, !.flags = info.flags]
    BY <1>5, <1>6
  <2>2. /\ info2 \in GhostInfo /\ info2.obj = info.obj /\ info2.updateMask = returned
        /\ info2.flags = info.flags
    BY <1>1, <1>2, <2>1 DEF GhostInfo
  <2>. QED
    BY <1>2, <1>3, <1>4, <1>6, <2>2 DEF WrittenAs
<1>7. CASE Kind(info) # "Update"
  <2>. DEFINE flags == (info.flags \ {"KillGhost", "NotYetGhosted"}) \union {Kind(info)}
  <2>1. info2 = [info EXCEPT !.updateMask = returned, !.flags = flags]
    BY <1>5, <1>7
  <2>2. flags \subseteq Flag
    BY <1>1, <1>3, <1>7 DEF Flag
  <2>. HIDE DEF flags
  <2>3. /\ info2 \in GhostInfo /\ info2.obj = info.obj /\ info2.updateMask = returned
        /\ info2.flags = flags
    BY <1>1, <1>2, <2>1, <2>2 DEF GhostInfo
  <2>. QED
    BY <1>2, <1>3, <1>4, <1>7, <2>3 DEF flags, WrittenAs
<1>. QED
  BY <1>6, <1>7

(* writePacket keeps the invariant, whatever updates it has room for, in   *)
(* whatever order of priority: the states it takes off the masks are in    *)
(* the packet.                                                             *)
LEMMA WrittenKeeps ==
  ASSUME NEW t, NEW d, NEW free, NEW w, NEW note, NEW k, NEW w2,
         TableInv(t, d, free, w), LinkType(w), LinkInv(w), w.ends = {},
         SentTo(w, note, k, w2), note.listed,
         \A g \in t.updating : ~({"KillGhost", "NotYetGhosted"} \subseteq t.info[g].flags),
         NEW returned, DOMAIN returned \subseteq MayBeWritten(t),
         \A g \in DOMAIN returned : returned[g] \in MayReturn(t.info[g]),
         note.updates = {UpdateOf(t.info[g], g, returned[g]) : g \in DOMAIN returned},
         NEW t2, t2 = Written(t, returned)
  PROVE  TableInv(t2, d, free, w2) /\ Suits(w, note.updates)
<1>. DEFINE D == DOMAIN returned
            upd(g) == UpdateOf(t.info[g], g, returned[g])
<1>1. /\ t \in GhostArray /\ InfoInv(t) /\ t.updating \subseteq t.inUse /\ GhostsInv(t, w)
      /\ StatesInv(t, d, free, w)
  BY DEF TableInv
<1>2. t.info \in [Ghost -> GhostInfo] /\ t.inUse \subseteq Ghost /\ t.updating \subseteq Ghost
  BY <1>1, ArrayFields
<1>3. /\ t2.inUse = t.inUse /\ t2.updating = t.updating \ {g \in D : returned[g] = {}}
      /\ t2.info = [g \in Ghost |->
           IF g \in D THEN AfterUpdate(t.info[g], returned[g]) ELSE t.info[g]]
      /\ t2 = [info |-> t2.info, updating |-> t2.updating, inUse |-> t2.inUse]
  BY DEF Written
<1>4. ASSUME NEW g \in D
      PROVE  /\ g \in t.updating /\ g \in t.inUse /\ g \in Ghost
             /\ "Ghosting" \notin t.info[g].flags /\ "KillingGhost" \notin t.info[g].flags
  BY <1>1, <1>2 DEF MayBeWritten, InFlight
<1>5. ASSUME NEW g \in D
      PROVE  WrittenAs(t.info[g], g, returned[g], upd(g), t2.info[g])
  <2>1. g \in t.updating /\ g \in t.inUse /\ g \in Ghost
    BY <1>4
  <2>2. t.info[g] \in GhostInfo
    BY <1>2, <2>1
  <2>3. t2.info[g] = AfterUpdate(t.info[g], returned[g])
    BY <1>3, <2>1
  <2>4. t.info[g].obj = NoObject <=>
          "KillGhost" \in t.info[g].flags \/ "KillingGhost" \in t.info[g].flags
    BY <1>1, <2>1 DEF InfoInv
  <2>5. "Ghosting" \notin t.info[g].flags /\ "KillingGhost" \notin t.info[g].flags
    BY <1>4
  <2>6. ~({"KillGhost", "NotYetGhosted"} \subseteq t.info[g].flags)
    BY <2>1
  <2>7. returned[g] \in MayReturn(t.info[g])
    OBVIOUS
  <2>8. upd(g) = UpdateOf(t.info[g], g, returned[g])
    OBVIOUS
  <2>. HIDE DEF upd
  <2>. QED
    BY <2>2, <2>3, <2>4, <2>5, <2>6, <2>7, <2>8, UpdateFields
<1>6. ASSUME NEW u \in note.updates PROVE u.ghost \in D /\ u = upd(u.ghost)
  <2>1. PICK g \in D : u = upd(g)
    OBVIOUS
  <2>2. u.ghost = g
    BY <1>5, <2>1 DEF WrittenAs
  <2>. QED
    BY <2>1, <2>2
<1>7. ASSUME NEW g \in D PROVE upd(g) \in note.updates /\ upd(g).ghost = g
  <2>1. upd(g) \in note.updates
    OBVIOUS
  <2>2. upd(g).ghost = g
    BY <1>5 DEF WrittenAs
  <2>. QED
    BY <2>1, <2>2
<1>. HIDE DEF upd
<1>8. ASSUME NEW g \in Ghost, g \notin D PROVE t2.info[g] = t.info[g]
  BY <1>3, <1>8
<1>9. ASSUME NEW g \in D
      PROVE  /\ "NotYetGhosted" \in t.info[g].flags => Absent(w, g)
             /\ "NotYetGhosted" \notin t.info[g].flags => Present(w, g, t.info[g].obj)
  <2>1. g \in t.inUse /\ "Ghosting" \notin t.info[g].flags /\ "KillingGhost" \notin t.info[g].flags
    BY <1>4
  <2>. QED
    BY <1>1, <2>1 DEF GhostsInv
<1>10. Suits(w, note.updates)
  <2>. SUFFICES ASSUME NEW u \in note.updates
                PROVE  /\ \A v \in note.updates : u.ghost = v.ghost => u = v
                       /\ u.ghost \in Ghost
                       /\ u.kind # "KillingGhost" => u.obj # NoObject
                       /\ u.obj = NoObject => u.current = {}
                       /\ u.current \subseteq u.mask
                       /\ u.obj # NoObject => u.current = u.mask
                       /\ u.kind = "Ghosting" <=> w.ghosts[u.ghost] = NoGhost
                       /\ u.kind = "Update" => w.ghosts[u.ghost].of = u.obj
                       /\ \A i \in Pos(w) : \A v \in List(w, i) :
                            v.ghost = u.ghost => v.kind = "Update"
    BY DEF Suits
  <2>. DEFINE g == u.ghost
  <2>1. g \in D /\ u = upd(g)
    BY <1>6
  <2>2. \A v \in note.updates : u.ghost = v.ghost => u = v
    BY <1>6, <2>1
  <2>3. g \in Ghost
    BY <1>4, <2>1
  <2>4. WrittenAs(t.info[g], g, returned[g], u, t2.info[g])
    BY <1>5, <2>1
  <2>5. /\ u.obj = t.info[g].obj
        /\ u.current = IF u.obj = NoObject THEN {} ELSE u.mask
        /\ u.kind \in {"Ghosting", "Update", "KillingGhost"}
        /\ u.kind = "KillingGhost" <=> t.info[g].obj = NoObject
        /\ u.kind = "Ghosting" <=> "NotYetGhosted" \in t.info[g].flags
    BY <2>4 DEF WrittenAs
  <2>6. CASE "NotYetGhosted" \in t.info[g].flags
    <3>1. Absent(w, g)
      BY <1>9, <2>1, <2>6
    <3>2. u.kind = "Ghosting" /\ u.obj # NoObject
      BY <2>5, <2>6
    <3>. QED
      BY <2>2, <2>3, <2>5, <3>1, <3>2 DEF Absent
  <2>7. CASE "NotYetGhosted" \notin t.info[g].flags
    <3>1. Present(w, g, u.obj)
      BY <1>9, <2>1, <2>5, <2>7
    <3>2. u.kind = "Update" => u.obj # NoObject
      BY <2>5
    <3>. QED
      BY <2>2, <2>3, <2>5, <2>7, <3>1, <3>2 DEF Present
  <2>. QED
    BY <2>6, <2>7
<1>11. t2 \in GhostArray /\ t2.updating \subseteq t2.inUse
  <2>1. ASSUME NEW g \in Ghost PROVE t2.info[g] \in GhostInfo
    <3>1. CASE g \in D
      BY <1>5, <3>1 DEF WrittenAs
    <3>2. CASE g \notin D
      BY <1>2, <1>8, <3>2
    <3>. QED
      BY <3>1, <3>2
  <2>2. t2.info \in [Ghost -> GhostInfo]
    BY <1>3, <2>1
  <2>3. t2.updating \subseteq t2.inUse /\ t2.updating \subseteq Ghost
    BY <1>1, <1>2, <1>3
  <2>. QED
    BY <1>2, <1>3, <2>2, <2>3 DEF GhostArray
<1>12. InfoInv(t2)
  <2>. SUFFICES ASSUME NEW g \in t.inUse
                PROVE  /\ InSegment(t2, g)
                       /\ t2.info[g].obj = NoObject <=>
                            "KillGhost" \in t2.info[g].flags \/ "KillingGhost" \in t2.info[g].flags
                       /\ ~({"NotYetGhosted", "Ghosting"} \subseteq t2.info[g].flags)
                       /\ ~({"NotYetGhosted", "KillingGhost"} \subseteq t2.info[g].flags)
                       /\ ~({"Ghosting", "KillingGhost"} \subseteq t2.info[g].flags)
    BY <1>3 DEF InfoInv
  <2>1. CASE g \in D
    <3>1. g \in t2.updating <=> returned[g] # {}
      BY <1>3, <1>4, <2>1
    <3>2. WrittenAs(t.info[g], g, returned[g], upd(g), t2.info[g])
      BY <1>5, <2>1
    <3>. QED
      BY <3>1, <3>2 DEF WrittenAs, InSegment
  <2>2. CASE g \notin D
    <3>1. t2.info[g] = t.info[g] /\ (g \in t2.updating <=> g \in t.updating)
      BY <1>2, <1>3, <1>8, <2>2
    <3>. QED
      BY <1>1, <3>1 DEF InfoInv, InSegment
  <2>. QED
    BY <2>1, <2>2
<1>13. ASSUME NEW g, g \notin D
       PROVE  /\ Absent(w, g) => Absent(w2, g)
              /\ \A o : Creating(w, g, o) => Creating(w2, g, o)
              /\ \A o : Present(w, g, o) => Present(w2, g, o)
              /\ Removing(w, g) => Removing(w2, g)
  <2>1. \A u \in note.updates : u.ghost # g
    BY <1>6, <1>13
  <2>. QED
    BY <2>1, NotMentioned
<1>14. /\ \A i \in Pos(w) : List(w2, i) = List(w, i)
       /\ List(w2, k) = note.updates
  BY SentLists
<1>15. /\ Pos(w2) = Pos(w) \union {k} /\ k \notin Pos(w) /\ k \notin w2.arr
       /\ w2.ghosts = w.ghosts /\ w2.arr = w.arr /\ w2.ends = w.ends
       /\ \A i \in Pos(w) : i < k
  BY DEF SentTo, LinkType
<1>16. ASSUME NEW g \in D, NEW v \in note.updates, v.ghost = g PROVE v = upd(g)
  BY <1>6, <1>16
<1>17. ASSUME NEW g \in D, "NotYetGhosted" \in t.info[g].flags
       PROVE  Creating(w2, g, t.info[g].obj)
  <2>1. Absent(w, g)
    BY <1>9, <1>17
  <2>2. upd(g).kind = "Ghosting" /\ upd(g).obj = t.info[g].obj
    BY <1>5, <1>17 DEF WrittenAs
  <2>3. k \in Pos(w2) /\ upd(g) \in List(w2, k) /\ upd(g).ghost = g
    BY <1>7, <1>14, <1>15
  <2>4. \A j \in Pos(w2) : \A v \in List(w2, j) : v.ghost = g => j = k
    BY <1>14, <1>15, <2>1 DEF Absent
  <2>5. k \notin w2.arr /\ w2.ghosts[g] = NoGhost
    BY <1>15, <2>1 DEF Absent
  <2>. QED
    BY <2>2, <2>3, <2>4, <2>5 DEF Creating
<1>18. ASSUME NEW g \in D, upd(g).kind = "KillingGhost"
       PROVE  Removing(w2, g)
  <2>0. "NotYetGhosted" \notin t.info[g].flags
    BY <1>5, <1>18 DEF WrittenAs
  <2>1. Present(w, g, t.info[g].obj)
    BY <1>9, <2>0
  <2>3. k \in Pos(w2) /\ upd(g) \in List(w2, k) /\ upd(g).ghost = g
    BY <1>7, <1>14, <1>15
  <2>4. ASSUME NEW j \in Pos(w2), NEW v \in List(w2, j), v.ghost = g
        PROVE  j <= k /\ (j < k => v.kind = "Update")
    <3>1. CASE j = k
      <4>1. k <= k /\ ~(k < k)
        BY DEF SentTo
      <4>. QED
        BY <3>1, <4>1
    <3>2. CASE j \in Pos(w)
      <4>1. v \in List(w, j)
        BY <1>14, <2>4, <3>2
      <4>2. v.kind = "Update"
        BY <2>1, <2>4, <3>2, <4>1 DEF Present
      <4>3. j <= k
        BY <3>2 DEF SentTo
      <4>. QED
        BY <1>15, <3>2, <4>2, <4>3
    <3>. QED
      BY <1>15, <3>1, <3>2
  <2>5. k \notin w2.arr /\ w2.ghosts[g] # NoGhost
    BY <1>15, <2>1 DEF Present
  <2>. QED
    BY <1>18, <2>3, <2>4, <2>5 DEF Removing
<1>19. ASSUME NEW g \in D, upd(g).kind = "Update"
       PROVE  Present(w2, g, t.info[g].obj)
  <2>0. "NotYetGhosted" \notin t.info[g].flags /\ t.info[g].obj # NoObject
        /\ upd(g).obj = t.info[g].obj
    BY <1>5, <1>19 DEF WrittenAs
  <2>1. Present(w, g, t.info[g].obj)
    BY <1>9, <2>0
  <2>2. \A j \in Pos(w2) : \A v \in List(w2, j) : v.ghost = g =>
          v.kind = "Update" /\ v.obj = w2.ghosts[g].of
    <3>1. \A v \in note.updates : v.ghost = g => v.kind = "Update" /\ v.obj = w.ghosts[g].of
      BY <1>16, <1>19, <2>0, <2>1 DEF Present
    <3>. QED
      BY <1>14, <1>15, <2>1, <3>1 DEF Present
  <2>. QED
    BY <1>15, <2>1, <2>2 DEF Present
<1>20. GhostsInv(t2, w2)
  <2>1. ASSUME NEW g \in Ghost \ t2.inUse PROVE Absent(w2, g)
    <3>1. g \notin D /\ g \in Ghost \ t.inUse
      BY <1>3, <1>4, <2>1
    <3>. QED
      BY <1>1, <1>13, <3>1 DEF GhostsInv
  <2>2. ASSUME NEW g \in t2.inUse
        PROVE  /\ "NotYetGhosted" \in t2.info[g].flags => Absent(w2, g)
               /\ "Ghosting" \in t2.info[g].flags => Creating(w2, g, t2.info[g].obj)
               /\ "KillingGhost" \in t2.info[g].flags => Removing(w2, g)
               /\ t2.info[g].flags \intersect {"NotYetGhosted", "Ghosting", "KillingGhost"} = {} =>
                    Present(w2, g, t2.info[g].obj)
    <3>1. CASE g \in D
      <4>1. WrittenAs(t.info[g], g, returned[g], upd(g), t2.info[g])
        BY <1>5, <3>1
      <4>2. /\ "NotYetGhosted" \notin t2.info[g].flags
            /\ "Ghosting" \in t2.info[g].flags <=> upd(g).kind = "Ghosting"
            /\ "KillingGhost" \in t2.info[g].flags <=> upd(g).kind = "KillingGhost"
            /\ upd(g).kind \in {"Ghosting", "Update", "KillingGhost"}
            /\ upd(g).kind = "Ghosting" => "NotYetGhosted" \in t.info[g].flags
            /\ t2.info[g].obj = t.info[g].obj
        BY <4>1 DEF WrittenAs
      <4>. QED
        BY <1>17, <1>18, <1>19, <3>1, <4>2
    <3>2. CASE g \notin D
      <4>1. t2.info[g] = t.info[g] /\ g \in t.inUse
        BY <1>2, <1>3, <1>8, <2>2, <3>2
      <4>2. /\ "NotYetGhosted" \in t.info[g].flags => Absent(w, g)
            /\ "Ghosting" \in t.info[g].flags => Creating(w, g, t.info[g].obj)
            /\ "KillingGhost" \in t.info[g].flags => Removing(w, g)
            /\ t.info[g].flags \intersect {"NotYetGhosted", "Ghosting", "KillingGhost"} = {} =>
                 Present(w, g, t.info[g].obj)
        BY <1>1, <4>1 DEF GhostsInv
      <4>. QED
        BY <1>13, <3>2, <4>1, <4>2
    <3>. QED
      BY <3>1, <3>2
  <2>. QED
    BY <2>1, <2>2 DEF GhostsInv
<1>21. StatesInv(t2, d, free, w2)
  <2>. SUFFICES ASSUME NEW g \in t.inUse, t2.info[g].obj # NoObject, NEW bit \in Bit
                PROVE  \/ ToBeSent(t2, d, free, g, t2.info[g].obj, bit)
                       \/ /\ "NotYetGhosted" \notin t2.info[g].flags
                          /\ Remembered(w2, g, t2.info[g].obj, bit)
    BY <1>3 DEF StatesInv
  <2>1. ASSUME t.info[g].obj = t2.info[g].obj
        PROVE  \/ ToBeSent(t, d, free, g, t.info[g].obj, bit)
               \/ /\ "NotYetGhosted" \notin t.info[g].flags
                  /\ Remembered(w, g, t.info[g].obj, bit)
    BY <1>1, <2>1 DEF StatesInv
  <2>2. Remembered(w, g, t.info[g].obj, bit) => Remembered(w2, g, t.info[g].obj, bit)
    BY RememberedStill
  <2>3. CASE g \in D
    <3>1. /\ t2.info[g].obj = t.info[g].obj /\ t2.info[g].updateMask = returned[g]
          /\ "NotYetGhosted" \notin t2.info[g].flags
          /\ upd(g).obj = t.info[g].obj
          /\ upd(g).mask = t.info[g].updateMask \ returned[g]
          /\ upd(g).current = IF upd(g).obj = NoObject THEN {} ELSE upd(g).mask
      BY <1>5, <2>3 DEF WrittenAs
    <3>2. CASE bit \in t.info[g].updateMask /\ bit \notin returned[g]
      <4>1. bit \in upd(g).current
        BY <3>1, <3>2
      <4>2. k \in Pos(w2) /\ upd(g) \in List(w2, k) /\ upd(g).ghost = g /\ k \notin w2.arr
        BY <1>7, <1>14, <1>15, <2>3
      <4>3. Remembered(w2, g, t2.info[g].obj, bit)
        BY <4>1, <4>2 DEF Remembered
      <4>. QED
        BY <3>1, <4>3
    <3>3. CASE ~(bit \in t.info[g].updateMask /\ bit \notin returned[g])
      BY <2>1, <2>2, <3>1, <3>3 DEF ToBeSent
    <3>. QED
      BY <3>2, <3>3
  <2>4. CASE g \notin D
    <3>1. t2.info[g] = t.info[g]
      BY <1>2, <1>8, <2>4
    <3>. QED
      BY <2>1, <2>2, <3>1 DEF ToBeSent
  <2>. QED
    BY <2>3, <2>4
<1>. QED
  BY <1>10, <1>11, <1>12, <1>20, <1>21 DEF TableInv

-----------------------------------------------------------------------------
(* The calls of the application.                                           *)

(* The positions of the packets, of those that have arrived and of those   *)
(* that may be read.                                                       *)
LEMMA LinkTyped == ASSUME TypeOK PROVE LinkType(Link)
<1>1. /\ notes \in Seq(Note) /\ mLocalGhosts \in [Ghost -> LocalGhost]
      /\ notified \in [Side -> Nat] /\ arrived \in [Side -> SUBSET Nat]
  BY DEF TypeOK, ChanTypeOK
<1>2. notified[Server] \in Nat /\ arrived[Server] \subseteq Nat
  BY <1>1 DEF Side, Server
<1>3. /\ Link.notes = notes /\ Link.ghosts = mLocalGhosts
      /\ Link.arr = {i \in DOMAIN notes : notified[Server] + i \in arrived[Server]}
      /\ Link.rd = {i \in DOMAIN notes : \A m \in arrived[Server] : m < notified[Server] + i}
  BY DEF Link
<1>4. Link.arr \intersect Link.rd = {}
  <2>1. \A i \in DOMAIN notes : i \in Nat
    BY <1>1
  <2>. QED
    BY <1>2, <1>3, <2>1
<1>5. \A i \in Link.rd, j \in Pos(Link) : i <= j => j \in Link.rd
  BY <1>1, <1>2, <1>3 DEF Pos
<1>. QED
  BY <1>1, <1>3, <1>4, <1>5 DEF LinkType, Pos

(* A step that leaves the packets, the RPCs and the initiator alone.       *)
LEMMA SameLink ==
  ASSUME UNCHANGED <<notes, mLocalGhosts, notified, arrived, rpcs, rpcDone, rpcWaiting>>
  PROVE  Link' = Link
BY DEF Link

(* For a step that changes only the ghost array, dirty bits and history,   *)
(* what is left to show.                                                   *)
LEMMA TableOnly ==
  ASSUME IInv, TypeOK',
         TableInv(mGhostArray', mDirtyMaskBits', cleared', Link),
         Dormant(mGhostArray, Link) => Dormant(mGhostArray', Link),
         UNCHANGED <<chanVars, notes, serverVars, rpcs, clientVars>>
  PROVE  IInv'
<1>1. Link' = Link
  BY SameLink DEF chanVars, clientVars
<1>2. ChannelInv' /\ StartsRight'
  BY DEF IInv, ChannelInv, StartsRight, chanVars, serverVars
<1>. QED
  BY <1>1, <1>2 DEF IInv, serverVars

(* The parts of the invariant that the calls of the application start      *)
(* from.                                                                   *)
LEMMA IInvTable ==
  ASSUME IInv
  PROVE  /\ TableInv(mGhostArray, mDirtyMaskBits, cleared, Link)
         /\ mDirtyMaskBits \in [Object -> SUBSET Bit]
         /\ exists \subseteq Object /\ scope \subseteq Object
         /\ mGhostArray \in GhostArray
BY DEF IInv, TypeOK

(* clearMaskBits keeps the invariant.                                      *)
LEMMA ClearMaskBits ==
  ASSUME IInv, NEW o \in Object, clearMaskBits(o) PROVE IInv'
<1>1. PICK bits \in SUBSET Bit \ {{}} :
       /\ Call(IF \E bit \in Bit : bits = {bit} THEN "clear" ELSE "clearMany")
       /\ cleared' = cleared \union ({o} \X bits)
       /\ mDirtyMaskBits' = [mDirtyMaskBits EXCEPT ![o] = @ \ bits]
       /\ mGhostArray' =
            [info |-> [g \in Ghost |->
               IF g \in GhostsOf(mGhostArray, o)
                 THEN [mGhostArray.info[g] EXCEPT !.updateMask = @ \ bits]
                 ELSE mGhostArray.info[g]],
             updating |-> mGhostArray.updating
                            \ {g \in GhostsOf(mGhostArray, o) : mGhostArray.info[g].updateMask = bits},
             inUse |-> mGhostArray.inUse]
  BY DEF clearMaskBits
<1>2. UNCHANGED <<chanVars, serverVars, rpcVars, clientVars, notes, exists, scope, mScopeObject>>
  BY DEF clearMaskBits
<1>3. "clearMany" \notin Calls => \E bit \in Bit : bits = {bit}
  BY <1>1 DEF Call
<1>4. TableStep(mGhostArray, mDirtyMaskBits, cleared, mGhostArray', mDirtyMaskBits', cleared')
  <2>1. bits \in SUBSET Bit
    OBVIOUS
  <2>. QED
    BY <1>1, <1>3, <2>1, IInvTable, MaskClearedStep
<1>5. /\ TableInv(mGhostArray', mDirtyMaskBits', cleared', Link)
      /\ Dormant(mGhostArray, Link) => Dormant(mGhostArray', Link)
  BY <1>4, IInvTable, StepTaken
<1>6. TypeOK'
  <2>1. mGhostArray' \in GhostArray /\ mGhostArray'.updating \subseteq mGhostArray'.inUse
    BY <1>5 DEF TableInv
  <2>2. mDirtyMaskBits' \in [Object -> SUBSET Bit] /\ cleared' \subseteq Object \X Bit
    BY <1>1 DEF IInv, TypeOK
  <2>3. calls' \in Nat
    BY <1>1 DEF IInv, TypeOK, Call
  <2>. QED
    BY <1>2, <2>1, <2>2, <2>3
       DEF IInv, TypeOK, ChanTypeOK, chanVars, serverVars, rpcVars, clientVars
<1>. QED
  BY <1>2, <1>5, <1>6, TableOnly DEF rpcVars

(* The destructor of NetObject keeps the invariant.                        *)
LEMMA DestroyObjectStep ==
  ASSUME IInv, NEW o \in Object, DestroyObject(o) PROVE IInv'
<1>1. /\ mDirtyMaskBits' = [mDirtyMaskBits EXCEPT ![o] = {}]
      /\ mGhostArray' = Detached(mGhostArray, GhostsOf(mGhostArray, o))
      /\ exists' = exists \ {o} /\ scope' = scope \ {o}
      /\ UNCHANGED <<chanVars, serverVars, rpcVars, clientVars, notes, mScopeObject, cleared>>
      /\ calls' = calls + 1
  BY DEF DestroyObject, Call
<1>2. GhostsOf(mGhostArray, o) \in SUBSET mGhostArray.inUse
  BY DEF GhostsOf
<1>3. \A g \in mGhostArray.inUse \ GhostsOf(mGhostArray, o) :
        mGhostArray.info[g].obj # NoObject =>
          mDirtyMaskBits[mGhostArray.info[g].obj] \subseteq mDirtyMaskBits'[mGhostArray.info[g].obj]
  <2>. SUFFICES ASSUME NEW g \in mGhostArray.inUse \ GhostsOf(mGhostArray, o),
                       mGhostArray.info[g].obj # NoObject
                PROVE  mDirtyMaskBits[mGhostArray.info[g].obj]
                         \subseteq mDirtyMaskBits'[mGhostArray.info[g].obj]
    OBVIOUS
  <2>1. mGhostArray.info[g].obj \in Object /\ mGhostArray.info[g].obj # o
    <3>1. mGhostArray.info \in [Ghost -> GhostInfo] /\ mGhostArray.inUse \subseteq Ghost
      BY IInvTable, ArrayFields
    <3>2. mGhostArray.info[g] \in GhostInfo
      BY <3>1
    <3>. QED
      BY <3>2 DEF GhostsOf, GhostInfo
  <2>2. mDirtyMaskBits \in [Object -> SUBSET Bit]
    BY IInvTable
  <2>. QED
    BY <1>1, <2>1, <2>2
<1>4. TableStep(mGhostArray, mDirtyMaskBits, cleared, mGhostArray', mDirtyMaskBits', cleared)
  BY <1>1, <1>2, <1>3, IInvTable, DetachedStep
<1>5. /\ TableInv(mGhostArray', mDirtyMaskBits', cleared, Link)
      /\ Dormant(mGhostArray, Link) => Dormant(mGhostArray', Link)
  BY <1>4, IInvTable, StepTaken
<1>6. TypeOK'
  <2>1. mGhostArray' \in GhostArray /\ mGhostArray'.updating \subseteq mGhostArray'.inUse
    BY <1>5 DEF TableInv
  <2>2. mDirtyMaskBits' \in [Object -> SUBSET Bit] /\ calls' \in Nat
    BY <1>1 DEF IInv, TypeOK
  <2>. QED
    BY <1>1, <2>1, <2>2
       DEF IInv, TypeOK, ChanTypeOK, chanVars, serverVars, rpcVars, clientVars
<1>. QED
  BY <1>1, <1>5, <1>6, TableOnly DEF rpcVars

(* A change of the scope keeps the invariant.                              *)
LEMMA ScopeChangesStep ==
  ASSUME IInv, ScopeChanges PROVE IInv'
<1>1. /\ UNCHANGED <<chanVars, mGhostArray, mDirtyMaskBits, notes, serverVars, rpcVars,
                     clientVars, exists, cleared>>
      /\ scope' \subseteq exists /\ mScopeObject' \in BOOLEAN /\ calls' = calls + 1
  BY DEF ScopeChanges, Call, IInv, TypeOK
<1>2. TypeOK'
  BY <1>1 DEF IInv, TypeOK, ChanTypeOK, chanVars, serverVars, rpcVars, clientVars
<1>. QED
  BY <1>1, <1>2, IInvTable, TableOnly DEF rpcVars

(* The scope flags of some GhostInfos are set or reset.                    *)
LEMMA ScopeLocalStep ==
  ASSUME NEW t, NEW d, NEW free, NEW w, TableInv(t, d, free, w),
         NEW f, f = [g \in Ghost |-> f[g]],
         \A g \in Ghost :
           \/ f[g] = t.info[g]
           \/ f[g] = [t.info[g] EXCEPT !.flags = @ \union {"ScopeLocalAlways"}]
           \/ f[g] = [t.info[g] EXCEPT !.flags = @ \ {"ScopeLocalAlways"}],
         NEW t2, t2 = [t EXCEPT !.info = f]
  PROVE  TableStep(t, d, free, t2, d, free)
<1>1. t.info \in [Ghost -> GhostInfo]
  BY ArrayFields DEF TableInv
<1>2. ASSUME NEW g \in Ghost
      PROVE  /\ f[g].obj = t.info[g].obj /\ f[g].updateMask = t.info[g].updateMask
             /\ SameFlags(t.info[g].flags, f[g].flags)
             /\ f[g] \in GhostInfo
  <2>1. t.info[g] \in GhostInfo
    BY <1>1
  <2>2. CASE f[g] = t.info[g]
    BY <2>1, <2>2 DEF SameFlags
  <2>3. CASE f[g] = [t.info[g] EXCEPT !.flags = @ \union {"ScopeLocalAlways"}]
    BY <2>1, <2>3 DEF SameFlags, ScopeFlag, GhostInfo, Flag
  <2>4. CASE f[g] = [t.info[g] EXCEPT !.flags = @ \ {"ScopeLocalAlways"}]
    BY <2>1, <2>4 DEF SameFlags, ScopeFlag, GhostInfo, Flag
  <2>. QED
    BY <2>2, <2>3, <2>4
<1>3. f \in [Ghost -> GhostInfo]
  BY <1>2
<1>. QED
  BY <1>2, <1>3, ScopeFlagsStep

(* objectLocalScopeAlways keeps the invariant.                             *)
LEMMA ScopeAlwaysStep ==
  ASSUME IInv, NEW o \in Object, objectLocalScopeAlways(o) PROVE IInv'
<1>1. PICK t \in IF mScoping THEN Scoped(mGhostArray, {o}) ELSE {mGhostArray} :
        mGhostArray' = [t EXCEPT !.info = [g \in Ghost |->
          IF g \in GhostsOf(t, o)
            THEN [t.info[g] EXCEPT !.flags = @ \union {"ScopeLocalAlways"}]
            ELSE t.info[g]]]
  BY DEF objectLocalScopeAlways
<1>2. /\ UNCHANGED <<chanVars, mDirtyMaskBits, notes, serverVars, rpcVars, clientVars,
                     exists, scope, mScopeObject, cleared>>
      /\ calls' = calls + 1
  BY DEF objectLocalScopeAlways, Call
<1>. DEFINE d == mDirtyMaskBits
            free == cleared
            w == Link
            f == [g \in Ghost |->
                    IF g \in GhostsOf(t, o)
                      THEN [t.info[g] EXCEPT !.flags = @ \union {"ScopeLocalAlways"}]
                      ELSE t.info[g]]
<1>3. TableInv(mGhostArray, d, free, w)
  BY IInvTable
<1>4. TableInv(t, d, free, w) /\ (Dormant(mGhostArray, w) => Dormant(t, w))
  <2>. HIDE DEF d, free, w
  <2>1. CASE t = mGhostArray
    BY <1>3, <2>1
  <2>2. CASE t \in Scoped(mGhostArray, {o})
    <3>1. {o} \in SUBSET Object
      OBVIOUS
    <3>2. TableStep(mGhostArray, d, free, t, d, free)
      BY <1>3, <2>2, <3>1, ScopedStep
    <3>. QED
      BY <1>3, <3>2, StepTaken
  <2>. QED
    BY <1>1, <2>1, <2>2
<1>5. TableStep(t, d, free, mGhostArray', d, free)
  <2>1. f = [g \in Ghost |-> f[g]]
    OBVIOUS
  <2>2. \A g \in Ghost :
          \/ f[g] = t.info[g]
          \/ f[g] = [t.info[g] EXCEPT !.flags = @ \union {"ScopeLocalAlways"}]
          \/ f[g] = [t.info[g] EXCEPT !.flags = @ \ {"ScopeLocalAlways"}]
    OBVIOUS
  <2>3. mGhostArray' = [t EXCEPT !.info = f]
    BY <1>1
  <2>. HIDE DEF d, free, w, f
  <2>. QED
    BY <1>4, <2>1, <2>2, <2>3, ScopeLocalStep
<1>6. TableInv(mGhostArray', d, free, w) /\ (Dormant(mGhostArray, w) => Dormant(mGhostArray', w))
  <2>. HIDE DEF d, free, w, f
  <2>. QED
    BY <1>4, <1>5, StepTaken
<1>7. TypeOK'
  <2>1. mGhostArray' \in GhostArray /\ mGhostArray'.updating \subseteq mGhostArray'.inUse
    BY <1>6 DEF TableInv
  <2>. HIDE DEF d, free, w, f
  <2>. QED
    BY <1>2, <2>1 DEF IInv, TypeOK, ChanTypeOK, chanVars, serverVars, rpcVars, clientVars
<1>. QED
  BY <1>2, <1>6, <1>7, TableOnly DEF rpcVars

(* objectLocalClearAlways keeps the invariant.                             *)
LEMMA ClearAlwaysStep ==
  ASSUME IInv, NEW o \in Object, objectLocalClearAlways(o) PROVE IInv'
<1>. DEFINE t == mGhostArray
            d == mDirtyMaskBits
            free == cleared
            w == Link
            f == [g \in Ghost |->
                    IF g \in GhostsOf(t, o)
                      THEN [t.info[g] EXCEPT !.flags = @ \ {"ScopeLocalAlways"}]
                      ELSE t.info[g]]
<1>1. mGhostArray' = [t EXCEPT !.info = f]
  BY DEF objectLocalClearAlways
<1>2. /\ UNCHANGED <<chanVars, mDirtyMaskBits, notes, serverVars, rpcVars, clientVars,
                     exists, scope, mScopeObject, cleared>>
      /\ calls' = calls + 1
  BY DEF objectLocalClearAlways, Call
<1>3. TableInv(t, d, free, w)
  BY IInvTable
<1>5. TableStep(t, d, free, mGhostArray', d, free)
  <2>1. f = [g \in Ghost |-> f[g]]
    OBVIOUS
  <2>2. \A g \in Ghost :
          \/ f[g] = t.info[g]
          \/ f[g] = [t.info[g] EXCEPT !.flags = @ \union {"ScopeLocalAlways"}]
          \/ f[g] = [t.info[g] EXCEPT !.flags = @ \ {"ScopeLocalAlways"}]
    OBVIOUS
  <2>. HIDE DEF t, d, free, w, f
  <2>. QED
    BY <1>1, <1>3, <2>1, <2>2, ScopeLocalStep
<1>6. TableInv(mGhostArray', d, free, w) /\ (Dormant(t, w) => Dormant(mGhostArray', w))
  <2>. HIDE DEF t, d, free, w, f
  <2>. QED
    BY <1>3, <1>5, StepTaken
<1>7. TypeOK'
  <2>1. mGhostArray' \in GhostArray /\ mGhostArray'.updating \subseteq mGhostArray'.inUse
    BY <1>6 DEF TableInv
  <2>. HIDE DEF t, d, free, w, f
  <2>. QED
    BY <1>2, <2>1 DEF IInv, TypeOK, ChanTypeOK, chanVars, serverVars, rpcVars, clientVars
<1>. QED
  BY <1>2, <1>6, <1>7, TableOnly DEF rpcVars

(* An RPC more, at the end.                                                *)
LEMMA Posted ==
  ASSUME TypeOK, NEW rpc \in Rpc, Post(rpc)
  PROVE  /\ rpcs' \in Seq(Rpc) /\ Len(rpcs') = Len(rpcs) + 1
         /\ DOMAIN rpcs' = 1 .. Len(rpcs) + 1 /\ DOMAIN rpcs = 1 .. Len(rpcs)
         /\ rpcs'[Len(rpcs) + 1] = rpc
         /\ \A r \in 1 .. Len(rpcs) : rpcs'[r] = rpcs[r]
         /\ rpcQueue' \subseteq DOMAIN rpcs'
BY DEF TypeOK, Post

(* activateGhosting keeps the invariant: the start of the session is       *)
(* posted behind all ends.                                                 *)
LEMMA ActivateStep ==
  ASSUME IInv, activateGhosting PROVE IInv'
<1>. DEFINE rpc == [type |-> "rpcStartGhosting", sequence |-> mGhostingSequence']
            n == Len(rpcs)
<1>1. /\ mGhostingSequence' = mGhostingSequence + 1 /\ mScoping' = TRUE
      /\ Post(rpc)
      /\ UNCHANGED <<chanVars, mGhostArray, mDirtyMaskBits, notes, mGhosting, clientVars,
                     exists, scope, mScopeObject, cleared>>
      /\ calls' \in {calls, calls + 1}
  BY DEF activateGhosting, Call
<1>2. TypeOK /\ mGhostingSequence \in Nat /\ rpcs \in Seq(Rpc) /\ n \in Nat
  BY DEF IInv, TypeOK
<1>3. rpc \in Rpc
  BY <1>1, <1>2 DEF Rpc
<1>4. rpc.type = "rpcStartGhosting" /\ rpc.sequence = mGhostingSequence + 1
  BY <1>1
<1>. HIDE DEF rpc, n
<1>5. /\ rpcs' \in Seq(Rpc) /\ Len(rpcs') = n + 1
      /\ DOMAIN rpcs' = 1 .. n + 1 /\ DOMAIN rpcs = 1 .. n
      /\ rpcs'[n + 1] = rpc
      /\ \A r \in 1 .. n : rpcs'[r] = rpcs[r]
      /\ rpcQueue' \subseteq DOMAIN rpcs'
  BY <1>1, <1>2, <1>3, Posted DEF n
<1>6. Link' = Link
  <2>1. rpcDone' = rpcDone /\ rpcDone \in 0 .. n
    BY <1>1 DEF IInv, TypeOK, clientVars, n
  <2>2. {r \in rpcDone + 1 .. n + 1 : rpcs'[r].type = "rpcEndGhosting"}
          = {r \in rpcDone + 1 .. n : rpcs[r].type = "rpcEndGhosting"}
    <3>1. rpcs'[n + 1].type # "rpcEndGhosting"
      BY <1>4, <1>5
    <3>2. \A r \in rpcDone + 1 .. n + 1 : r = n + 1 \/ r \in rpcDone + 1 .. n
      BY <1>2, <2>1
    <3>3. \A r \in rpcDone + 1 .. n : r \in rpcDone + 1 .. n + 1 /\ rpcs'[r] = rpcs[r]
      BY <1>2, <1>5, <2>1
    <3>. QED
      BY <3>1, <3>2, <3>3
  <2>3. {r \in rpcDone' + 1 .. Len(rpcs') : rpcs'[r].type = "rpcEndGhosting"}
          = {r \in rpcDone + 1 .. Len(rpcs) : rpcs[r].type = "rpcEndGhosting"}
    BY <1>5, <2>1, <2>2 DEF n
  <2>. QED
    BY <1>1, <2>3 DEF Link, clientVars, chanVars
<1>7. StartsRight'
  <2>. SUFFICES ASSUME NEW r \in 1 .. n + 1, rpcs'[r].type = "rpcStartGhosting"
                PROVE  /\ rpcs'[r].sequence <= mGhostingSequence + 1
                       /\ rpcs'[r].sequence = mGhostingSequence + 1 =>
                            \A x \in r + 1 .. n + 1 : rpcs'[x].type # "rpcEndGhosting"
    BY <1>1, <1>5 DEF StartsRight
  <2>1. CASE r = n + 1
    <3>1. rpcs'[r].sequence = mGhostingSequence + 1
      BY <1>4, <1>5, <2>1
    <3>2. r + 1 .. n + 1 = {}
      BY <1>2, <2>1
    <3>. QED
      BY <1>2, <3>1, <3>2
  <2>2. CASE r \in 1 .. n
    <3>1. rpcs[r].type = "rpcStartGhosting" /\ rpcs'[r] = rpcs[r]
      BY <1>5, <2>2
    <3>2. rpcs[r].sequence <= mGhostingSequence
      BY <1>5, <2>2, <3>1 DEF IInv, StartsRight
    <3>3. rpcs[r].sequence \in Nat
      <4>1. rpcs[r] \in Rpc
        BY <1>2, <2>2 DEF n
      <4>. QED
        BY <4>1 DEF Rpc
    <3>. QED
      BY <1>2, <3>1, <3>2, <3>3
  <2>. QED
    BY <1>2, <2>1, <2>2
<1>8. TypeOK'
  <2>1. mGhostingSequence' \in Nat /\ calls' \in Nat
    BY <1>1 DEF IInv, TypeOK
  <2>2. DOMAIN rpcs \subseteq DOMAIN rpcs'
    BY <1>2, <1>5
  <2>3. 0 .. Len(rpcs) \subseteq 0 .. Len(rpcs')
    BY <1>2, <1>5 DEF n
  <2>4. \A i \in DOMAIN notes : notes[i].rpcs \subseteq DOMAIN rpcs'
    BY <1>2, <2>2 DEF TypeOK
  <2>5. rpcWaiting \subseteq DOMAIN rpcs' /\ rpcDone \in 0 .. Len(rpcs')
    BY <1>2, <2>2, <2>3 DEF TypeOK
  <2>6. mScoping' \in BOOLEAN
    BY <1>1
  <2>. QED
    BY <1>1, <1>2, <1>5, <2>1, <2>4, <2>5, <2>6
       DEF TypeOK, ChanTypeOK, chanVars, clientVars
<1>9. ChannelInv'
  BY <1>1 DEF IInv, ChannelInv, chanVars
<1>. QED
  BY <1>1, <1>6, <1>7, <1>8, <1>9 DEF IInv

(* The session is ended: all ghosts are freed, the lists of the notes go.  *)
LEMMA ResetLink ==
  ASSUME NEW w, NEW w2, NEW r, LinkType(w), LinkInv(w),
         Pos(w2) = Pos(w),
         \A i \in Pos(w) : /\ ~w2.notes[i].listed /\ w2.notes[i].rpcs = w.notes[i].rpcs
                           /\ w2.notes[i].updates = w.notes[i].updates,
         w2.ghosts = w.ghosts, w2.arr = w.arr, w2.rd = w.rd, w2.waiting = w.waiting,
         w2.ends = w.ends \union {r},
         r \notin w.waiting, \A i \in Pos(w) : r \notin w.notes[i].rpcs
  PROVE  LinkInv(w2) /\ \A i \in Pos(w2) : List(w2, i) = {}
<1>1. \A i \in Pos(w) : Updates(w2, i) = Updates(w, i) /\ List(w2, i) = {}
  BY DEF Updates, List
<1>2. w.rd \subseteq Pos(w)
  BY DEF LinkType
<1>3. NotesInv(w2)
  BY <1>1 DEF LinkInv, NotesInv
<1>4. EndsInv(w2)
  <2>1. ASSUME NEW x \in w2.ends
        PROVE  /\ \A i \in Pos(w2) : x \in w2.notes[i].rpcs =>
                    \A j \in Pos(w2) : i <= j => Updates(w2, j) = {}
               /\ x \in w2.waiting => \A j \in w2.rd : Updates(w2, j) = {}
    <3>1. CASE x = r
      BY <3>1
    <3>2. CASE x \in w.ends
      BY <1>1, <1>2, <3>2 DEF LinkInv, EndsInv
    <3>. QED
      BY <3>1, <3>2
  <2>. QED
    BY <2>1 DEF EndsInv
<1>5. ReadableInv(w2)
  BY <1>1, <1>2 DEF LinkInv, ReadableInv
<1>6. CurrentInv(w2)
  BY <1>1 DEF LinkInv, CurrentInv
<1>. QED
  BY <1>1, <1>3, <1>4, <1>5, <1>6 DEF LinkInv

(* clearGhostInfo: the array is empty, and nothing is ghosted.             *)
LEMMA FreedAll ==
  ASSUME NEW t, NEW d, NEW free, NEW w, TableInv(t, d, free, w), NEW d2, NEW free2, NEW w2,
         w2.ends # {}, \A i \in Pos(w2) : List(w2, i) = {},
         NEW t2, t2 = Freed(t, t.inUse)
  PROVE  TableInv(t2, d2, free2, w2) /\ Dormant(t2, w2)
<1>1. t \in GhostArray /\ t.updating \subseteq t.inUse
  BY DEF TableInv
<1>2. t.info \in [Ghost -> GhostInfo] /\ t.inUse \subseteq Ghost /\ t.updating \subseteq Ghost
  BY <1>1, ArrayFields
<1>3. /\ t2.inUse = {} /\ t2.updating = {}
      /\ t2.info = [g \in Ghost |-> IF g \in t.inUse THEN Unused ELSE t.info[g]]
      /\ t2 = [info |-> t2.info, updating |-> t2.updating, inUse |-> t2.inUse]
  BY <1>1 DEF Freed
<1>4. t2 \in GhostArray
  <2>1. Unused \in GhostInfo
    BY DEF Unused, GhostInfo
  <2>2. \A g \in Ghost : t2.info[g] \in GhostInfo
    BY <1>2, <1>3, <2>1
  <2>3. t2.info \in [Ghost -> GhostInfo]
    BY <1>3, <2>2
  <2>. QED
    BY <1>3, <2>3 DEF GhostArray
<1>5. InfoInv(t2) /\ StatesInv(t2, d2, free2, w2) /\ Dormant(t2, w2)
  BY <1>3 DEF InfoInv, StatesInv, Dormant
<1>6. GhostsInv(t2, w2)
  BY <1>3 DEF GhostsInv, Absent
<1>. QED
  BY <1>3, <1>4, <1>5, <1>6 DEF TableInv

(* resetGhosting keeps the invariant: the end it posts is one that the     *)
(* initiator has not been told of.                                         *)
LEMMA ResetStep ==
  ASSUME IInv, resetGhosting PROVE IInv'
<1>. DEFINE rpc == [type |-> "rpcEndGhosting", sequence |-> 0]
            n == Len(rpcs)
<1>1. /\ mGhosting' = FALSE /\ mScoping' = FALSE
      /\ mGhostingSequence' = mGhostingSequence + 1
      /\ Post(rpc)
      /\ notes' = NotesCleared
      /\ mGhostArray' = Freed(mGhostArray, mGhostArray.inUse)
      /\ UNCHANGED <<chanVars, mDirtyMaskBits, clientVars, exists, scope, mScopeObject, cleared>>
      /\ calls' = calls + 1
  BY DEF resetGhosting, Call
<1>2. TypeOK /\ mGhostingSequence \in Nat /\ rpcs \in Seq(Rpc) /\ n \in Nat /\ notes \in Seq(Note)
  BY DEF IInv, TypeOK
<1>3. rpc \in Rpc
  BY DEF Rpc
<1>4. rpc.type = "rpcEndGhosting"
  OBVIOUS
<1>. HIDE DEF rpc, n
<1>5. /\ rpcs' \in Seq(Rpc) /\ Len(rpcs') = n + 1
      /\ DOMAIN rpcs' = 1 .. n + 1 /\ DOMAIN rpcs = 1 .. n
      /\ rpcs'[n + 1] = rpc
      /\ \A r \in 1 .. n : rpcs'[r] = rpcs[r]
      /\ rpcQueue' \subseteq DOMAIN rpcs'
  BY <1>1, <1>2, <1>3, Posted DEF n
<1>6. /\ notes' \in Seq(Note) /\ DOMAIN notes' = DOMAIN notes /\ Len(notes') = Len(notes)
      /\ \A i \in DOMAIN notes : /\ ~notes'[i].listed
                                 /\ notes'[i].rpcs = notes[i].rpcs
                                 /\ notes'[i].updates = notes[i].updates
  <2>1. \A i \in DOMAIN notes : notes[i] \in Note
    BY <1>2
  <2>2. notes' = [i \in DOMAIN notes |-> [notes[i] EXCEPT !.listed = FALSE]]
    BY <1>1 DEF NotesCleared
  <2>3. \A i \in DOMAIN notes : notes'[i] = [notes[i] EXCEPT !.listed = FALSE]
    BY <2>2
  <2>4. \A i \in DOMAIN notes : notes'[i] \in Note
    BY <2>1, <2>3 DEF Note
  <2>5. DOMAIN notes = 1 .. Len(notes) /\ Len(notes) \in Nat
    BY <1>2
  <2>6. notes' \in Seq(Note) /\ Len(notes') = Len(notes) /\ DOMAIN notes' = DOMAIN notes
    BY <2>2, <2>4, <2>5
  <2>. QED
    BY <2>1, <2>3, <2>6 DEF Note
<1>7. /\ Pos(Link') = Pos(Link) /\ Link'.notes = notes' /\ Link.notes = notes
      /\ Link'.ghosts = Link.ghosts /\ Link'.waiting = Link.waiting
      /\ Link'.arr = Link.arr /\ Link'.rd = Link.rd
      /\ Link.waiting = rpcWaiting /\ Pos(Link) = DOMAIN notes
  <2>1. /\ Link'.arr = {i \in DOMAIN notes' : notified'[Server] + i \in arrived'[Server]}
        /\ Link'.rd = {i \in DOMAIN notes' : \A m \in arrived'[Server] : m < notified'[Server] + i}
        /\ Link.arr = {i \in DOMAIN notes : notified[Server] + i \in arrived[Server]}
        /\ Link.rd = {i \in DOMAIN notes : \A m \in arrived[Server] : m < notified[Server] + i}
    BY DEF Link
  <2>2. notified' = notified /\ arrived' = arrived
    BY <1>1 DEF chanVars
  <2>3. Link'.arr = Link.arr /\ Link'.rd = Link.rd
    BY <1>6, <2>1, <2>2
  <2>. QED
    BY <1>1, <1>6, <2>3 DEF Link, Pos, clientVars
<1>8. Link'.ends = Link.ends \union {n + 1}
  <2>1. rpcDone' = rpcDone /\ rpcDone \in 0 .. n
    BY <1>1 DEF IInv, TypeOK, clientVars, n
  <2>2. {r \in rpcDone + 1 .. n + 1 : rpcs'[r].type = "rpcEndGhosting"}
          = {r \in rpcDone + 1 .. n : rpcs[r].type = "rpcEndGhosting"} \union {n + 1}
    <3>1. rpcs'[n + 1].type = "rpcEndGhosting" /\ n + 1 \in rpcDone + 1 .. n + 1
      BY <1>2, <1>4, <1>5, <2>1
    <3>2. \A r \in rpcDone + 1 .. n + 1 : r = n + 1 \/ r \in rpcDone + 1 .. n
      BY <1>2, <2>1
    <3>3. \A r \in rpcDone + 1 .. n : r \in rpcDone + 1 .. n + 1 /\ rpcs'[r] = rpcs[r]
      BY <1>2, <1>5, <2>1
    <3>. QED
      BY <3>1, <3>2, <3>3
  <2>3. Link'.ends = {r \in rpcDone' + 1 .. Len(rpcs') : rpcs'[r].type = "rpcEndGhosting"}
    BY DEF Link
  <2>4. Link.ends = {r \in rpcDone + 1 .. Len(rpcs) : rpcs[r].type = "rpcEndGhosting"}
    BY DEF Link
  <2>. QED
    BY <1>5, <2>1, <2>2, <2>3, <2>4 DEF n
<1>9. n + 1 \notin DOMAIN rpcs
  BY <1>2, <1>5
<1>10. LinkInv(Link') /\ \A i \in Pos(Link') : List(Link', i) = {}
  <2>1. LinkType(Link) /\ LinkInv(Link)
    BY <1>2, LinkTyped DEF IInv
  <2>2. n + 1 \notin Link.waiting /\ \A i \in Pos(Link) : n + 1 \notin Link.notes[i].rpcs
    BY <1>2, <1>7, <1>9 DEF TypeOK
  <2>3. \A i \in Pos(Link) : /\ ~Link'.notes[i].listed
                             /\ Link'.notes[i].rpcs = Link.notes[i].rpcs
                             /\ Link'.notes[i].updates = Link.notes[i].updates
    BY <1>6, <1>7
  <2>. QED
    BY <1>7, <1>8, <2>1, <2>2, <2>3, ResetLink
<1>11. TableInv(mGhostArray', mDirtyMaskBits', cleared', Link') /\ Dormant(mGhostArray', Link')
  <2>1. Link'.ends # {}
    BY <1>8
  <2>. QED
    BY <1>1, <1>10, <2>1, IInvTable, FreedAll
<1>12. StartsRight'
  <2>. SUFFICES ASSUME NEW r \in 1 .. n + 1, rpcs'[r].type = "rpcStartGhosting"
                PROVE  rpcs'[r].sequence <= mGhostingSequence + 1
                       /\ rpcs'[r].sequence # mGhostingSequence + 1
    BY <1>1, <1>5 DEF StartsRight
  <2>1. r \in 1 .. n
    <3>1. r # n + 1
      BY <1>4, <1>5
    <3>. QED
      BY <1>2, <3>1
  <2>2. rpcs[r].type = "rpcStartGhosting" /\ rpcs'[r] = rpcs[r]
    BY <1>5, <2>1
  <2>3. rpcs[r].sequence <= mGhostingSequence
    BY <1>5, <2>1, <2>2 DEF IInv, StartsRight
  <2>4. rpcs[r].sequence \in Nat
    <3>1. rpcs[r] \in Rpc
      BY <1>2, <2>1 DEF n
    <3>. QED
      BY <3>1 DEF Rpc
  <2>. QED
    BY <1>2, <2>2, <2>3, <2>4
<1>13. TypeOK'
  <2>1. mGhostingSequence' \in Nat /\ calls' \in Nat
    BY <1>1 DEF IInv, TypeOK
  <2>2. DOMAIN rpcs \subseteq DOMAIN rpcs'
    BY <1>2, <1>5
  <2>3. 0 .. Len(rpcs) \subseteq 0 .. Len(rpcs')
    BY <1>2, <1>5 DEF n
  <2>4. \A i \in DOMAIN notes' : notes'[i].rpcs \subseteq DOMAIN rpcs'
    BY <1>2, <1>6, <2>2 DEF TypeOK
  <2>5. rpcWaiting \subseteq DOMAIN rpcs' /\ rpcDone \in 0 .. Len(rpcs')
    BY <1>2, <2>2, <2>3 DEF TypeOK
  <2>6. mScoping' \in BOOLEAN /\ mGhosting' \in BOOLEAN
    BY <1>1
  <2>7. mGhostArray' \in GhostArray /\ mGhostArray'.updating \subseteq mGhostArray'.inUse
    BY <1>11 DEF TableInv
  <2>8. /\ UNCHANGED <<chanVars, mDirtyMaskBits, clientVars, exists, scope, mScopeObject, cleared>>
        /\ notes' \in Seq(Note) /\ Len(notes') = Len(notes)
        /\ rpcs' \in Seq(Rpc) /\ rpcQueue' \subseteq DOMAIN rpcs'
    BY <1>1, <1>5, <1>6
  <2>. QED
    BY <1>2, <2>1, <2>4, <2>5, <2>6, <2>7, <2>8
       DEF TypeOK, ChanTypeOK, chanVars, clientVars
<1>14. ChannelInv'
  BY <1>1 DEF IInv, ChannelInv, chanVars
<1>. QED
  BY <1>1, <1>10, <1>11, <1>12, <1>13, <1>14 DEF IInv

(* The object of a ghost is the object of all its updates.                 *)
LEMMA ObjectOfUpdates ==
  ASSUME NEW t, NEW w, GhostsInv(t, w), InfoInv(t), NotesInv(w),
         NEW g \in t.inUse, t.info[g].obj # NoObject,
         NEW i \in Pos(w), NEW u \in List(w, i), u.ghost = g
  PROVE  /\ u.obj = t.info[g].obj
         /\ "NotYetGhosted" \notin t.info[g].flags
         /\ "KillingGhost" \notin t.info[g].flags
         /\ u.kind # "KillingGhost"
<1>. DEFINE o == t.info[g].obj
<1>1. "KillingGhost" \notin t.info[g].flags
  BY DEF InfoInv
<1>2. "NotYetGhosted" \notin t.info[g].flags
  BY DEF GhostsInv, Absent
<1>3. CASE "Ghosting" \in t.info[g].flags
  <2>1. Creating(w, g, o)
    BY <1>3 DEF GhostsInv
  <2>2. PICK k \in Pos(w) : \E x \in List(w, k) :
          /\ x.ghost = g /\ x.kind = "Ghosting" /\ x.obj = o
          /\ \A j \in Pos(w) : \A v \in List(w, j) : v.ghost = g => j = k
    BY <2>1 DEF Creating
  <2>3. PICK x \in List(w, k) :
          /\ x.ghost = g /\ x.kind = "Ghosting" /\ x.obj = o
          /\ \A j \in Pos(w) : \A v \in List(w, j) : v.ghost = g => j = k
    BY <2>2
  <2>4. i = k
    BY <2>3
  <2>5. u \in Updates(w, k) /\ x \in Updates(w, k)
    BY <2>3, <2>4, ListIsUpdates
  <2>6. u = x
    BY <2>3, <2>5 DEF NotesInv
  <2>. QED
    BY <1>1, <1>2, <2>3, <2>6
<1>4. CASE "Ghosting" \notin t.info[g].flags
  <2>1. Present(w, g, o)
    BY <1>1, <1>2, <1>4 DEF GhostsInv
  <2>. QED
    BY <1>1, <1>2, <2>1 DEF Present
<1>. QED
  BY <1>3, <1>4

\* A state b of o changes: what has been sent of it is no longer current.
Aged(u, o, b) == IF u.obj = o THEN [u EXCEPT !.current = @ \ {b}] ELSE u

AgedAs(u, v, o, b) ==
  /\ v = Aged(u, o, b)
  /\ v.ghost = u.ghost /\ v.kind = u.kind /\ v.mask = u.mask /\ v.obj = u.obj
  /\ v.current = IF u.obj = o THEN u.current \ {b} ELSE u.current

Outdates(w, o, b, w2) ==
  /\ Pos(w2) = Pos(w)
  /\ \A i \in Pos(w) : /\ w2.notes[i].listed = w.notes[i].listed
                       /\ w2.notes[i].rpcs = w.notes[i].rpcs
                       /\ w2.notes[i].updates = {Aged(u, o, b) : u \in w.notes[i].updates}
  /\ \A g \in Ghost :
       /\ w2.ghosts[g].of = w.ghosts[g].of
       /\ w2.ghosts[g].current = IF w.ghosts[g].of = o THEN w.ghosts[g].current \ {b}
                                                       ELSE w.ghosts[g].current
       /\ w2.ghosts[g] = NoGhost <=> w.ghosts[g] = NoGhost
  /\ w2.arr = w.arr /\ w2.rd = w.rd /\ w2.ends = w.ends /\ w2.waiting = w.waiting

(* What becomes of an update when a state of an object changes.            *)
LEMMA AgedFields == ASSUME NEW u \in Update, NEW o, NEW b
  PROVE  AgedAs(u, Aged(u, o, b), o, b) /\ Aged(u, o, b) \in Update
<1>1. CASE u.obj = o
  <2>1. Aged(u, o, b) = [u EXCEPT !.current = @ \ {b}]
    BY <1>1 DEF Aged
  <2>2. u.current \subseteq Bit
    BY DEF Update
  <2>. QED
    BY <1>1, <2>1, <2>2 DEF Update, AgedAs
<1>2. CASE u.obj # o
  BY <1>2 DEF Aged, AgedAs
<1>. QED
  BY <1>1, <1>2

(* The fields of an update.                                                *)
LEMMA UpdatesTyped ==
  ASSUME NEW w, LinkType(w), NEW i \in Pos(w), NEW u \in Updates(w, i)
  PROVE  /\ u \in Update /\ u.ghost \in Ghost /\ u.kind \in {"Ghosting", "Update", "KillingGhost"}
         /\ u.mask \subseteq Bit /\ u.current \subseteq Bit
<1>1. w.notes \in Seq(Note) /\ i \in DOMAIN w.notes
  BY DEF LinkType, Pos
<1>2. w.notes[i] \in Note
  BY <1>1
<1>3. u \in Update
  BY <1>2 DEF Updates, Note
<1>. QED
  BY <1>3 DEF Update

(* What becomes of the list of a note.                                     *)
LEMMA OutdatedLists ==
  ASSUME NEW w, LinkType(w), NEW o, NEW b, NEW w2, Outdates(w, o, b, w2), NEW i \in Pos(w)
  PROVE  /\ \A v \in Updates(w2, i) : \E u \in Updates(w, i) : AgedAs(u, v, o, b)
         /\ \A u \in Updates(w, i) : \E v \in Updates(w2, i) : AgedAs(u, v, o, b)
         /\ \A v \in List(w2, i) : \E u \in List(w, i) : AgedAs(u, v, o, b)
         /\ \A u \in List(w, i) : \E v \in List(w2, i) : AgedAs(u, v, o, b)
<1>1. Updates(w2, i) = {Aged(u, o, b) : u \in Updates(w, i)}
  BY DEF Outdates, Updates
<1>2. \A u \in Updates(w, i) : AgedAs(u, Aged(u, o, b), o, b)
  BY UpdatesTyped, AgedFields
<1>3. w2.notes[i].listed = w.notes[i].listed
  BY DEF Outdates
<1>4. List(w2, i) = IF w.notes[i].listed THEN Updates(w2, i) ELSE {}
  BY <1>3 DEF List, Updates
<1>5. List(w, i) = IF w.notes[i].listed THEN Updates(w, i) ELSE {}
  BY DEF List, Updates
<1>6. \A v \in Updates(w2, i) : \E u \in Updates(w, i) : AgedAs(u, v, o, b)
  BY <1>1, <1>2
<1>7. \A u \in Updates(w, i) : \E v \in Updates(w2, i) : AgedAs(u, v, o, b)
  BY <1>1, <1>2
<1>. QED
  BY <1>4, <1>5, <1>6, <1>7

(* A state that is no longer current in one packet is so in none, nor at   *)
(* the initiator.                                                          *)
LEMMA OutdatedLink ==
  ASSUME NEW w, LinkType(w), LinkInv(w), NEW o, o # NoObject, NEW b,
         NEW w2, Outdates(w, o, b, w2)
  PROVE  LinkInv(w2)
<1>1. ASSUME NEW i \in Pos(w), NEW v \in Updates(w2, i)
      PROVE  \E u \in Updates(w, i) : AgedAs(u, v, o, b)
  BY OutdatedLists
<1>2. ASSUME NEW i \in Pos(w), NEW v \in List(w2, i)
      PROVE  \E u \in List(w, i) : AgedAs(u, v, o, b)
  BY OutdatedLists
<1>3. /\ Pos(w2) = Pos(w)
      /\ \A i \in Pos(w) : w2.notes[i].listed = w.notes[i].listed /\ w2.notes[i].rpcs = w.notes[i].rpcs
      /\ w2.arr = w.arr /\ w2.rd = w.rd /\ w2.ends = w.ends /\ w2.waiting = w.waiting
  BY DEF Outdates
<1>4. \A g \in Ghost :
       /\ w2.ghosts[g].of = w.ghosts[g].of
       /\ w2.ghosts[g].current = IF w.ghosts[g].of = o THEN w.ghosts[g].current \ {b}
                                                       ELSE w.ghosts[g].current
       /\ w2.ghosts[g] = NoGhost <=> w.ghosts[g] = NoGhost
  BY DEF Outdates
<1>5. w.rd \subseteq Pos(w)
  BY DEF LinkType
<1>6. \A i \in Pos(w) : Updates(w, i) = {} => Updates(w2, i) = {}
  BY <1>1
<1>7. NotesInv(w2)
  <2>. SUFFICES ASSUME NEW i \in Pos(w), NEW u2 \in Updates(w2, i)
                PROVE  /\ \A v2 \in Updates(w2, i) : u2.ghost = v2.ghost => u2 = v2
                       /\ u2.kind # "KillingGhost" => u2.obj # NoObject
                       /\ u2.obj = NoObject => u2.current = {}
                       /\ u2.current \subseteq u2.mask
    BY <1>3 DEF NotesInv
  <2>1. PICK u \in Updates(w, i) : AgedAs(u, u2, o, b)
    BY <1>1
  <2>2. /\ \A v \in Updates(w, i) : u.ghost = v.ghost => u = v
        /\ u.kind # "KillingGhost" => u.obj # NoObject
        /\ u.obj = NoObject => u.current = {}
        /\ u.current \subseteq u.mask
    BY DEF LinkInv, NotesInv
  <2>3. ASSUME NEW v2 \in Updates(w2, i), u2.ghost = v2.ghost PROVE u2 = v2
    <3>1. PICK v \in Updates(w, i) : AgedAs(v, v2, o, b)
      BY <1>1
    <3>2. u.ghost = v.ghost
      BY <2>1, <2>3, <3>1 DEF AgedAs
    <3>3. u = v
      BY <2>2, <3>2
    <3>. QED
      BY <2>1, <3>1, <3>3 DEF AgedAs
  <2>. QED
    BY <2>1, <2>2, <2>3 DEF AgedAs
<1>8. EndsInv(w2)
  <2>1. ASSUME NEW r \in w2.ends
        PROVE  /\ \A i \in Pos(w2) : r \in w2.notes[i].rpcs =>
                    \A j \in Pos(w2) : i <= j => Updates(w2, j) = {}
               /\ r \in w2.waiting => \A j \in w2.rd : Updates(w2, j) = {}
    BY <1>3, <1>5, <1>6 DEF LinkInv, EndsInv
  <2>2. w2.ends = {} => \A i \in w2.rd : ~w2.notes[i].listed => Updates(w2, i) = {}
    BY <1>3, <1>5, <1>6 DEF LinkInv, EndsInv
  <2>. QED
    BY <2>1, <2>2 DEF EndsInv
<1>9. ReadableInv(w2)
  <2>. SUFFICES ASSUME NEW i \in w.rd, NEW u2 \in Updates(w2, i)
                PROVE  /\ u2.kind = "Ghosting" <=> w2.ghosts[u2.ghost] = NoGhost
                       /\ u2.kind = "Update" => w2.ghosts[u2.ghost].of = u2.obj
                       /\ u2.kind # "Update" => \A j \in w.rd : i < j =>
                            \A v2 \in Updates(w2, j) : v2.ghost # u2.ghost
    BY <1>3 DEF ReadableInv
  <2>1. PICK u \in Updates(w, i) : AgedAs(u, u2, o, b)
    BY <1>1, <1>5
  <2>2. u.ghost \in Ghost
    BY <1>5, UpdatesTyped
  <2>3. /\ u.kind = "Ghosting" <=> w.ghosts[u.ghost] = NoGhost
        /\ u.kind = "Update" => w.ghosts[u.ghost].of = u.obj
        /\ u.kind # "Update" =>
             \A j \in w.rd : i < j => \A v \in Updates(w, j) : v.ghost # u.ghost
    BY DEF LinkInv, ReadableInv
  <2>4. u2.ghost = u.ghost /\ u2.kind = u.kind /\ u2.obj = u.obj
    BY <2>1 DEF AgedAs
  <2>5. ASSUME u2.kind # "Update", NEW j \in w.rd, i < j, NEW v2 \in Updates(w2, j)
        PROVE  v2.ghost # u2.ghost
    <3>1. PICK v \in Updates(w, j) : AgedAs(v, v2, o, b)
      BY <1>1, <1>5
    <3>2. v2.ghost = v.ghost
      BY <3>1 DEF AgedAs
    <3>. QED
      BY <2>3, <2>4, <2>5, <3>2
  <2>. QED
    BY <1>4, <2>2, <2>3, <2>4, <2>5
<1>10. CurrentInv(w2)
  <2>1. \A g \in Ghost : w2.ghosts[g] = NoGhost \/ w2.ghosts[g].of # NoObject
    BY <1>4 DEF LinkInv, CurrentInv
  <2>2. ASSUME NEW i \in Pos(w), NEW u2 \in List(w2, i), NEW j \in Pos(w), NEW v2 \in List(w2, j),
               i < j, u2.ghost = v2.ghost, u2.obj = v2.obj
        PROVE  u2.current \intersect v2.mask \subseteq v2.current
    <3>1. PICK u \in List(w, i) : AgedAs(u, u2, o, b)
      BY <1>2
    <3>2. PICK v \in List(w, j) : AgedAs(v, v2, o, b)
      BY <1>2
    <3>3. u.ghost = v.ghost /\ u.obj = v.obj
      BY <2>2, <3>1, <3>2 DEF AgedAs
    <3>4. u.current \intersect v.mask \subseteq v.current
      BY <2>2, <3>3 DEF LinkInv, CurrentInv
    <3>. QED
      BY <3>1, <3>2, <3>3, <3>4 DEF AgedAs
  <2>3. ASSUME NEW i \in Pos(w), NEW u2 \in List(w2, i), w2.ghosts[u2.ghost].of = u2.obj
        PROVE  /\ i \in w.arr => u2.current \subseteq w2.ghosts[u2.ghost].current
               /\ i \in w.rd => w2.ghosts[u2.ghost].current \intersect u2.mask \subseteq u2.current
    <3>1. PICK u \in List(w, i) : AgedAs(u, u2, o, b)
      BY <1>2
    <3>2. u \in Updates(w, i)
      BY <3>1, ListIsUpdates
    <3>3. u.ghost \in Ghost
      BY <3>2, UpdatesTyped
    <3>4. /\ u2.ghost = u.ghost /\ u2.obj = u.obj /\ u2.mask = u.mask
          /\ u2.current = IF u.obj = o THEN u.current \ {b} ELSE u.current
      BY <3>1 DEF AgedAs
    <3>5. w.ghosts[u.ghost].of = u.obj
      BY <1>4, <2>3, <3>3, <3>4
    <3>6. /\ i \in w.arr => u.current \subseteq w.ghosts[u.ghost].current
          /\ i \in w.rd => w.ghosts[u.ghost].current \intersect u.mask \subseteq u.current
      BY <3>1, <3>5 DEF LinkInv, CurrentInv
    <3>. QED
      BY <1>4, <3>3, <3>4, <3>5, <3>6
  <2>. QED
    BY <1>3, <2>1, <2>2, <2>3 DEF CurrentInv
<1>. QED
  BY <1>7, <1>8, <1>9, <1>10 DEF LinkInv

\* What is dirty, and what need not be sent, after a change of b of o.
Dirtied(d, o, b) == [d EXCEPT ![o] = @ \union {b}]
NoLonger(free, o, b) == free \ {<<o, b>>}

(* The state that has changed is dirty, all others are remembered as       *)
(* before.                                                                 *)
LEMMA OutdatedTable ==
  ASSUME NEW t, NEW d \in [Object -> SUBSET Bit], NEW free, NEW w,
         TableInv(t, d, free, w), LinkType(w), LinkInv(w),
         NEW o \in Object, NEW b, NEW w2, Outdates(w, o, b, w2),
         NEW d2, d2 = Dirtied(d, o, b), NEW free2, free2 = NoLonger(free, o, b)
  PROVE  TableInv(t, d2, free2, w2) /\ (Dormant(t, w) => Dormant(t, w2))
<1>1. ASSUME NEW i \in Pos(w), NEW v \in List(w2, i)
      PROVE  \E u \in List(w, i) : AgedAs(u, v, o, b)
  BY OutdatedLists
<1>2. ASSUME NEW i \in Pos(w), NEW u \in List(w, i)
      PROVE  \E v \in List(w2, i) : AgedAs(u, v, o, b)
  BY OutdatedLists
<1>3. Pos(w2) = Pos(w) /\ w2.arr = w.arr /\ w2.ends = w.ends
  BY DEF Outdates
<1>4. \A g \in Ghost :
       /\ w2.ghosts[g].of = w.ghosts[g].of
       /\ w2.ghosts[g].current = IF w.ghosts[g].of = o THEN w.ghosts[g].current \ {b}
                                                       ELSE w.ghosts[g].current
       /\ w2.ghosts[g] = NoGhost <=> w.ghosts[g] = NoGhost
  BY DEF Outdates
<1>5. /\ t \in GhostArray /\ InfoInv(t) /\ GhostsInv(t, w) /\ StatesInv(t, d, free, w)
      /\ t.inUse \subseteq Ghost
  BY ArrayFields DEF TableInv
<1>6. ASSUME NEW i \in Pos(w), NEW v \in List(w2, i)
      PROVE  \E u \in List(w, i) : u.ghost = v.ghost /\ u.kind = v.kind /\ u.obj = v.obj
  BY <1>1 DEF AgedAs
<1>7. ASSUME NEW i \in Pos(w), NEW u \in List(w, i)
      PROVE  \E v \in List(w2, i) : v.ghost = u.ghost /\ v.kind = u.kind /\ v.obj = u.obj
  BY <1>2 DEF AgedAs
<1>8. ASSUME NEW g \in Ghost, Absent(w, g) PROVE Absent(w2, g)
  <2>1. \A i \in Pos(w) : \A u \in List(w, i) : u.ghost # g
    BY <1>8 DEF Absent
  <2>2. ASSUME NEW i \in Pos(w2), NEW v \in List(w2, i) PROVE v.ghost # g
    <3>1. PICK u \in List(w, i) : u.ghost = v.ghost /\ u.kind = v.kind /\ u.obj = v.obj
      BY <1>3, <1>6
    <3>. QED
      BY <1>3, <2>1, <3>1
  <2>3. w2.ends = {} => w2.ghosts[g] = NoGhost
    BY <1>3, <1>4, <1>8 DEF Absent
  <2>. QED
    BY <2>2, <2>3 DEF Absent
<1>9. ASSUME NEW g \in Ghost, NEW x, Present(w, g, x) PROVE Present(w2, g, x)
  <2>1. /\ w.ghosts[g] # NoGhost /\ (x # NoObject => w.ghosts[g].of = x)
        /\ \A i \in Pos(w) : \A u \in List(w, i) :
             u.ghost = g => u.kind = "Update" /\ u.obj = w.ghosts[g].of
    BY <1>9 DEF Present
  <2>2. ASSUME NEW i \in Pos(w2), NEW v \in List(w2, i), v.ghost = g
        PROVE  v.kind = "Update" /\ v.obj = w2.ghosts[g].of
    <3>1. PICK u \in List(w, i) : u.ghost = v.ghost /\ u.kind = v.kind /\ u.obj = v.obj
      BY <1>3, <1>6
    <3>. QED
      BY <1>3, <1>4, <2>1, <2>2, <3>1
  <2>. QED
    BY <1>4, <2>1, <2>2 DEF Present
<1>10. ASSUME NEW g \in Ghost, NEW x, Creating(w, g, x) PROVE Creating(w2, g, x)
  <2>0. PICK i \in Pos(w) : \E u \in List(w, i) :
          /\ u.ghost = g /\ u.kind = "Ghosting" /\ (x # NoObject => u.obj = x)
          /\ \A j \in Pos(w) : \A v \in List(w, j) : v.ghost = g => j = i
          /\ i \in w.arr => w.ghosts[g].of = u.obj
          /\ i \notin w.arr => w.ghosts[g] = NoGhost
    BY <1>10 DEF Creating
  <2>1. PICK u \in List(w, i) :
          /\ u.ghost = g /\ u.kind = "Ghosting" /\ (x # NoObject => u.obj = x)
          /\ \A j \in Pos(w) : \A v \in List(w, j) : v.ghost = g => j = i
          /\ i \in w.arr => w.ghosts[g].of = u.obj
          /\ i \notin w.arr => w.ghosts[g] = NoGhost
    BY <2>0
  <2>2. PICK v \in List(w2, i) : v.ghost = u.ghost /\ v.kind = u.kind /\ v.obj = u.obj
    BY <1>7, <2>1
  <2>3. \A j \in Pos(w2) : \A y \in List(w2, j) : y.ghost = g => j = i
    BY <1>3, <1>6, <2>1
  <2>. QED
    BY <1>3, <1>4, <2>1, <2>2, <2>3 DEF Creating
<1>11. ASSUME NEW g \in Ghost, Removing(w, g) PROVE Removing(w2, g)
  <2>0. PICK i \in Pos(w) : \E u \in List(w, i) :
          /\ u.ghost = g /\ u.kind = "KillingGhost"
          /\ \A j \in Pos(w) : \A v \in List(w, j) :
               v.ghost = g => j <= i /\ (j < i => v.kind = "Update")
          /\ i \in w.arr <=> w.ghosts[g] = NoGhost
    BY <1>11 DEF Removing
  <2>1. PICK u \in List(w, i) :
          /\ u.ghost = g /\ u.kind = "KillingGhost"
          /\ \A j \in Pos(w) : \A v \in List(w, j) :
               v.ghost = g => j <= i /\ (j < i => v.kind = "Update")
          /\ i \in w.arr <=> w.ghosts[g] = NoGhost
    BY <2>0
  <2>2. PICK v \in List(w2, i) : v.ghost = u.ghost /\ v.kind = u.kind /\ v.obj = u.obj
    BY <1>7, <2>1
  <2>3. ASSUME NEW j \in Pos(w2), NEW y \in List(w2, j), y.ghost = g
        PROVE  j <= i /\ (j < i => y.kind = "Update")
    <3>1. PICK x \in List(w, j) : x.ghost = y.ghost /\ x.kind = y.kind /\ x.obj = y.obj
      BY <1>3, <1>6
    <3>. QED
      BY <1>3, <2>1, <2>3, <3>1
  <2>. QED
    BY <1>3, <1>4, <2>1, <2>2, <2>3 DEF Removing
<1>12. GhostsInv(t, w2)
  <2>1. \A g \in Ghost \ t.inUse : Absent(w2, g)
    BY <1>5, <1>8 DEF GhostsInv
  <2>2. ASSUME NEW g \in t.inUse
        PROVE  /\ "NotYetGhosted" \in t.info[g].flags => Absent(w2, g)
               /\ "Ghosting" \in t.info[g].flags => Creating(w2, g, t.info[g].obj)
               /\ "KillingGhost" \in t.info[g].flags => Removing(w2, g)
               /\ t.info[g].flags \intersect {"NotYetGhosted", "Ghosting", "KillingGhost"} = {} =>
                    Present(w2, g, t.info[g].obj)
    BY <1>5, <1>8, <1>9, <1>10, <1>11 DEF GhostsInv
  <2>. QED
    BY <2>1, <2>2 DEF GhostsInv
<1>13. StatesInv(t, d2, free2, w2)
  <2>. SUFFICES ASSUME NEW g \in t.inUse, t.info[g].obj # NoObject, NEW bit \in Bit
                PROVE  \/ ToBeSent(t, d2, free2, g, t.info[g].obj, bit)
                       \/ /\ "NotYetGhosted" \notin t.info[g].flags
                          /\ Remembered(w2, g, t.info[g].obj, bit)
    BY DEF StatesInv
  <2>. DEFINE x == t.info[g].obj
  <2>1. x \in Object
    BY <1>5 DEF GhostArray, GhostInfo
  <2>2. \/ ToBeSent(t, d, free, g, x, bit)
        \/ "NotYetGhosted" \notin t.info[g].flags /\ Remembered(w, g, x, bit)
    BY <1>5 DEF StatesInv
  <2>3. CASE x = o /\ bit = b
    <3>1. bit \in d2[x]
      BY <2>1, <2>3 DEF Dirtied
    <3>. QED
      BY <3>1 DEF ToBeSent
  <2>4. CASE ~(x = o /\ bit = b) /\ ToBeSent(t, d, free, g, x, bit)
    <3>1. bit \in d[x] => bit \in d2[x]
      BY <2>1 DEF Dirtied
    <3>2. <<x, bit>> \in free => <<x, bit>> \in free2
      BY <2>4 DEF NoLonger
    <3>. QED
      BY <2>4, <3>1, <3>2 DEF ToBeSent
  <2>5. CASE /\ ~(x = o /\ bit = b)
             /\ "NotYetGhosted" \notin t.info[g].flags /\ Remembered(w, g, x, bit)
    <3>1. CASE w.ghosts[g].of = x /\ bit \in w.ghosts[g].current
      <4>1. w2.ghosts[g].of = x /\ bit \in w2.ghosts[g].current
        BY <1>4, <1>5, <2>5, <3>1
      <4>. QED
        BY <2>2, <2>5, <4>1 DEF Remembered
    <3>2. CASE \E i \in Pos(w) : \E u \in List(w, i) :
                 u.ghost = g /\ bit \in u.current /\ i \notin w.arr
      <4>0. PICK i \in Pos(w) : \E u \in List(w, i) :
                 u.ghost = g /\ bit \in u.current /\ i \notin w.arr
        BY <3>2
      <4>1. PICK u \in List(w, i) : u.ghost = g /\ bit \in u.current /\ i \notin w.arr
        BY <4>0
      <4>2. u.obj = x
        BY <1>5, <4>1, ObjectOfUpdates DEF LinkInv
      <4>3. PICK v \in List(w2, i) : AgedAs(u, v, o, b)
        BY <1>2, <4>1
      <4>4. v.ghost = g /\ bit \in v.current
        BY <2>5, <4>1, <4>2, <4>3 DEF AgedAs
      <4>. QED
        BY <1>3, <2>2, <2>5, <4>1, <4>3, <4>4 DEF Remembered
    <3>. QED
      BY <2>5, <3>1, <3>2 DEF Remembered
  <2>. QED
    BY <2>2, <2>3, <2>4, <2>5
<1>14. Dormant(t, w) => Dormant(t, w2)
  BY <1>1, <1>3 DEF Dormant
<1>. QED
  BY <1>12, <1>13, <1>14 DEF TableInv

(* What Outdated does to the packets and to the ghosts of the initiator.   *)
LEMMA OutdatedNotes ==
  ASSUME TypeOK, NEW o \in Object, NEW b \in Bit, Outdated(o, {b}),
         UNCHANGED <<chanVars, rpcs, rpcWaiting, rpcDone>>
  PROVE  /\ Outdates(Link, o, b, Link')
         /\ notes' \in Seq(Note) /\ Len(notes') = Len(notes) /\ DOMAIN notes' = DOMAIN notes
         /\ \A i \in DOMAIN notes : notes'[i].rpcs = notes[i].rpcs
         /\ mLocalGhosts' \in [Ghost -> LocalGhost]
<1>1. notes \in Seq(Note) /\ mLocalGhosts \in [Ghost -> LocalGhost] /\ LinkType(Link)
  BY LinkTyped DEF TypeOK
<1>2. /\ notes' = [i \in DOMAIN notes |-> [notes[i] EXCEPT !.updates =
            {IF u.obj = o THEN [u EXCEPT !.current = @ \ {b}] ELSE u : u \in notes[i].updates}]]
      /\ mLocalGhosts' = [g \in Ghost |->
           IF mLocalGhosts[g].of = o
             THEN [mLocalGhosts[g] EXCEPT !.current = @ \ {b}] ELSE mLocalGhosts[g]]
  BY DEF Outdated
<1>3. /\ Link.notes = notes /\ Link'.notes = notes' /\ Pos(Link) = DOMAIN notes
      /\ Pos(Link') = DOMAIN notes'
      /\ Link.ghosts = mLocalGhosts /\ Link'.ghosts = mLocalGhosts'
  BY DEF Link, Pos
<1>4. DOMAIN notes' = DOMAIN notes
  BY <1>2
<1>5. ASSUME NEW i \in DOMAIN notes
      PROVE  /\ notes'[i].listed = notes[i].listed /\ notes'[i].rpcs = notes[i].rpcs
             /\ notes'[i].updates = {Aged(u, o, b) : u \in notes[i].updates}
             /\ notes'[i] \in Note
  <2>1. notes[i] \in Note
    BY <1>1
  <2>2. {IF u.obj = o THEN [u EXCEPT !.current = @ \ {b}] ELSE u : u \in notes[i].updates}
          = {Aged(u, o, b) : u \in notes[i].updates}
    BY DEF Aged
  <2>3. notes'[i] = [notes[i] EXCEPT !.updates = {Aged(u, o, b) : u \in notes[i].updates}]
    BY <1>2, <2>2
  <2>4. {Aged(u, o, b) : u \in notes[i].updates} \subseteq Update
    <3>1. \A u \in notes[i].updates : u \in Update
      BY <2>1 DEF Note
    <3>2. \A u \in notes[i].updates : Aged(u, o, b) \in Update
      BY <3>1, AgedFields
    <3>. QED
      BY <3>2
  <2>. QED
    BY <2>1, <2>3, <2>4 DEF Note
<1>6. ASSUME NEW g \in Ghost
      PROVE  /\ mLocalGhosts'[g].of = mLocalGhosts[g].of
             /\ mLocalGhosts'[g].current = IF mLocalGhosts[g].of = o
                                             THEN mLocalGhosts[g].current \ {b}
                                             ELSE mLocalGhosts[g].current
             /\ mLocalGhosts'[g] = NoGhost <=> mLocalGhosts[g] = NoGhost
             /\ mLocalGhosts'[g] \in LocalGhost
  <2>1. mLocalGhosts[g] \in LocalGhost
    BY <1>1
  <2>2. CASE mLocalGhosts[g].of = o
    <3>1. mLocalGhosts'[g] = [mLocalGhosts[g] EXCEPT !.current = @ \ {b}]
      BY <1>2, <2>2
    <3>2. /\ mLocalGhosts'[g].of = o /\ mLocalGhosts'[g].current = mLocalGhosts[g].current \ {b}
          /\ mLocalGhosts'[g] \in LocalGhost
      BY <2>1, <2>2, <3>1 DEF LocalGhost
    <3>3. mLocalGhosts'[g] # NoGhost /\ mLocalGhosts[g] # NoGhost
      BY <2>2, <3>2, GhostConstants DEF NoGhost
    <3>. QED
      BY <2>2, <3>2, <3>3
  <2>3. CASE mLocalGhosts[g].of # o
    <3>1. mLocalGhosts'[g] = mLocalGhosts[g]
      BY <1>2, <2>3
    <3>. QED
      BY <2>1, <2>3, <3>1
  <2>. QED
    BY <2>2, <2>3
<1>7. notes' \in Seq(Note) /\ Len(notes') = Len(notes)
  <2>1. DOMAIN notes = 1 .. Len(notes) /\ Len(notes) \in Nat
    BY <1>1
  <2>2. notes' = [i \in 1 .. Len(notes) |-> notes'[i]]
    BY <1>2, <2>1
  <2>. QED
    BY <1>5, <2>1, <2>2
<1>8. mLocalGhosts' \in [Ghost -> LocalGhost]
  BY <1>2, <1>6
<1>9. Link'.arr = Link.arr /\ Link'.rd = Link.rd /\ Link'.ends = Link.ends /\ Link'.waiting = Link.waiting
  <2>1. notified' = notified /\ arrived' = arrived /\ rpcs' = rpcs /\ rpcDone' = rpcDone
        /\ rpcWaiting' = rpcWaiting
    BY DEF chanVars
  <2>2. /\ Link'.arr = {i \in DOMAIN notes' : notified'[Server] + i \in arrived'[Server]}
        /\ Link'.rd = {i \in DOMAIN notes' : \A m \in arrived'[Server] : m < notified'[Server] + i}
        /\ Link.arr = {i \in DOMAIN notes : notified[Server] + i \in arrived[Server]}
        /\ Link.rd = {i \in DOMAIN notes : \A m \in arrived[Server] : m < notified[Server] + i}
    BY DEF Link
  <2>3. Link'.arr = Link.arr /\ Link'.rd = Link.rd
    BY <1>4, <2>1, <2>2
  <2>. QED
    BY <2>1, <2>3 DEF Link
<1>10. Outdates(Link, o, b, Link')
  <2>1. Pos(Link') = Pos(Link)
    BY <1>3, <1>4
  <2>2. \A i \in Pos(Link) : /\ Link'.notes[i].listed = Link.notes[i].listed
                             /\ Link'.notes[i].rpcs = Link.notes[i].rpcs
                             /\ Link'.notes[i].updates = {Aged(u, o, b) : u \in Link.notes[i].updates}
    BY <1>3, <1>5
  <2>3. \A g \in Ghost :
          /\ Link'.ghosts[g].of = Link.ghosts[g].of
          /\ Link'.ghosts[g].current = IF Link.ghosts[g].of = o THEN Link.ghosts[g].current \ {b}
                                                                ELSE Link.ghosts[g].current
          /\ Link'.ghosts[g] = NoGhost <=> Link.ghosts[g] = NoGhost
    BY <1>3, <1>6
  <2>. QED
    BY <1>9, <2>1, <2>2, <2>3 DEF Outdates
<1>. QED
  BY <1>4, <1>5, <1>7, <1>8, <1>10

(* setMaskBits keeps the invariant.                                        *)
LEMMA SetMaskBits ==
  ASSUME IInv, NEW o \in Object, setMaskBits(o) PROVE IInv'
<1>1. PICK b \in Bit :
       /\ mDirtyMaskBits' = [mDirtyMaskBits EXCEPT ![o] = @ \union {b}]
       /\ Outdated(o, {b})
       /\ cleared' = cleared \ {<<o, b>>}
  BY DEF setMaskBits
<1>2. /\ UNCHANGED <<chanVars, mGhostArray, serverVars, rpcVars, rpcWaiting, rpcDone,
                     replied, exists, scope, mScopeObject>>
      /\ calls' = calls + 1
  BY DEF setMaskBits, Call
<1>3. TypeOK /\ LinkType(Link) /\ LinkInv(Link)
  BY LinkTyped DEF IInv
<1>4. /\ Outdates(Link, o, b, Link')
      /\ notes' \in Seq(Note) /\ Len(notes') = Len(notes) /\ DOMAIN notes' = DOMAIN notes
      /\ \A i \in DOMAIN notes : notes'[i].rpcs = notes[i].rpcs
      /\ mLocalGhosts' \in [Ghost -> LocalGhost]
  BY <1>1, <1>2, <1>3, OutdatedNotes DEF rpcVars
<1>5. LinkInv(Link')
  BY <1>3, <1>4, OutdatedLink, GhostConstants
<1>6. /\ TableInv(mGhostArray, mDirtyMaskBits', cleared', Link')
      /\ Dormant(mGhostArray, Link) => Dormant(mGhostArray, Link')
  <2>. DEFINE t == mGhostArray
              d == mDirtyMaskBits
              free == cleared
              w == Link
              d2 == mDirtyMaskBits'
              free2 == cleared'
              w2 == Link'
  <2>1. TableInv(t, d, free, w) /\ LinkType(w) /\ LinkInv(w) /\ Outdates(w, o, b, w2)
    BY <1>3, <1>4, IInvTable
  <2>2. d \in [Object -> SUBSET Bit] /\ d2 = Dirtied(d, o, b) /\ free2 = NoLonger(free, o, b)
    BY <1>1, IInvTable DEF Dirtied, NoLonger
  <2>. HIDE DEF t, d, free, w, d2, free2, w2
  <2>3. TableInv(t, d2, free2, w2) /\ (Dormant(t, w) => Dormant(t, w2))
    BY <2>1, <2>2, OutdatedTable
  <2>. QED
    BY <2>3 DEF t, w, d2, free2, w2
<1>7. TypeOK'
  <2>1. mDirtyMaskBits' \in [Object -> SUBSET Bit] /\ cleared' \subseteq Object \X Bit
    BY <1>1, <1>3 DEF TypeOK
  <2>2. calls' \in Nat
    BY <1>2, <1>3 DEF TypeOK
  <2>3. \A i \in DOMAIN notes' : notes'[i].rpcs \subseteq DOMAIN rpcs'
    BY <1>2, <1>3, <1>4 DEF TypeOK, rpcVars
  <2>. QED
    BY <1>2, <1>3, <1>4, <2>1, <2>2, <2>3 DEF TypeOK, ChanTypeOK, chanVars, serverVars, rpcVars
<1>8. ChannelInv' /\ StartsRight'
  BY <1>2 DEF IInv, ChannelInv, StartsRight, chanVars, serverVars, rpcVars
<1>9. Link'.ends = Link.ends
  BY <1>4 DEF Outdates
<1>. QED
  BY <1>2, <1>5, <1>6, <1>7, <1>8, <1>9 DEF IInv, serverVars

(* rpcReadyForNormalGhosts keeps the invariant: an answer with the         *)
(* sequence of the session comes after all ends have been executed.        *)
LEMMA ReadyStep ==
  ASSUME IInv, rpcReadyForNormalGhosts PROVE IInv'
<1>1. PICK r \in Answers :
        replied' = r /\ mGhosting' = (mGhosting \/ IsThisSession(rpcs[r].sequence))
  BY DEF rpcReadyForNormalGhosts
<1>2. UNCHANGED <<chanVars, mGhostArray, mDirtyMaskBits, notes, mScoping,
                  mGhostingSequence, rpcVars, rpcWaiting, rpcDone, mLocalGhosts, worldVars>>
  BY DEF rpcReadyForNormalGhosts
<1>3. /\ replied \in 0 .. rpcDone /\ rpcDone \in 0 .. Len(rpcs) /\ rpcs \in Seq(Rpc)
      /\ Len(rpcs) \in Nat /\ DOMAIN rpcs = 1 .. Len(rpcs)
  BY DEF IInv, TypeOK
<1>4. r \in replied + 1 .. rpcDone /\ rpcs[r].type = "rpcStartGhosting"
  BY DEF Answers
<1>5. r \in 0 .. rpcDone /\ r \in DOMAIN rpcs
  BY <1>3, <1>4
<1>6. Link' = Link
  BY <1>2, SameLink DEF chanVars, rpcVars
<1>7. TypeOK'
  <2>1. mGhosting' \in BOOLEAN
    BY <1>1
  <2>2. replied' \in 0 .. rpcDone
    BY <1>1, <1>5
  <2>. QED
    BY <1>2, <2>1, <2>2 DEF IInv, TypeOK, ChanTypeOK, chanVars, rpcVars, worldVars
<1>8. ChannelInv' /\ StartsRight'
  BY <1>2 DEF IInv, ChannelInv, StartsRight, chanVars, rpcVars
<1>9. mGhosting' => Link.ends = {}
  <2>1. CASE mGhosting
    BY <2>1 DEF IInv
  <2>2. CASE rpcs[r].sequence = mGhostingSequence
    <3>1. \A x \in r + 1 .. Len(rpcs) : rpcs[x].type # "rpcEndGhosting"
      BY <1>4, <1>5, <2>2 DEF IInv, StartsRight
    <3>2. \A x \in rpcDone + 1 .. Len(rpcs) : x \in r + 1 .. Len(rpcs)
      BY <1>3, <1>4
    <3>. QED
      BY <3>1, <3>2 DEF Link
  <2>. QED
    BY <1>1, <2>1, <2>2 DEF IsThisSession
<1>10. mGhosting' \/ Dormant(mGhostArray, Link)
  BY <1>1 DEF IInv
<1>. QED
  BY <1>2, <1>6, <1>7, <1>8, <1>9, <1>10 DEF IInv, worldVars

-----------------------------------------------------------------------------
(* processConnections.                                                     *)

(* The updates that are written are updates.                               *)
LEMMA UpdateOfTyped ==
  ASSUME NEW info \in GhostInfo, NEW g \in Ghost, NEW returned
  PROVE  UpdateOf(info, g, returned) \in Update
<1>1. info.updateMask \subseteq Bit /\ info.obj \in Object \union {NoObject}
  BY InfoFields
<1>2. Kind(info) \in {"Ghosting", "Update", "KillingGhost"}
  BY DEF Kind
<1>. DEFINE mask == info.updateMask \ returned
            current == IF info.obj = NoObject THEN {} ELSE mask
<1>3. mask \subseteq Bit /\ current \subseteq Bit
  BY <1>1
<1>4. UpdateOf(info, g, returned)
        = [ghost |-> g, kind |-> Kind(info), mask |-> mask, obj |-> info.obj, current |-> current]
  BY DEF UpdateOf
<1>. HIDE DEF mask, current
<1>. QED
  BY <1>1, <1>2, <1>3, <1>4 DEF Update

(* The packet that is sent is the last of the notes, and may be read.      *)
LEMMA SentNote ==
  ASSUME TypeOK, ChannelInv, NEW note \in Note, note.rpcs \subseteq DOMAIN rpcs, Send(Server),
         notes' = Append(notes, note), UNCHANGED <<rpcs, clientVars>>
  PROVE  /\ SentTo(Link, note, Len(notes) + 1, Link')
         /\ notes' \in Seq(Note) /\ Len(notes') = sent'[Server] - notified'[Server]
         /\ \A i \in DOMAIN notes' : notes'[i].rpcs \subseteq DOMAIN rpcs
         /\ ChanTypeOK' /\ ChannelInv'
<1>. DEFINE n == Len(notes)
            a == notified[Server]
            s == sent[Server]
<1>1. /\ notes \in Seq(Note) /\ n = s - a /\ n \in Nat /\ DOMAIN notes = 1 .. n
      /\ notified \in [Side -> Nat] /\ arrived \in [Side -> SUBSET Nat] /\ sent \in [Side -> Nat]
  BY DEF TypeOK, ChanTypeOK
<1>2. a \in Nat /\ arrived[Server] \subseteq Nat /\ s \in Nat /\ Server \in Side
  BY <1>1 DEF Side, Server
<1>3. /\ sent' = [sent EXCEPT ![Server] = s + 1]
      /\ notified' = notified /\ arrived' = arrived /\ open' = open /\ confirmed' = confirmed
  BY DEF Send
<1>4. sent'[Server] = s + 1 /\ sent' \in [Side -> Nat]
  BY <1>1, <1>2, <1>3
<1>5. /\ notes' \in Seq(Note) /\ Len(notes') = n + 1 /\ DOMAIN notes' = 1 .. n + 1
      /\ notes'[n + 1] = note /\ \A i \in 1 .. n : notes'[i] = notes[i]
  BY <1>1
<1>6. /\ Pos(Link) = 1 .. n /\ Pos(Link') = 1 .. n + 1
      /\ Link.notes = notes /\ Link'.notes = notes'
      /\ Link'.ghosts = Link.ghosts /\ Link'.ends = Link.ends /\ Link'.waiting = Link.waiting
  BY <1>1, <1>3, <1>5 DEF Link, Pos, clientVars
<1>7. /\ Link.arr = {i \in 1 .. n : a + i \in arrived[Server]}
      /\ Link'.arr = {i \in 1 .. n + 1 : a + i \in arrived[Server]}
      /\ Link.rd = {i \in 1 .. n : \A m \in arrived[Server] : m < a + i}
      /\ Link'.rd = {i \in 1 .. n + 1 : \A m \in arrived[Server] : m < a + i}
  BY <1>1, <1>3, <1>5 DEF Link
<1>8. \A m \in arrived[Server] : m < a + (n + 1)
  <2>1. \A m \in arrived[Server] : m <= s /\ m \in Nat
    BY <1>2 DEF ChannelInv
  <2>2. a + (n + 1) = s + 1
    BY <1>1, <1>2
  <2>. QED
    BY <1>2, <2>1, <2>2
<1>9. a + (n + 1) \notin arrived[Server]
  BY <1>1, <1>2, <1>8
<1>. HIDE DEF n, a, s
<1>10. \A i \in 1 .. n + 1 : i = n + 1 \/ i \in 1 .. n
  BY <1>1
<1>11. \A i \in 1 .. n : i \in 1 .. n + 1 /\ i < n + 1 /\ i <= n + 1 /\ ~(n + 1 < i) /\ ~(n + 1 <= i)
  BY <1>1
<1>12. n + 1 \in 1 .. n + 1 /\ n + 1 \notin 1 .. n /\ ~(n + 1 < n + 1) /\ n + 1 <= n + 1
  BY <1>1
<1>13. Link'.arr = Link.arr /\ Link'.rd = Link.rd \union {n + 1}
  <2>1. Link'.arr = Link.arr
    BY <1>7, <1>9, <1>10, <1>11
  <2>2. Link'.rd = Link.rd \union {n + 1}
    BY <1>7, <1>8, <1>10, <1>11, <1>12
  <2>. QED
    BY <2>1, <2>2
<1>14. SentTo(Link, note, n + 1, Link')
  <2>1. Pos(Link') = Pos(Link) \union {n + 1} /\ n + 1 \notin Pos(Link)
    BY <1>6, <1>10, <1>11, <1>12
  <2>2. \A i \in Pos(Link) : Link'.notes[i] = Link.notes[i]
    BY <1>5, <1>6
  <2>3. Link'.notes[n + 1] = note
    BY <1>5, <1>6
  <2>. QED
    BY <1>6, <1>11, <1>12, <1>13, <2>1, <2>2, <2>3 DEF SentTo
<1>15. \A i \in DOMAIN notes' : notes'[i].rpcs \subseteq DOMAIN rpcs
  BY <1>1, <1>5, <1>10 DEF TypeOK
<1>16. Len(notes') = sent'[Server] - notified'[Server]
  BY <1>1, <1>2, <1>3, <1>4, <1>5 DEF n, a, s
<1>17. ChanTypeOK'
  BY <1>3, <1>4 DEF TypeOK, ChanTypeOK
<1>18. ChannelInv'
  <2>1. notified'[Server] <= sent'[Server]
    BY <1>2, <1>3, <1>4 DEF ChannelInv, a, s
  <2>2. \A m \in arrived'[Server] : m <= sent'[Server]
    BY <1>2, <1>3, <1>4 DEF ChannelInv, a, s
  <2>. QED
    BY <2>1, <2>2 DEF ChannelInv
<1>. QED
  BY <1>5, <1>14, <1>15, <1>16, <1>17, <1>18 DEF n

(* What is to be shown of a packet that is written.                        *)
LEMMA WritesGhostsKeeps ==
  ASSUME NEW t, NEW d, NEW free, NEW w, NEW note, NEW k, NEW w2,
         TableInv(t, d, free, w), LinkType(w), LinkInv(w), SentTo(w, note, k, w2), note.listed,
         mGhosting => w.ends = {},
         NEW x \in WritesGhosts(t), note.updates = x.updates
  PROVE  /\ LinkInv(w2) /\ TableInv(x.table, d, free, w2)
         /\ ~mGhosting => (Dormant(t, w) => Dormant(x.table, w2))
<1>1. CASE ~(mGhosting /\ mScopeObject)
  <2>1. x = [table |-> t, updates |-> {}]
    BY <1>1 DEF WritesGhosts
  <2>2. x.table = t /\ note.updates = {}
    BY <2>1
  <2>3. Suits(w, note.updates)
    BY <2>2 DEF Suits
  <2>4. LinkInv(w2)
    BY <2>2, <2>3, SentLink
  <2>5. TableInv(t, d, free, w2) /\ (Dormant(t, w) => Dormant(t, w2))
    BY <2>2, SentEmpty
  <2>. QED
    BY <2>2, <2>4, <2>5
<1>2. CASE mGhosting /\ mScopeObject
  <2>. DEFINE t0 == Cleaned(t)
  <2>1. PICK returned \in UNION {[gs -> SUBSET Bit] : gs \in SUBSET MayBeWritten(t0)} :
          /\ \A g \in DOMAIN returned : returned[g] \in MayReturn(t0.info[g])
          /\ x = [table |-> Written(t0, returned),
                  updates |-> {UpdateOf(t0.info[g], g, returned[g]) : g \in DOMAIN returned}]
    BY <1>2 DEF WritesGhosts
  <2>2. DOMAIN returned \subseteq MayBeWritten(t0)
    OBVIOUS
  <2>3. /\ x.table = Written(t0, returned)
        /\ note.updates = {UpdateOf(t0.info[g], g, returned[g]) : g \in DOMAIN returned}
    BY <2>1
  <2>4. \A g \in DOMAIN returned : returned[g] \in MayReturn(t0.info[g])
    BY <2>1
  <2>5. /\ TableInv(t0, d, free, w)
        /\ \A g \in t0.updating : ~({"KillGhost", "NotYetGhosted"} \subseteq t0.info[g].flags)
    BY CleanedKeeps
  <2>6. w.ends = {}
    BY <1>2
  <2>. HIDE DEF t0
  <2>7. TableInv(x.table, d, free, w2) /\ Suits(w, note.updates)
    BY <2>2, <2>3, <2>4, <2>5, <2>6, WrittenKeeps
  <2>8. LinkInv(w2)
    BY <2>6, <2>7, SentLink
  <2>. QED
    BY <1>2, <2>7, <2>8
<1>. QED
  BY <1>1, <1>2

(* The updates of a packet are updates.                                    *)
LEMMA WritesGhostsTyped ==
  ASSUME NEW t, NEW d, NEW free, NEW w, TableInv(t, d, free, w), NEW x \in WritesGhosts(t)
  PROVE  x.updates \subseteq Update
<1>1. CASE ~(mGhosting /\ mScopeObject)
  BY <1>1 DEF WritesGhosts
<1>2. CASE mGhosting /\ mScopeObject
  <2>. DEFINE t0 == Cleaned(t)
  <2>1. PICK returned \in UNION {[gs -> SUBSET Bit] : gs \in SUBSET MayBeWritten(t0)} :
          x = [table |-> Written(t0, returned),
               updates |-> {UpdateOf(t0.info[g], g, returned[g]) : g \in DOMAIN returned}]
    BY <1>2 DEF WritesGhosts
  <2>2. DOMAIN returned \subseteq MayBeWritten(t0)
    OBVIOUS
  <2>3. TableInv(t0, d, free, w)
    BY CleanedKeeps
  <2>. HIDE DEF t0
  <2>4. t0 \in GhostArray
    BY <2>3 DEF TableInv
  <2>5. t0.info \in [Ghost -> GhostInfo] /\ t0.updating \subseteq Ghost
    BY <2>4, ArrayFields
  <2>6. ASSUME NEW g \in DOMAIN returned
        PROVE  UpdateOf(t0.info[g], g, returned[g]) \in Update
    <3>1. g \in Ghost /\ t0.info[g] \in GhostInfo
      BY <2>2, <2>5 DEF MayBeWritten
    <3>. QED
      BY <3>1, UpdateOfTyped
  <2>7. x.updates = {UpdateOf(t0.info[g], g, returned[g]) : g \in DOMAIN returned}
    BY <2>1
  <2>. QED
    BY <2>6, <2>7
<1>. QED
  BY <1>1, <1>2

(* processConnections keeps the invariant, whether it sends a packet or    *)
(* not.                                                                    *)
LEMMA ProcessStep ==
  ASSUME IInv, processConnections PROVE IInv'
<1>. DEFINE t == Collapsed(mGhostArray)
            d == mDirtyMaskBits'
            free == cleared
            w == Link
<1>1. /\ mDirtyMaskBits' = [o \in Object |-> {}]
      /\ UNCHANGED <<serverVars, rpcs, clientVars, worldVars>>
      /\ \/ /\ mGhostArray' \in {t} \union Prepared(t)
            /\ UNCHANGED <<chanVars, notes, rpcQueue>>
         \/ \E t1 \in Prepared(t) : WritePacket(t1)
  BY DEF processConnections
<1>2. TableStep(mGhostArray, mDirtyMaskBits, cleared, t, d, free)
  <2>1. TableInv(mGhostArray, mDirtyMaskBits, cleared, Link) /\ mDirtyMaskBits \in [Object -> SUBSET Bit]
    BY IInvTable
  <2>. HIDE DEF d
  <2>. QED
    BY <2>1, CollapsedStep
<1>3. TypeOK /\ LinkType(w) /\ LinkInv(w) /\ ChannelInv /\ scope \subseteq Object
  BY LinkTyped, IInvTable DEF IInv
<1>4. d \in [Object -> SUBSET Bit]
  BY <1>1
<1>5. /\ TableInv(mGhostArray, mDirtyMaskBits, free, w)
      /\ mGhosting => w.ends = {}
      /\ mGhosting \/ Dormant(mGhostArray, w)
  BY DEF IInv
<1>. HIDE DEF t, d, w
<1>6. TableInv(t, d, free, w) /\ (Dormant(mGhostArray, w) => Dormant(t, w))
  BY <1>2, <1>5, StepTaken
<1>7. ASSUME NEW t1 \in Prepared(t)
      PROVE  TableInv(t1, d, free, w) /\ (Dormant(mGhostArray, w) => Dormant(t1, w))
  BY <1>3, <1>6, PreparedKeeps
<1>8. CASE mGhostArray' \in {t} \union Prepared(t) /\ UNCHANGED <<chanVars, notes, rpcQueue>>
  <2>1. /\ TableInv(mGhostArray', d, free, w)
        /\ Dormant(mGhostArray, w) => Dormant(mGhostArray', w)
    BY <1>6, <1>7, <1>8
  <2>2. TypeOK'
    <3>1. mGhostArray' \in GhostArray /\ mGhostArray'.updating \subseteq mGhostArray'.inUse
      BY <2>1 DEF TableInv
    <3>2. mDirtyMaskBits' \in [Object -> SUBSET Bit]
      BY <1>1
    <3>. QED
      BY <1>1, <1>3, <1>8, <3>1, <3>2
         DEF TypeOK, ChanTypeOK, chanVars, serverVars, clientVars, worldVars
  <2>3. TableInv(mGhostArray', mDirtyMaskBits', cleared', Link)
        /\ (Dormant(mGhostArray, Link) => Dormant(mGhostArray', Link))
    BY <1>1, <2>1 DEF d, w, worldVars
  <2>. QED
    BY <1>1, <1>8, <2>2, <2>3, TableOnly
<1>9. ASSUME NEW t1 \in Prepared(t), WritePacket(t1) PROVE IInv'
  <2>1. PICK x \in WritesGhosts(t1) : \E last \in {0} \union rpcQueue :
          /\ mGhostArray' = x.table
          /\ notes' = Append(notes, [rpcs |-> {i \in rpcQueue : i <= last}, updates |-> x.updates,
                                     listed |-> TRUE])
          /\ rpcQueue' = rpcQueue \ {i \in rpcQueue : i <= last}
    BY <1>9 DEF WritePacket
  <2>2. PICK last \in {0} \union rpcQueue :
          /\ notes' = Append(notes, [rpcs |-> {i \in rpcQueue : i <= last}, updates |-> x.updates,
                                     listed |-> TRUE])
          /\ rpcQueue' = rpcQueue \ {i \in rpcQueue : i <= last}
    BY <2>1
  <2>. DEFINE carried == {i \in rpcQueue : i <= last}
              note == [rpcs |-> carried, updates |-> x.updates, listed |-> TRUE]
              k == Len(notes) + 1
              w2 == Link'
  <2>3. /\ note.rpcs = carried /\ note.updates = x.updates /\ note.listed
        /\ notes' = Append(notes, note) /\ rpcQueue' = rpcQueue \ carried
        /\ carried \subseteq rpcQueue
    BY <2>2
  <2>4. TableInv(t1, d, free, w)
    BY <1>7
  <2>5. x.updates \subseteq Update
    BY <2>4, WritesGhostsTyped
  <2>6. rpcQueue \subseteq DOMAIN rpcs /\ DOMAIN rpcs \subseteq Nat
    BY <1>3 DEF TypeOK
  <2>7. note \in Note
    <3>1. carried \subseteq Nat
      BY <2>6
    <3>. HIDE DEF carried
    <3>. QED
      BY <2>5, <3>1 DEF Note
  <2>8. Send(Server)
    BY <1>9 DEF WritePacket
  <2>. HIDE DEF carried, note
  <2>9. /\ SentTo(Link, note, Len(notes) + 1, Link')
        /\ notes' \in Seq(Note) /\ Len(notes') = sent'[Server] - notified'[Server]
        /\ \A i \in DOMAIN notes' : notes'[i].rpcs \subseteq DOMAIN rpcs
        /\ ChanTypeOK' /\ ChannelInv'
    <3>1. note.rpcs \subseteq DOMAIN rpcs
      BY <2>3, <2>6
    <3>2. UNCHANGED <<rpcs, clientVars>>
      BY <1>1
    <3>. QED
      BY <1>3, <2>3, <2>7, <2>8, <3>1, <3>2, SentNote
  <2>10. SentTo(w, note, k, w2)
    BY <2>9 DEF w
  <2>. HIDE DEF k, w2
  <2>11. /\ LinkInv(w2) /\ TableInv(x.table, d, free, w2)
         /\ ~mGhosting => (Dormant(t1, w) => Dormant(x.table, w2))
    BY <1>3, <1>5, <2>3, <2>4, <2>10, WritesGhostsKeeps
  <2>12. /\ LinkInv(Link') /\ TableInv(mGhostArray', mDirtyMaskBits', cleared', Link')
         /\ mGhosting' \/ Dormant(mGhostArray', Link')
    <3>1. mGhosting \/ Dormant(x.table, w2)
      BY <1>5, <1>7, <2>11
    <3>2. mGhosting' = mGhosting /\ cleared' = cleared /\ mGhostArray' = x.table
      BY <1>1, <2>1 DEF serverVars, worldVars
    <3>. QED
      BY <2>11, <3>1, <3>2 DEF w2, d
  <2>13. mGhosting' => Link'.ends = {}
    <3>1. w2.ends = w.ends
      BY <2>10 DEF SentTo
    <3>. QED
      BY <1>1, <1>5, <3>1 DEF w2, serverVars
  <2>14. TypeOK'
    <3>1. mGhostArray' \in GhostArray /\ mGhostArray'.updating \subseteq mGhostArray'.inUse
      BY <2>12 DEF TableInv
    <3>2. mDirtyMaskBits' \in [Object -> SUBSET Bit]
      BY <1>1
    <3>3. rpcQueue' \subseteq DOMAIN rpcs'
      BY <1>1, <2>3, <2>6
    <3>4. \A i \in DOMAIN notes' : notes'[i].rpcs \subseteq DOMAIN rpcs'
      BY <1>1, <2>9
    <3>. QED
      BY <1>1, <1>3, <2>9, <3>1, <3>2, <3>3, <3>4
         DEF TypeOK, serverVars, clientVars, worldVars
  <2>15. StartsRight'
    BY <1>1 DEF IInv, StartsRight, serverVars
  <2>. QED
    BY <2>9, <2>12, <2>13, <2>14, <2>15 DEF IInv
<1>. QED
  BY <1>1, <1>8, <1>9

-----------------------------------------------------------------------------
(* The fate of a packet is told: its note, which was the first, goes.      *)
ShiftedTo(w, w2) ==
  /\ 1 \in Pos(w)
  /\ \A i \in Pos(w) : /\ ~(i < 1) /\ (i <= 1 => i = 1) /\ (i # 1 => 1 < i)
                       /\ i = 1 \/ \E j \in Pos(w2) : i = j + 1
  /\ \A i \in Pos(w2) : /\ i + 1 \in Pos(w) /\ i + 1 # 1
                        /\ w2.notes[i] = w.notes[i + 1]
                        /\ i \in w2.arr <=> i + 1 \in w.arr
                        /\ i \in w2.rd <=> i + 1 \in w.rd
                        /\ \A j \in Pos(w2) : /\ i < j <=> i + 1 < j + 1
                                              /\ i <= j <=> i + 1 <= j + 1
                                              /\ i = j <=> i + 1 = j + 1
  /\ w2.rd \subseteq Pos(w2)
  /\ w2.ghosts = w.ghosts /\ w2.ends = w.ends /\ w2.waiting = w.waiting

(* The packets behind the first.                                           *)
LEMMA ShiftedLists ==
  ASSUME NEW w, NEW w2, ShiftedTo(w, w2), NEW i \in Pos(w2)
  PROVE  /\ i + 1 \in Pos(w) /\ i + 1 # 1
         /\ Updates(w2, i) = Updates(w, i + 1) /\ List(w2, i) = List(w, i + 1)
         /\ w2.notes[i] = w.notes[i + 1]
BY DEF ShiftedTo, Updates, List

(* What the packets say of one another does not need the first.            *)
LEMMA ShiftedLink ==
  ASSUME NEW w, NEW w2, LinkType(w), LinkInv(w), ShiftedTo(w, w2)
  PROVE  LinkInv(w2)
<1>1. \A i \in Pos(w2) : /\ i + 1 \in Pos(w)
                         /\ Updates(w2, i) = Updates(w, i + 1) /\ List(w2, i) = List(w, i + 1)
                         /\ w2.notes[i] = w.notes[i + 1]
  BY ShiftedLists
<1>2. /\ w2.ghosts = w.ghosts /\ w2.ends = w.ends /\ w2.waiting = w.waiting
      /\ w2.rd \subseteq Pos(w2)
  BY DEF ShiftedTo
<1>3. \A i \in Pos(w2) : /\ i \in w2.arr <=> i + 1 \in w.arr
                         /\ i \in w2.rd <=> i + 1 \in w.rd
                         /\ \A j \in Pos(w2) : /\ i < j <=> i + 1 < j + 1
                                               /\ i <= j <=> i + 1 <= j + 1
  BY DEF ShiftedTo
<1>4. NotesInv(w2)
  BY <1>1 DEF LinkInv, NotesInv
<1>5. EndsInv(w2)
  <2>1. ASSUME NEW r \in w2.ends, NEW i \in Pos(w2), r \in w2.notes[i].rpcs,
               NEW j \in Pos(w2), i <= j
        PROVE  Updates(w2, j) = {}
    BY <1>1, <1>2, <1>3, <2>1 DEF LinkInv, EndsInv
  <2>2. ASSUME NEW r \in w2.ends, r \in w2.waiting, NEW j \in w2.rd
        PROVE  Updates(w2, j) = {}
    BY <1>1, <1>2, <1>3, <2>2 DEF LinkInv, EndsInv
  <2>3. ASSUME w2.ends = {}, NEW i \in w2.rd, ~w2.notes[i].listed
        PROVE  Updates(w2, i) = {}
    BY <1>1, <1>2, <1>3, <2>3 DEF LinkInv, EndsInv
  <2>. QED
    BY <2>1, <2>2, <2>3 DEF EndsInv
<1>6. ReadableInv(w2)
  <2>1. ASSUME NEW i \in w2.rd, NEW u \in Updates(w2, i)
        PROVE  /\ u.kind = "Ghosting" <=> w2.ghosts[u.ghost] = NoGhost
               /\ u.kind = "Update" => w2.ghosts[u.ghost].of = u.obj
    BY <1>1, <1>2, <1>3 DEF LinkInv, ReadableInv
  <2>2. ASSUME NEW i \in w2.rd, NEW u \in Updates(w2, i), u.kind # "Update",
               NEW j \in w2.rd, i < j, NEW v \in Updates(w2, j)
        PROVE  v.ghost # u.ghost
    BY <1>1, <1>2, <1>3, <2>2 DEF LinkInv, ReadableInv
  <2>. QED
    BY <2>1, <2>2 DEF ReadableInv
<1>7. CurrentInv(w2)
  <2>1. \A g \in Ghost : w2.ghosts[g] = NoGhost \/ w2.ghosts[g].of # NoObject
    BY <1>2 DEF LinkInv, CurrentInv
  <2>2. ASSUME NEW i \in Pos(w2), NEW u \in List(w2, i), NEW j \in Pos(w2), NEW v \in List(w2, j),
               i < j, u.ghost = v.ghost, u.obj = v.obj
        PROVE  u.current \intersect v.mask \subseteq v.current
    BY <1>1, <1>3, <2>2 DEF LinkInv, CurrentInv
  <2>3. ASSUME NEW i \in Pos(w2), NEW u \in List(w2, i), w2.ghosts[u.ghost].of = u.obj
        PROVE  /\ i \in w2.arr => u.current \subseteq w2.ghosts[u.ghost].current
               /\ i \in w2.rd => w2.ghosts[u.ghost].current \intersect u.mask \subseteq u.current
    BY <1>1, <1>2, <1>3, <2>3 DEF LinkInv, CurrentInv
  <2>. QED
    BY <2>1, <2>2, <2>3 DEF CurrentInv
<1>. QED
  BY <1>4, <1>5, <1>6, <1>7 DEF LinkInv

(* What the flags say of a ghost still holds when the note of the first    *)
(* packet goes, unless that was to create it or to remove it: it is        *)
(* absent.                                                                 *)
LEMMA ShiftedAbsent ==
  ASSUME NEW w, NEW w2, ShiftedTo(w, w2), NEW g, Absent(w, g)
  PROVE  Absent(w2, g)
BY ShiftedLists DEF Absent, ShiftedTo

(* It is present.                                                          *)
LEMMA ShiftedPresent ==
  ASSUME NEW w, NEW w2, ShiftedTo(w, w2), NEW g, NEW o, Present(w, g, o)
  PROVE  Present(w2, g, o)
<1>1. w2.ghosts = w.ghosts
  BY DEF ShiftedTo
<1>2. \A i \in Pos(w2) : i + 1 \in Pos(w) /\ List(w2, i) = List(w, i + 1)
  BY ShiftedLists
<1>. QED
  BY <1>1, <1>2 DEF Present

(* It is being created, by a later packet or by the first.                 *)
LEMMA ShiftedCreating ==
  ASSUME NEW w, NEW w2, ShiftedTo(w, w2), NEW g, NEW o, Creating(w, g, o)
  PROVE  \/ Creating(w2, g, o) /\ \A v \in List(w, 1) : v.ghost # g
         \/ /\ \E u \in List(w, 1) : /\ u.ghost = g /\ u.kind = "Ghosting"
                                     /\ o # NoObject => u.obj = o
                                     /\ 1 \in w.arr => w.ghosts[g].of = u.obj
            /\ 1 \notin w.arr => w.ghosts[g] = NoGhost
            /\ \A j \in Pos(w2) : \A v \in List(w2, j) : v.ghost # g
<1>1. w2.ghosts = w.ghosts /\ 1 \in Pos(w)
  BY DEF ShiftedTo
<1>2. \A i \in Pos(w2) : i + 1 \in Pos(w) /\ i + 1 # 1 /\ List(w2, i) = List(w, i + 1)
  BY ShiftedLists
<1>3. PICK i \in Pos(w) : \E u \in List(w, i) :
          /\ u.ghost = g /\ u.kind = "Ghosting" /\ (o # NoObject => u.obj = o)
          /\ \A j \in Pos(w) : \A v \in List(w, j) : v.ghost = g => j = i
          /\ i \in w.arr => w.ghosts[g].of = u.obj
          /\ i \notin w.arr => w.ghosts[g] = NoGhost
  BY DEF Creating
<1>4. PICK u \in List(w, i) :
          /\ u.ghost = g /\ u.kind = "Ghosting" /\ (o # NoObject => u.obj = o)
          /\ \A j \in Pos(w) : \A v \in List(w, j) : v.ghost = g => j = i
          /\ i \in w.arr => w.ghosts[g].of = u.obj
          /\ i \notin w.arr => w.ghosts[g] = NoGhost
  BY <1>3
<1>5. CASE i = 1
  BY <1>2, <1>4, <1>5
<1>6. CASE i # 1
  <2>1. PICK j \in Pos(w2) : i = j + 1
    BY <1>6 DEF ShiftedTo
  <2>2. u \in List(w2, j) /\ (j \in w2.arr <=> i \in w.arr)
    BY <1>2, <1>4, <2>1 DEF ShiftedTo
  <2>3. \A x \in Pos(w2) : \A v \in List(w2, x) : v.ghost = g => x = j
    <3>1. \A x \in Pos(w2) : x = j <=> x + 1 = j + 1
      BY DEF ShiftedTo
    <3>. QED
      BY <1>2, <1>4, <2>1, <3>1
  <2>4. Creating(w2, g, o)
    BY <1>1, <1>4, <2>1, <2>2, <2>3 DEF Creating
  <2>. QED
    BY <1>1, <1>4, <1>6, <2>4
<1>. QED
  BY <1>5, <1>6

(* It is being removed, by a later packet or by the first.                 *)
LEMMA ShiftedRemoving ==
  ASSUME NEW w, NEW w2, ShiftedTo(w, w2), NEW g, Removing(w, g)
  PROVE  \/ Removing(w2, g) /\ \A v \in List(w, 1) : v.ghost = g => v.kind = "Update"
         \/ /\ \E u \in List(w, 1) : u.ghost = g /\ u.kind = "KillingGhost"
            /\ 1 \in w.arr <=> w.ghosts[g] = NoGhost
            /\ \A j \in Pos(w2) : \A v \in List(w2, j) : v.ghost # g
<1>1. w2.ghosts = w.ghosts /\ 1 \in Pos(w)
  BY DEF ShiftedTo
<1>2. \A i \in Pos(w2) : i + 1 \in Pos(w) /\ i + 1 # 1 /\ List(w2, i) = List(w, i + 1)
  BY ShiftedLists
<1>3. PICK i \in Pos(w) : \E u \in List(w, i) :
          /\ u.ghost = g /\ u.kind = "KillingGhost"
          /\ \A j \in Pos(w) : \A v \in List(w, j) :
               v.ghost = g => j <= i /\ (j < i => v.kind = "Update")
          /\ i \in w.arr <=> w.ghosts[g] = NoGhost
  BY DEF Removing
<1>4. PICK u \in List(w, i) :
          /\ u.ghost = g /\ u.kind = "KillingGhost"
          /\ \A j \in Pos(w) : \A v \in List(w, j) :
               v.ghost = g => j <= i /\ (j < i => v.kind = "Update")
          /\ i \in w.arr <=> w.ghosts[g] = NoGhost
  BY <1>3
<1>5. CASE i = 1
  <2>1. \A j \in Pos(w) : j <= 1 => j = 1
    BY DEF ShiftedTo
  <2>. QED
    BY <1>2, <1>4, <1>5, <2>1
<1>6. CASE i # 1
  <2>1. PICK j \in Pos(w2) : i = j + 1
    BY <1>6 DEF ShiftedTo
  <2>2. u \in List(w2, j) /\ (j \in w2.arr <=> i \in w.arr)
    BY <1>2, <1>4, <2>1 DEF ShiftedTo
  <2>3. ASSUME NEW x \in Pos(w2), NEW v \in List(w2, x), v.ghost = g
        PROVE  x <= j /\ (x < j => v.kind = "Update")
    <3>1. (x < j <=> x + 1 < j + 1) /\ (x <= j <=> x + 1 <= j + 1)
      BY DEF ShiftedTo
    <3>2. x + 1 \in Pos(w) /\ v \in List(w, x + 1)
      BY <1>2
    <3>. QED
      BY <1>4, <2>1, <2>3, <3>1, <3>2
  <2>4. Removing(w2, g)
    BY <1>1, <1>4, <2>1, <2>2, <2>3 DEF Removing
  <2>5. 1 < i
    BY <1>6 DEF ShiftedTo
  <2>. QED
    BY <1>1, <1>4, <2>4, <2>5
<1>. QED
  BY <1>5, <1>6

(* The ghosts of the updates of a kind.                                    *)
LEMMA OfKindOf ==
  ASSUME NEW updates, NEW kind, NEW g
  PROVE  g \in OfKind(updates, kind) <=> \E u \in updates : u.ghost = g /\ u.kind = kind
BY DEF OfKind

(* packetReceived: what the first packet created is there, what it removed *)
(* is free.                                                                *)
LEMMA ReceivedTable ==
  ASSUME NEW t, NEW d, NEW free, NEW w, NEW w2, TableInv(t, d, free, w),
         LinkType(w), LinkInv(w), ShiftedTo(w, w2), 1 \in w.arr,
         NEW t2, t2 = Freed(Cleared(t, OfKind(List(w, 1), "Ghosting"), "Ghosting"),
                            OfKind(List(w, 1), "KillingGhost"))
  PROVE  TableInv(t2, d, free, w2) /\ (Dormant(t, w) => Dormant(t2, w2))
<1>. DEFINE G == OfKind(List(w, 1), "Ghosting")
            K == OfKind(List(w, 1), "KillingGhost")
<1>1. /\ t \in GhostArray /\ InfoInv(t) /\ t.updating \subseteq t.inUse /\ GhostsInv(t, w)
      /\ StatesInv(t, d, free, w)
  BY DEF TableInv
<1>2. t.info \in [Ghost -> GhostInfo] /\ t.inUse \subseteq Ghost /\ t.updating \subseteq Ghost
  BY <1>1, ArrayFields
<1>3. /\ t2.inUse = t.inUse \ K /\ t2.updating = t.updating \ K
      /\ t2.info = [g \in Ghost |-> IF g \in K THEN Unused
                                    ELSE Cleared(t, G, "Ghosting").info[g]]
      /\ t2 = [info |-> t2.info, updating |-> t2.updating, inUse |-> t2.inUse]
  <2>1. Cleared(t, G, "Ghosting").inUse = t.inUse /\ Cleared(t, G, "Ghosting").updating = t.updating
    BY <1>1 DEF Cleared, GhostArray
  <2>. QED
    BY <2>1 DEF Freed
<1>4. ASSUME NEW g \in Ghost
      PROVE  /\ g \in G => Cleared(t, G, "Ghosting").info[g]
                             = [t.info[g] EXCEPT !.flags = @ \ {"Ghosting"}]
             /\ g \notin G => Cleared(t, G, "Ghosting").info[g] = t.info[g]
  <2>. HIDE DEF G
  <2>1. Cleared(t, G, "Ghosting").info = [h \in Ghost |->
          IF h \in G THEN [t.info[h] EXCEPT !.flags = @ \ {"Ghosting"}] ELSE t.info[h]]
    BY <1>1 DEF Cleared, GhostArray
  <2>. QED
    BY <2>1
<1>. HIDE DEF G, K
<1>5. ASSUME NEW g \in Ghost, g \notin K
      PROVE  /\ t2.info[g].obj = t.info[g].obj /\ t2.info[g].updateMask = t.info[g].updateMask
             /\ t2.info[g].flags = IF g \in G THEN t.info[g].flags \ {"Ghosting"}
                                              ELSE t.info[g].flags
             /\ t2.info[g] \in GhostInfo
  <2>1. t.info[g] \in GhostInfo
    BY <1>2
  <2>2. CASE g \in G
    <3>1. t2.info[g] = [t.info[g] EXCEPT !.flags = @ \ {"Ghosting"}]
      BY <1>3, <1>4, <1>5, <2>2
    <3>. QED
      BY <2>1, <2>2, <3>1 DEF GhostInfo
  <2>3. CASE g \notin G
    <3>1. t2.info[g] = t.info[g]
      BY <1>3, <1>4, <1>5, <2>3
    <3>. QED
      BY <2>1, <2>3, <3>1
  <2>. QED
    BY <2>2, <2>3
<1>6. t2 \in GhostArray /\ t2.updating \subseteq t2.inUse
  <2>1. Unused \in GhostInfo
    BY DEF Unused, GhostInfo
  <2>2. \A g \in Ghost : t2.info[g] \in GhostInfo
    BY <1>3, <1>5, <2>1
  <2>3. t2.info \in [Ghost -> GhostInfo]
    BY <1>3, <2>2
  <2>4. t2.updating \subseteq t2.inUse
    BY <1>1, <1>3
  <2>. QED
    BY <1>2, <1>3, <2>3, <2>4 DEF GhostArray
<1>7. \A g \in t2.inUse : g \in t.inUse /\ g \in Ghost /\ g \notin K
  BY <1>2, <1>3
<1>8. InfoInv(t2)
  <2>. SUFFICES ASSUME NEW g \in t2.inUse
                PROVE  /\ InSegment(t2, g)
                       /\ t2.info[g].obj = NoObject <=>
                            "KillGhost" \in t2.info[g].flags \/ "KillingGhost" \in t2.info[g].flags
                       /\ ~({"NotYetGhosted", "Ghosting"} \subseteq t2.info[g].flags)
                       /\ ~({"NotYetGhosted", "KillingGhost"} \subseteq t2.info[g].flags)
                       /\ ~({"Ghosting", "KillingGhost"} \subseteq t2.info[g].flags)
    BY DEF InfoInv
  <2>1. /\ InSegment(t, g)
        /\ t.info[g].obj = NoObject <=>
             "KillGhost" \in t.info[g].flags \/ "KillingGhost" \in t.info[g].flags
        /\ ~({"NotYetGhosted", "Ghosting"} \subseteq t.info[g].flags)
        /\ ~({"NotYetGhosted", "KillingGhost"} \subseteq t.info[g].flags)
        /\ ~({"Ghosting", "KillingGhost"} \subseteq t.info[g].flags)
    BY <1>1, <1>7 DEF InfoInv
  <2>2. InSegment(t2, g)
    BY <1>3, <1>5, <1>7, <2>1 DEF InSegment
  <2>3. /\ t2.info[g].obj = t.info[g].obj
        /\ t2.info[g].flags = IF g \in G THEN t.info[g].flags \ {"Ghosting"}
                                         ELSE t.info[g].flags
    BY <1>5, <1>7
  <2>. QED
    BY <2>1, <2>2, <2>3
\* The ghosts of G were being created, those of K removed.
<1>9. /\ \A g \in G : \E u \in List(w, 1) : u.ghost = g /\ u.kind = "Ghosting"
      /\ \A g \in K : \E u \in List(w, 1) : u.ghost = g /\ u.kind = "KillingGhost"
      /\ \A u \in List(w, 1) : /\ u.kind = "Ghosting" => u.ghost \in G
                               /\ u.kind = "KillingGhost" => u.ghost \in K
  BY OfKindOf DEF G, K
<1>10. 1 \in Pos(w)
  BY DEF ShiftedTo
<1>11. ASSUME NEW g \in Ghost, Absent(w, g) PROVE Absent(w2, g) /\ g \notin G /\ g \notin K
  <2>1. \A u \in List(w, 1) : u.ghost # g
    BY <1>10, <1>11 DEF Absent
  <2>. QED
    BY <1>9, <1>11, <2>1, ShiftedAbsent
<1>12. ASSUME NEW g \in t.inUse, Removing(w, g), g \in K PROVE Absent(w2, g)
  <2>1. \/ Removing(w2, g) /\ \A v \in List(w, 1) : v.ghost = g => v.kind = "Update"
        \/ /\ \E u \in List(w, 1) : u.ghost = g /\ u.kind = "KillingGhost"
           /\ 1 \in w.arr <=> w.ghosts[g] = NoGhost
           /\ \A j \in Pos(w2) : \A v \in List(w2, j) : v.ghost # g
    BY <1>12, ShiftedRemoving
  <2>2. w2.ghosts = w.ghosts
    BY DEF ShiftedTo
  <2>. QED
    BY <1>9, <1>12, <2>1, <2>2 DEF Absent
<1>13. ASSUME NEW g \in Ghost, g \in K PROVE g \in t.inUse /\ Removing(w, g)
  <2>1. PICK u \in List(w, 1) : u.ghost = g /\ u.kind = "KillingGhost"
    BY <1>9, <1>13
  <2>2. ~Absent(w, g)
    BY <1>10, <2>1 DEF Absent
  <2>3. g \in t.inUse /\ "NotYetGhosted" \notin t.info[g].flags
    BY <1>1, <2>2 DEF GhostsInv
  <2>4. "Ghosting" \notin t.info[g].flags
    <3>1. \A o : ~Creating(w, g, o)
      <4>. SUFFICES ASSUME NEW o, Creating(w, g, o) PROVE FALSE
        OBVIOUS
      <4>1. PICK i \in Pos(w) : \E x \in List(w, i) :
              /\ x.ghost = g /\ x.kind = "Ghosting"
              /\ \A j \in Pos(w) : \A v \in List(w, j) : v.ghost = g => j = i
        BY DEF Creating
      <4>2. PICK x \in List(w, i) :
              /\ x.ghost = g /\ x.kind = "Ghosting"
              /\ \A j \in Pos(w) : \A v \in List(w, j) : v.ghost = g => j = i
        BY <4>1
      <4>3. i = 1
        BY <1>10, <2>1, <4>2
      <4>4. u \in Updates(w, 1) /\ x \in Updates(w, 1)
        BY <2>1, <4>2, <4>3, ListIsUpdates
      <4>5. u = x
        BY <1>10, <2>1, <4>2, <4>4 DEF LinkInv, NotesInv
      <4>. QED
        BY <2>1, <4>2, <4>5
    <3>. QED
      BY <1>1, <2>3, <3>1 DEF GhostsInv
  <2>5. \A o : ~Present(w, g, o)
    BY <1>10, <2>1 DEF Present
  <2>6. "KillingGhost" \in t.info[g].flags
    BY <1>1, <2>3, <2>4, <2>5 DEF GhostsInv
  <2>. QED
    BY <1>1, <2>3, <2>6 DEF GhostsInv
<1>14. ASSUME NEW g \in Ghost, NEW o, Present(w, g, o) PROVE Present(w2, g, o) /\ g \notin G /\ g \notin K
  <2>1. \A u \in List(w, 1) : u.ghost = g => u.kind = "Update"
    BY <1>10, <1>14 DEF Present
  <2>. QED
    BY <1>9, <1>14, <2>1, ShiftedPresent
<1>15. ASSUME NEW g \in Ghost, Removing(w, g), g \notin K PROVE Removing(w2, g) /\ g \notin G
  <2>1. \/ Removing(w2, g) /\ \A v \in List(w, 1) : v.ghost = g => v.kind = "Update"
        \/ /\ \E u \in List(w, 1) : u.ghost = g /\ u.kind = "KillingGhost"
           /\ 1 \in w.arr <=> w.ghosts[g] = NoGhost
           /\ \A j \in Pos(w2) : \A v \in List(w2, j) : v.ghost # g
    BY <1>15, ShiftedRemoving
  <2>. QED
    BY <1>9, <1>15, <2>1
<1>16. ASSUME NEW g \in Ghost, NEW o, Creating(w, g, o)
       PROVE  /\ g \in G => Present(w2, g, o)
              /\ g \notin G => Creating(w2, g, o)
  <2>1. \/ Creating(w2, g, o) /\ \A v \in List(w, 1) : v.ghost # g
        \/ /\ \E u \in List(w, 1) : /\ u.ghost = g /\ u.kind = "Ghosting"
                                    /\ o # NoObject => u.obj = o
                                    /\ 1 \in w.arr => w.ghosts[g].of = u.obj
           /\ 1 \notin w.arr => w.ghosts[g] = NoGhost
           /\ \A j \in Pos(w2) : \A v \in List(w2, j) : v.ghost # g
    BY <1>16, ShiftedCreating
  <2>2. CASE Creating(w2, g, o) /\ \A v \in List(w, 1) : v.ghost # g
    BY <1>9, <2>2
  <2>3. CASE /\ \E u \in List(w, 1) : /\ u.ghost = g /\ u.kind = "Ghosting"
                                      /\ o # NoObject => u.obj = o
                                      /\ 1 \in w.arr => w.ghosts[g].of = u.obj
             /\ \A j \in Pos(w2) : \A v \in List(w2, j) : v.ghost # g
    <3>1. PICK u \in List(w, 1) : /\ u.ghost = g /\ u.kind = "Ghosting"
                                  /\ o # NoObject => u.obj = o
                                  /\ w.ghosts[g].of = u.obj
      BY <2>3
    <3>2. u.obj # NoObject
      <4>1. u \in Updates(w, 1)
        BY <3>1, ListIsUpdates
      <4>. QED
        BY <1>10, <3>1, <4>1 DEF LinkInv, NotesInv
    <3>3. w.ghosts[g] # NoGhost
      BY <3>1, <3>2 DEF NoGhost
    <3>4. w2.ghosts = w.ghosts
      BY DEF ShiftedTo
    <3>. QED
      BY <1>9, <2>3, <3>1, <3>3, <3>4 DEF Present
  <2>. QED
    BY <2>1, <2>2, <2>3
<1>17. GhostsInv(t2, w2)
  <2>1. ASSUME NEW g \in Ghost \ t2.inUse PROVE Absent(w2, g)
    <3>1. CASE g \in K
      BY <1>12, <1>13, <2>1, <3>1
    <3>2. CASE g \notin K
      <4>1. Absent(w, g)
        BY <1>1, <1>3, <2>1, <3>2 DEF GhostsInv
      <4>. QED
        BY <1>11, <2>1, <4>1
    <3>. QED
      BY <3>1, <3>2
  <2>2. ASSUME NEW g \in t2.inUse
        PROVE  /\ "NotYetGhosted" \in t2.info[g].flags => Absent(w2, g)
               /\ "Ghosting" \in t2.info[g].flags => Creating(w2, g, t2.info[g].obj)
               /\ "KillingGhost" \in t2.info[g].flags => Removing(w2, g)
               /\ t2.info[g].flags \intersect {"NotYetGhosted", "Ghosting", "KillingGhost"} = {} =>
                    Present(w2, g, t2.info[g].obj)
    <3>1. g \in t.inUse /\ g \in Ghost /\ g \notin K
      BY <1>7
    <3>2. /\ "NotYetGhosted" \in t.info[g].flags => Absent(w, g)
          /\ "Ghosting" \in t.info[g].flags => Creating(w, g, t.info[g].obj)
          /\ "KillingGhost" \in t.info[g].flags => Removing(w, g)
          /\ t.info[g].flags \intersect {"NotYetGhosted", "Ghosting", "KillingGhost"} = {} =>
               Present(w, g, t.info[g].obj)
      BY <1>1, <3>1 DEF GhostsInv
    <3>3. /\ t2.info[g].obj = t.info[g].obj
          /\ t2.info[g].flags = IF g \in G THEN t.info[g].flags \ {"Ghosting"}
                                           ELSE t.info[g].flags
      BY <1>5, <3>1
    <3>4. CASE g \in G
      <4>1. Creating(w, g, t.info[g].obj)
        BY <1>11, <1>14, <1>15, <3>1, <3>2, <3>4
      <4>2. Present(w2, g, t2.info[g].obj)
        BY <1>16, <3>1, <3>3, <3>4, <4>1
      <4>3. "Ghosting" \notin t2.info[g].flags
        BY <3>3, <3>4
      <4>4. "NotYetGhosted" \notin t2.info[g].flags /\ "KillingGhost" \notin t2.info[g].flags
        BY <1>11, <1>15, <3>1, <3>2, <3>3, <3>4
      <4>. QED
        BY <4>2, <4>3, <4>4
    <3>5. CASE g \notin G
      <4>1. t2.info[g].flags = t.info[g].flags
        BY <3>3, <3>5
      <4>. QED
        BY <1>11, <1>14, <1>15, <1>16, <3>1, <3>2, <3>3, <3>5, <4>1
    <3>. QED
      BY <3>4, <3>5
  <2>. QED
    BY <2>1, <2>2 DEF GhostsInv
<1>18. StatesInv(t2, d, free, w2)
  <2>. SUFFICES ASSUME NEW g \in t2.inUse, t2.info[g].obj # NoObject, NEW bit \in Bit
                PROVE  \/ ToBeSent(t2, d, free, g, t2.info[g].obj, bit)
                       \/ /\ "NotYetGhosted" \notin t2.info[g].flags
                          /\ Remembered(w2, g, t2.info[g].obj, bit)
    BY DEF StatesInv
  <2>1. g \in t.inUse /\ g \in Ghost /\ g \notin K
    BY <1>7
  <2>2. /\ t2.info[g].obj = t.info[g].obj /\ t2.info[g].updateMask = t.info[g].updateMask
        /\ "NotYetGhosted" \in t2.info[g].flags => "NotYetGhosted" \in t.info[g].flags
    BY <1>5, <2>1
  <2>3. \/ ToBeSent(t, d, free, g, t.info[g].obj, bit)
        \/ "NotYetGhosted" \notin t.info[g].flags /\ Remembered(w, g, t.info[g].obj, bit)
    BY <1>1, <2>1, <2>2 DEF StatesInv
  <2>4. Remembered(w, g, t.info[g].obj, bit) => Remembered(w2, g, t.info[g].obj, bit)
    <3>1. w2.ghosts = w.ghosts
      BY DEF ShiftedTo
    <3>2. ASSUME NEW i \in Pos(w), NEW u \in List(w, i), u.ghost = g, bit \in u.current, i \notin w.arr
          PROVE  Remembered(w2, g, t.info[g].obj, bit)
      <4>1. PICK j \in Pos(w2) : i = j + 1
        BY <3>2 DEF ShiftedTo
      <4>2. j \notin w2.arr
        BY <3>2, <4>1 DEF ShiftedTo
      <4>3. u \in List(w2, j)
        BY <4>1, ShiftedLists
      <4>. QED
        BY <3>2, <4>2, <4>3 DEF Remembered
    <3>. QED
      BY <3>1, <3>2 DEF Remembered
  <2>. QED
    BY <2>2, <2>3, <2>4 DEF ToBeSent
<1>19. Dormant(t, w) => Dormant(t2, w2)
  <2>. SUFFICES ASSUME Dormant(t, w) PROVE Dormant(t2, w2)
    OBVIOUS
  <2>1. \A i \in Pos(w2) : List(w2, i) = {}
    BY ShiftedLists DEF Dormant
  <2>2. ASSUME NEW g \in t2.inUse PROVE "NotYetGhosted" \in t2.info[g].flags
    <3>1. g \in t.inUse /\ g \in Ghost /\ g \notin K
      BY <1>7
    <3>2. "NotYetGhosted" \in t.info[g].flags
      BY <3>1 DEF Dormant
    <3>. QED
      BY <1>5, <3>1, <3>2
  <2>. QED
    BY <2>1, <2>2 DEF Dormant
<1>. QED
  BY <1>6, <1>8, <1>17, <1>18, <1>19 DEF TableInv

\* The creation of the ghosts of G and the removal of those of K is to be
\* repeated.
RepeatedTo(t, G, K, t2) ==
  /\ t2 \in GhostArray /\ t2.inUse = t.inUse /\ t2.updating = t.updating
  /\ \A g \in Ghost :
       /\ t2.info[g].obj = t.info[g].obj /\ t2.info[g].updateMask = t.info[g].updateMask
       /\ g \in G => t2.info[g].flags = (t.info[g].flags \ {"Ghosting"}) \union {"NotYetGhosted"}
       /\ g \notin G /\ g \in K =>
            t2.info[g].flags = (t.info[g].flags \ {"KillingGhost"}) \union {"KillGhost"}
       /\ g \notin G /\ g \notin K => t2.info[g].flags = t.info[g].flags

(* What Repeated does, field by field.                                     *)
LEMMA RepeatedFields ==
  ASSUME NEW t \in GhostArray, NEW updates, NEW t2, t2 = Repeated(t, updates)
  PROVE  RepeatedTo(t, OfKind(updates, "Ghosting"), OfKind(updates, "KillingGhost"), t2)
<1>. DEFINE G == OfKind(updates, "Ghosting")
            K == OfKind(updates, "KillingGhost")
            again == [g \in Ghost |->
               IF g \in G THEN (t.info[g].flags \ {"Ghosting"}) \union {"NotYetGhosted"}
               ELSE IF g \in K THEN (t.info[g].flags \ {"KillingGhost"}) \union {"KillGhost"}
               ELSE t.info[g].flags]
<1>1. t.info \in [Ghost -> GhostInfo] /\ t.inUse \subseteq Ghost /\ t.updating \subseteq Ghost
  BY ArrayFields
<1>2. t2 = [t EXCEPT !.info = [g \in Ghost |-> [t.info[g] EXCEPT !.flags = again[g]]]]
  BY DEF Repeated
<1>. HIDE DEF again
<1>3. /\ t2.inUse = t.inUse /\ t2.updating = t.updating
      /\ t2.info = [g \in Ghost |-> [t.info[g] EXCEPT !.flags = again[g]]]
      /\ t2 = [info |-> t2.info, updating |-> t2.updating, inUse |-> t2.inUse]
  BY <1>2 DEF GhostArray
<1>. HIDE DEF G, K
<1>4. ASSUME NEW g \in Ghost
      PROVE  /\ g \in G => again[g] = (t.info[g].flags \ {"Ghosting"}) \union {"NotYetGhosted"}
             /\ g \notin G /\ g \in K =>
                  again[g] = (t.info[g].flags \ {"KillingGhost"}) \union {"KillGhost"}
             /\ g \notin G /\ g \notin K => again[g] = t.info[g].flags
  BY DEF again
<1>5. ASSUME NEW g \in Ghost PROVE again[g] \subseteq Flag
  <2>1. t.info[g].flags \subseteq Flag
    BY <1>1, InfoFields
  <2>. QED
    BY <1>4, <2>1 DEF Flag
<1>6. ASSUME NEW g \in Ghost
      PROVE  /\ t2.info[g].obj = t.info[g].obj /\ t2.info[g].updateMask = t.info[g].updateMask
             /\ t2.info[g].flags = again[g] /\ t2.info[g] \in GhostInfo
  <2>1. t.info[g] \in GhostInfo
    BY <1>1
  <2>2. t2.info[g] = [t.info[g] EXCEPT !.flags = again[g]]
    BY <1>3
  <2>. QED
    BY <1>5, <2>1, <2>2 DEF GhostInfo
<1>7. t2.info \in [Ghost -> GhostInfo]
  BY <1>3, <1>6
<1>8. t2 \in GhostArray
  BY <1>1, <1>3, <1>7 DEF GhostArray
<1>9. RepeatedTo(t, G, K, t2)
  BY <1>3, <1>4, <1>6, <1>8 DEF RepeatedTo
<1>. QED
  BY <1>9 DEF G, K

(* A ghost that a packet speaks of is in use, and no longer to be created. *)
LEMMA MentionedInUse ==
  ASSUME NEW t, NEW w, GhostsInv(t, w), t.inUse \subseteq Ghost, LinkType(w),
         NEW i \in Pos(w), NEW u \in List(w, i)
  PROVE  u.ghost \in t.inUse /\ "NotYetGhosted" \notin t.info[u.ghost].flags
<1>1. u \in Updates(w, i)
  BY ListIsUpdates
<1>2. u.ghost \in Ghost
  BY <1>1, UpdatesTyped
<1>3. ~Absent(w, u.ghost)
  BY DEF Absent
<1>. QED
  BY <1>2, <1>3 DEF GhostsInv

(* The ghost that a packet is to create has its creation in flight.        *)
LEMMA CreatedFirst ==
  ASSUME NEW t, NEW w, GhostsInv(t, w), t.inUse \subseteq Ghost, LinkType(w), NotesInv(w),
         NEW i \in Pos(w), NEW u \in List(w, i), u.kind = "Ghosting"
  PROVE  Creating(w, u.ghost, t.info[u.ghost].obj) /\ "Ghosting" \in t.info[u.ghost].flags
<1>. DEFINE g == u.ghost
<1>1. g \in t.inUse /\ "NotYetGhosted" \notin t.info[g].flags
  BY MentionedInUse
<1>2. ~Removing(w, g)
  <2>. SUFFICES ASSUME Removing(w, g) PROVE FALSE
    OBVIOUS
  <2>1. PICK k \in Pos(w) : \E x \in List(w, k) :
          /\ x.ghost = g /\ x.kind = "KillingGhost"
          /\ \A j \in Pos(w) : \A v \in List(w, j) :
               v.ghost = g => j <= k /\ (j < k => v.kind = "Update")
    BY DEF Removing
  <2>2. PICK x \in List(w, k) :
          /\ x.ghost = g /\ x.kind = "KillingGhost"
          /\ \A j \in Pos(w) : \A v \in List(w, j) :
               v.ghost = g => j <= k /\ (j < k => v.kind = "Update")
    BY <2>1
  <2>3. i <= k /\ ~(i < k)
    BY <2>2
  <2>4. i \in Nat /\ k \in Nat
    BY DEF LinkType, Pos
  <2>5. i = k
    BY <2>3, <2>4
  <2>6. u \in Updates(w, i) /\ x \in Updates(w, i)
    BY <2>2, <2>5, ListIsUpdates
  <2>7. u = x
    BY <2>2, <2>6 DEF NotesInv
  <2>. QED
    BY <2>2, <2>7
<1>3. \A o : ~Present(w, g, o)
  BY DEF Present
<1>4. "KillingGhost" \notin t.info[g].flags
  BY <1>1, <1>2 DEF GhostsInv
<1>5. "Ghosting" \in t.info[g].flags
  BY <1>1, <1>3, <1>4 DEF GhostsInv
<1>. QED
  BY <1>1, <1>5 DEF GhostsInv

(* The ghost that a packet is to remove has its removal in flight.         *)
LEMMA RemovedLast ==
  ASSUME NEW t, NEW w, GhostsInv(t, w), t.inUse \subseteq Ghost, LinkType(w), NotesInv(w),
         NEW i \in Pos(w), NEW u \in List(w, i), u.kind = "KillingGhost"
  PROVE  Removing(w, u.ghost) /\ "KillingGhost" \in t.info[u.ghost].flags
<1>. DEFINE g == u.ghost
<1>1. g \in t.inUse /\ "NotYetGhosted" \notin t.info[g].flags
  BY MentionedInUse
<1>2. \A o : ~Creating(w, g, o)
  <2>. SUFFICES ASSUME NEW o, Creating(w, g, o) PROVE FALSE
    OBVIOUS
  <2>1. PICK k \in Pos(w) : \E x \in List(w, k) :
          /\ x.ghost = g /\ x.kind = "Ghosting"
          /\ \A j \in Pos(w) : \A v \in List(w, j) : v.ghost = g => j = k
    BY DEF Creating
  <2>2. PICK x \in List(w, k) :
          /\ x.ghost = g /\ x.kind = "Ghosting"
          /\ \A j \in Pos(w) : \A v \in List(w, j) : v.ghost = g => j = k
    BY <2>1
  <2>3. i = k
    BY <2>2
  <2>4. u \in Updates(w, i) /\ x \in Updates(w, i)
    BY <2>2, <2>3, ListIsUpdates
  <2>5. u = x
    BY <2>2, <2>4 DEF NotesInv
  <2>. QED
    BY <2>2, <2>5
<1>3. \A o : ~Present(w, g, o)
  BY DEF Present
<1>4. "Ghosting" \notin t.info[g].flags
  BY <1>1, <1>2 DEF GhostsInv
<1>5. "KillingGhost" \in t.info[g].flags
  BY <1>1, <1>3, <1>4 DEF GhostsInv
<1>. QED
  BY <1>1, <1>5 DEF GhostsInv

\* The states of the first packet that no later one carries are missing.
MissingRight(w, gs, missing) ==
  /\ gs = {u.ghost : u \in List(w, 1)}
  /\ missing \in [gs -> SUBSET Bit]
  /\ \A u \in List(w, 1) : \A bit \in u.mask :
       \/ bit \in missing[u.ghost]
       \/ \E j \in Pos(w) : j # 1 /\ \E v \in List(w, j) : v.ghost = u.ghost /\ bit \in v.mask

(* packetDropped: what the first packet was to create or to remove is so   *)
(* again, and the states that no later packet carries are to be sent       *)
(* again. A state that a later one carries is current in that one too.     *)
LEMMA DroppedTable ==
  ASSUME NEW t, NEW d, NEW free, NEW w, NEW w2, TableInv(t, d, free, w),
         LinkType(w), LinkInv(w), ShiftedTo(w, w2), 1 \notin w.arr,
         NEW gs, NEW missing, MissingRight(w, gs, missing),
         NEW t2, t2 = Repeated(Flagged(t, gs, missing), List(w, 1))
  PROVE  TableInv(t2, d, free, w2) /\ (Dormant(t, w) => Dormant(t2, w2))
<1>. DEFINE G == OfKind(List(w, 1), "Ghosting")
            K == OfKind(List(w, 1), "KillingGhost")
            t1 == Flagged(t, gs, missing)
<1>1. /\ t \in GhostArray /\ InfoInv(t) /\ t.updating \subseteq t.inUse /\ GhostsInv(t, w)
      /\ StatesInv(t, d, free, w)
  BY DEF TableInv
<1>2. t.info \in [Ghost -> GhostInfo] /\ t.inUse \subseteq Ghost /\ t.updating \subseteq Ghost
  BY <1>1, ArrayFields
<1>3. 1 \in Pos(w) /\ w2.ghosts = w.ghosts
  BY DEF ShiftedTo
<1>4. NotesInv(w) /\ CurrentInv(w)
  BY DEF LinkInv
<1>5. ASSUME NEW u \in List(w, 1)
      PROVE  u.ghost \in gs /\ u.ghost \in t.inUse /\ u \in Updates(w, 1)
  BY <1>1, <1>2, <1>3, <1>5, MentionedInUse, ListIsUpdates DEF MissingRight
<1>6. gs \subseteq t.inUse
  BY <1>5 DEF MissingRight
<1>7. missing \in [gs -> SUBSET Bit]
  BY DEF MissingRight
<1>8. FlaggedTo(t, gs, missing, t1)
  BY <1>1, <1>6, <1>7, FlaggedFields
<1>. HIDE DEF t1
<1>9. t1 \in GhostArray
  BY <1>8 DEF FlaggedTo
<1>10. RepeatedTo(t1, G, K, t2)
  BY <1>9, RepeatedFields DEF t1
<1>. HIDE DEF G, K
<1>11. /\ t2 \in GhostArray /\ t2.inUse = t.inUse /\ t2.updating \subseteq t2.inUse
       /\ t2.updating = t.updating \union {g \in gs : t.info[g].updateMask = {} /\ missing[g] # {}}
  BY <1>8, <1>10 DEF FlaggedTo, RepeatedTo
<1>12. ASSUME NEW g \in Ghost
       PROVE  /\ t2.info[g].obj = t.info[g].obj
              /\ g \in gs => t2.info[g].updateMask = t.info[g].updateMask \union missing[g]
              /\ g \notin gs => t2.info[g].updateMask = t.info[g].updateMask
              /\ g \in G => t2.info[g].flags = (t.info[g].flags \ {"Ghosting"}) \union {"NotYetGhosted"}
              /\ g \notin G /\ g \in K =>
                   t2.info[g].flags = (t.info[g].flags \ {"KillingGhost"}) \union {"KillGhost"}
              /\ g \notin G /\ g \notin K => t2.info[g].flags = t.info[g].flags
  BY <1>8, <1>10 DEF FlaggedTo, RepeatedTo
<1>13. /\ \A g \in G : \E u \in List(w, 1) : u.ghost = g /\ u.kind = "Ghosting"
       /\ \A g \in K : \E u \in List(w, 1) : u.ghost = g /\ u.kind = "KillingGhost"
       /\ \A u \in List(w, 1) : /\ u.kind = "Ghosting" => u.ghost \in G
                                /\ u.kind = "KillingGhost" => u.ghost \in K
  BY OfKindOf DEF G, K
\* The ghosts of G were being created, those of K removed.
<1>14. ASSUME NEW g \in G
       PROVE  /\ g \in t.inUse /\ "Ghosting" \in t.info[g].flags
              /\ w.ghosts[g] = NoGhost /\ Absent(w2, g)
              /\ \A j \in Pos(w) : \A v \in List(w, j) : v.ghost = g => j = 1
  <2>1. PICK u \in List(w, 1) : u.ghost = g /\ u.kind = "Ghosting"
    BY <1>13
  <2>2. Creating(w, g, t.info[g].obj) /\ "Ghosting" \in t.info[g].flags
    BY <1>1, <1>2, <1>3, <1>4, <2>1, CreatedFirst
  <2>3. \/ Creating(w2, g, t.info[g].obj) /\ \A v \in List(w, 1) : v.ghost # g
        \/ /\ 1 \notin w.arr => w.ghosts[g] = NoGhost
           /\ \A j \in Pos(w2) : \A v \in List(w2, j) : v.ghost # g
    BY <2>2, ShiftedCreating
  <2>4. w.ghosts[g] = NoGhost /\ \A j \in Pos(w2) : \A v \in List(w2, j) : v.ghost # g
    BY <2>1, <2>3
  <2>5. ASSUME NEW j \in Pos(w), NEW v \in List(w, j), v.ghost = g PROVE j = 1
    <3>1. j = 1 \/ \E k \in Pos(w2) : j = k + 1
      BY DEF ShiftedTo
    <3>. QED
      BY <2>4, <2>5, <3>1, ShiftedLists
  <2>. QED
    BY <1>3, <1>5, <2>1, <2>2, <2>4, <2>5 DEF Absent
<1>15. ASSUME NEW g \in K
       PROVE  /\ g \in t.inUse /\ "KillingGhost" \in t.info[g].flags
              /\ t.info[g].obj = NoObject /\ Present(w2, g, NoObject)
  <2>1. PICK u \in List(w, 1) : u.ghost = g /\ u.kind = "KillingGhost"
    BY <1>13
  <2>2. Removing(w, g) /\ "KillingGhost" \in t.info[g].flags
    BY <1>1, <1>2, <1>3, <1>4, <2>1, RemovedLast
  <2>3. g \in t.inUse
    BY <1>5, <2>1
  <2>4. t.info[g].obj = NoObject
    BY <1>1, <2>2, <2>3 DEF InfoInv
  <2>5. \/ Removing(w2, g) /\ \A v \in List(w, 1) : v.ghost = g => v.kind = "Update"
        \/ /\ 1 \in w.arr <=> w.ghosts[g] = NoGhost
           /\ \A j \in Pos(w2) : \A v \in List(w2, j) : v.ghost # g
    BY <2>2, ShiftedRemoving
  <2>6. w.ghosts[g] # NoGhost /\ \A j \in Pos(w2) : \A v \in List(w2, j) : v.ghost # g
    BY <2>1, <2>5
  <2>7. Present(w2, g, NoObject)
    BY <1>3, <2>6 DEF Present
  <2>. QED
    BY <2>2, <2>3, <2>4, <2>7
<1>16. InfoInv(t2)
  <2>. SUFFICES ASSUME NEW g \in t.inUse
                PROVE  /\ InSegment(t2, g)
                       /\ t2.info[g].obj = NoObject <=>
                            "KillGhost" \in t2.info[g].flags \/ "KillingGhost" \in t2.info[g].flags
                       /\ ~({"NotYetGhosted", "Ghosting"} \subseteq t2.info[g].flags)
                       /\ ~({"NotYetGhosted", "KillingGhost"} \subseteq t2.info[g].flags)
                       /\ ~({"Ghosting", "KillingGhost"} \subseteq t2.info[g].flags)
    BY <1>11 DEF InfoInv
  <2>0. g \in Ghost
    BY <1>2
  <2>1. /\ InSegment(t, g)
        /\ t.info[g].obj = NoObject <=>
             "KillGhost" \in t.info[g].flags \/ "KillingGhost" \in t.info[g].flags
        /\ ~({"NotYetGhosted", "Ghosting"} \subseteq t.info[g].flags)
        /\ ~({"NotYetGhosted", "KillingGhost"} \subseteq t.info[g].flags)
        /\ ~({"Ghosting", "KillingGhost"} \subseteq t.info[g].flags)
    BY <1>1 DEF InfoInv
  <2>2. InSegment(t2, g)
    <3>1. g \in t2.updating <=> g \in t.updating \/ (g \in gs /\ t.info[g].updateMask = {} /\ missing[g] # {})
      BY <1>11
    <3>2. CASE g \in gs
      <4>1. t2.info[g].updateMask = t.info[g].updateMask \union missing[g]
        BY <1>12, <2>0, <3>2
      <4>. QED
        BY <2>1, <3>1, <3>2, <4>1 DEF InSegment
    <3>3. CASE g \notin gs
      <4>1. t2.info[g].updateMask = t.info[g].updateMask
        BY <1>12, <2>0, <3>3
      <4>. QED
        BY <2>1, <3>1, <3>3, <4>1 DEF InSegment
    <3>. QED
      BY <3>2, <3>3
  <2>3. t2.info[g].obj = t.info[g].obj
    BY <1>12, <2>0
  <2>4. CASE g \in G
    <3>1. t2.info[g].flags = (t.info[g].flags \ {"Ghosting"}) \union {"NotYetGhosted"}
      BY <1>12, <2>0, <2>4
    <3>2. "Ghosting" \in t.info[g].flags
      BY <1>14, <2>4
    <3>. QED
      BY <2>1, <2>2, <2>3, <3>1, <3>2
  <2>5. CASE g \notin G /\ g \in K
    <3>1. t2.info[g].flags = (t.info[g].flags \ {"KillingGhost"}) \union {"KillGhost"}
      BY <1>12, <2>0, <2>5
    <3>2. "KillingGhost" \in t.info[g].flags
      BY <1>15, <2>5
    <3>. QED
      BY <2>1, <2>2, <2>3, <3>1, <3>2
  <2>6. CASE g \notin G /\ g \notin K
    <3>1. t2.info[g].flags = t.info[g].flags
      BY <1>12, <2>0, <2>6
    <3>. QED
      BY <2>1, <2>2, <2>3, <3>1
  <2>. QED
    BY <2>4, <2>5, <2>6
<1>17. GhostsInv(t2, w2)
  <2>1. ASSUME NEW g \in Ghost \ t2.inUse PROVE Absent(w2, g)
    <3>1. Absent(w, g)
      BY <1>1, <1>11, <2>1 DEF GhostsInv
    <3>. QED
      BY <3>1, ShiftedAbsent
  <2>2. ASSUME NEW g \in t2.inUse
        PROVE  /\ "NotYetGhosted" \in t2.info[g].flags => Absent(w2, g)
               /\ "Ghosting" \in t2.info[g].flags => Creating(w2, g, t2.info[g].obj)
               /\ "KillingGhost" \in t2.info[g].flags => Removing(w2, g)
               /\ t2.info[g].flags \intersect {"NotYetGhosted", "Ghosting", "KillingGhost"} = {} =>
                    Present(w2, g, t2.info[g].obj)
    <3>1. g \in t.inUse /\ g \in Ghost
      BY <1>2, <1>11
    <3>2. /\ "NotYetGhosted" \in t.info[g].flags => Absent(w, g)
          /\ "Ghosting" \in t.info[g].flags => Creating(w, g, t.info[g].obj)
          /\ "KillingGhost" \in t.info[g].flags => Removing(w, g)
          /\ t.info[g].flags \intersect {"NotYetGhosted", "Ghosting", "KillingGhost"} = {} =>
               Present(w, g, t.info[g].obj)
      BY <1>1, <3>1 DEF GhostsInv
    <3>3. t2.info[g].obj = t.info[g].obj
      BY <1>12, <3>1
    <3>4. /\ ~({"NotYetGhosted", "Ghosting"} \subseteq t.info[g].flags)
          /\ ~({"NotYetGhosted", "KillingGhost"} \subseteq t.info[g].flags)
          /\ ~({"Ghosting", "KillingGhost"} \subseteq t.info[g].flags)
      BY <1>1, <3>1 DEF InfoInv
    <3>5. CASE g \in G
      <4>1. /\ Absent(w2, g) /\ "Ghosting" \in t.info[g].flags
            /\ t2.info[g].flags = (t.info[g].flags \ {"Ghosting"}) \union {"NotYetGhosted"}
        BY <1>12, <1>14, <3>1, <3>5
      <4>. QED
        BY <3>4, <4>1
    <3>6. CASE g \notin G /\ g \in K
      <4>1. /\ Present(w2, g, t2.info[g].obj) /\ "KillingGhost" \in t.info[g].flags
            /\ t2.info[g].flags = (t.info[g].flags \ {"KillingGhost"}) \union {"KillGhost"}
        BY <1>12, <1>15, <3>1, <3>3, <3>6
      <4>. QED
        BY <3>4, <4>1
    <3>7. CASE g \notin G /\ g \notin K
      <4>1. t2.info[g].flags = t.info[g].flags
        BY <1>12, <3>1, <3>7
      <4>2. Absent(w, g) => Absent(w2, g)
        BY ShiftedAbsent
      <4>3. \A o : Present(w, g, o) => Present(w2, g, o)
        BY ShiftedPresent
      <4>4. Creating(w, g, t.info[g].obj) => Creating(w2, g, t.info[g].obj)
        <5>. SUFFICES ASSUME Creating(w, g, t.info[g].obj) PROVE Creating(w2, g, t.info[g].obj)
          OBVIOUS
        <5>1. \/ Creating(w2, g, t.info[g].obj) /\ \A v \in List(w, 1) : v.ghost # g
              \/ \E u \in List(w, 1) : u.ghost = g /\ u.kind = "Ghosting"
          BY ShiftedCreating
        <5>. QED
          BY <1>13, <3>7, <5>1
      <4>5. Removing(w, g) => Removing(w2, g)
        <5>. SUFFICES ASSUME Removing(w, g) PROVE Removing(w2, g)
          OBVIOUS
        <5>1. \/ Removing(w2, g) /\ \A v \in List(w, 1) : v.ghost = g => v.kind = "Update"
              \/ \E u \in List(w, 1) : u.ghost = g /\ u.kind = "KillingGhost"
          BY ShiftedRemoving
        <5>. QED
          BY <1>13, <3>7, <5>1
      <4>. QED
        BY <3>2, <3>3, <4>1, <4>2, <4>3, <4>4, <4>5
    <3>. QED
      BY <3>5, <3>6, <3>7
  <2>. QED
    BY <2>1, <2>2 DEF GhostsInv
<1>18. StatesInv(t2, d, free, w2)
  <2>. SUFFICES ASSUME NEW g \in t2.inUse, t2.info[g].obj # NoObject, NEW bit \in Bit
                PROVE  \/ ToBeSent(t2, d, free, g, t2.info[g].obj, bit)
                       \/ /\ "NotYetGhosted" \notin t2.info[g].flags
                          /\ Remembered(w2, g, t2.info[g].obj, bit)
    BY DEF StatesInv
  <2>1. g \in t.inUse /\ g \in Ghost
    BY <1>2, <1>11
  <2>2. t2.info[g].obj = t.info[g].obj /\ t.info[g].updateMask \subseteq t2.info[g].updateMask
    BY <1>12, <2>1
  <2>. DEFINE o == t.info[g].obj
  <2>3. /\ g \notin K
        /\ g \notin G => ("NotYetGhosted" \in t2.info[g].flags <=> "NotYetGhosted" \in t.info[g].flags)
    BY <1>12, <1>15, <2>1, <2>2
  <2>4. CASE ToBeSent(t, d, free, g, o, bit)
    BY <2>2, <2>4 DEF ToBeSent
  <2>5. CASE "NotYetGhosted" \notin t.info[g].flags /\ w.ghosts[g].of = o /\ bit \in w.ghosts[g].current
    <3>1. g \notin G
      BY <1>14, <2>2, <2>5 DEF NoGhost
    <3>. QED
      BY <1>3, <2>2, <2>3, <2>5, <3>1 DEF Remembered
  <2>6. ASSUME "NotYetGhosted" \notin t.info[g].flags,
               NEW i \in Pos(w), NEW u \in List(w, i), u.ghost = g, bit \in u.current, i \notin w.arr
        PROVE  \/ ToBeSent(t2, d, free, g, o, bit)
               \/ "NotYetGhosted" \notin t2.info[g].flags /\ Remembered(w2, g, o, bit)
    <3>1. CASE i # 1
      <4>1. g \notin G
        BY <1>14, <2>6, <3>1
      <4>2. PICK j \in Pos(w2) : i = j + 1
        BY <3>1 DEF ShiftedTo
      <4>3. j \notin w2.arr
        BY <2>6, <4>2 DEF ShiftedTo
      <4>4. u \in List(w2, j)
        BY <2>6, <4>2, ShiftedLists
      <4>. QED
        BY <2>3, <2>6, <4>1, <4>3, <4>4 DEF Remembered
    <3>2. CASE i = 1
      <4>1. u \in List(w, 1) /\ u \in Updates(w, 1)
        BY <1>5, <3>2
      <4>2. bit \in u.mask
        BY <1>3, <1>4, <2>6, <4>1 DEF NotesInv
      <4>3. CASE bit \in missing[g]
        <5>1. g \in gs
          BY <1>5, <2>6, <4>1
        <5>2. bit \in t2.info[g].updateMask
          BY <1>12, <2>1, <4>3, <5>1
        <5>. QED
          BY <5>2 DEF ToBeSent
      <4>4. CASE bit \notin missing[g]
        <5>1. PICK j \in Pos(w) : j # 1 /\ \E v \in List(w, j) : v.ghost = g /\ bit \in v.mask
          BY <2>6, <4>1, <4>2, <4>4 DEF MissingRight
        <5>2. PICK v \in List(w, j) : v.ghost = g /\ bit \in v.mask
          BY <5>1
        <5>3. g \notin G
          BY <1>14, <5>1, <5>2
        <5>4. u.obj = o
          BY <1>1, <1>3, <1>4, <2>1, <2>2, <2>6, <4>1, ObjectOfUpdates
        <5>5. v.obj = o /\ "KillingGhost" \notin t.info[g].flags
          BY <1>1, <1>4, <2>1, <2>2, <5>2, ObjectOfUpdates
        <5>6. 1 < j
          BY <5>1 DEF ShiftedTo
        <5>7. bit \in v.current
          BY <1>3, <1>4, <2>6, <4>1, <5>2, <5>4, <5>5, <5>6 DEF CurrentInv
        <5>8. CASE j \notin w.arr
          <6>1. PICK k \in Pos(w2) : j = k + 1
            BY <5>1 DEF ShiftedTo
          <6>2. k \notin w2.arr
            BY <5>8, <6>1 DEF ShiftedTo
          <6>3. v \in List(w2, k)
            BY <5>2, <6>1, ShiftedLists
          <6>. QED
            BY <2>3, <2>6, <5>2, <5>3, <5>7, <6>2, <6>3 DEF Remembered
        <5>9. CASE j \in w.arr
          <6>1. ~Creating(w, g, o)
            BY <1>3, <2>6, <4>1, <5>1, <5>2 DEF Creating
          <6>2. "Ghosting" \notin t.info[g].flags
            BY <1>1, <2>1, <6>1 DEF GhostsInv
          <6>3. Present(w, g, o)
            BY <1>1, <2>1, <2>6, <5>5, <6>2 DEF GhostsInv
          <6>4. w.ghosts[g].of = o
            BY <2>2, <6>3 DEF Present
          <6>5. bit \in w.ghosts[g].current
            BY <1>4, <5>2, <5>5, <5>7, <5>9, <6>4 DEF CurrentInv
          <6>. QED
            BY <1>3, <2>3, <2>6, <5>3, <6>4, <6>5 DEF Remembered
        <5>. QED
          BY <5>8, <5>9
      <4>. QED
        BY <4>3, <4>4
    <3>. QED
      BY <3>1, <3>2
  <2>7. \/ ToBeSent(t, d, free, g, o, bit)
        \/ "NotYetGhosted" \notin t.info[g].flags /\ Remembered(w, g, o, bit)
    BY <1>1, <2>1, <2>2 DEF StatesInv
  <2>8. CASE "NotYetGhosted" \notin t.info[g].flags /\ Remembered(w, g, o, bit)
    BY <2>2, <2>5, <2>6, <2>8 DEF Remembered
  <2>. QED
    BY <2>2, <2>4, <2>7, <2>8
<1>19. Dormant(t, w) => Dormant(t2, w2)
  <2>. SUFFICES ASSUME Dormant(t, w) PROVE Dormant(t2, w2)
    OBVIOUS
  <2>1. \A i \in Pos(w2) : List(w2, i) = {}
    BY ShiftedLists DEF Dormant
  <2>2. G = {} /\ K = {}
    BY <1>3, <1>13 DEF Dormant
  <2>3. ASSUME NEW g \in t2.inUse PROVE "NotYetGhosted" \in t2.info[g].flags
    BY <1>2, <1>11, <1>12, <2>2, <2>3 DEF Dormant
  <2>. QED
    BY <2>1, <2>3 DEF Dormant
<1>. QED
  BY <1>11, <1>16, <1>17, <1>18, <1>19 DEF TableInv

\* What HandleNotify leaves of the type invariant and the channel.
NotifiedTyped ==
  /\ ChanTypeOK' /\ ChannelInv' /\ StartsRight'
  /\ mDirtyMaskBits' = mDirtyMaskBits /\ cleared' = cleared /\ mGhosting' = mGhosting
  /\ scope' \subseteq exists' /\ exists' \subseteq Object /\ cleared' \subseteq Object \X Bit
  /\ {mScopeObject', mGhosting', mScoping'} \subseteq BOOLEAN
  /\ mGhostingSequence' \in Nat /\ calls' \in Nat
  /\ notes' \in Seq(Note) /\ Len(notes') = sent'[Server] - notified'[Server]
  /\ rpcs' = rpcs
  /\ \A i \in DOMAIN notes' : notes'[i].rpcs \subseteq DOMAIN rpcs
  /\ rpcWaiting' \subseteq DOMAIN rpcs
  /\ rpcDone' \in 0 .. Len(rpcs) /\ replied' \in 0 .. rpcDone'
  /\ mLocalGhosts' \in [Ghost -> LocalGhost]

(* The note of the first packet goes.                                      *)
LEMMA HandleNotifyStep ==
  ASSUME IInv, HandleNotify
  PROVE  ShiftedTo(Link, Link') /\ NotifiedTyped
<1>. DEFINE k == notified[Server]
<1>1. /\ Unnotified(Server) # {}
      /\ notified' = [notified EXCEPT ![Server] = k + 1]
      /\ confirmed' = [confirmed EXCEPT ![Server] =
                        @ \union {m \in arrived[Server] : notified[Server] < m /\ m <= k + 1}]
      /\ notes' = Tail(notes)
      /\ UNCHANGED <<open, sent, arrived, mDirtyMaskBits, serverVars, rpcs, clientVars,
                     worldVars>>
  BY DEF HandleNotify, NotifyUpTo
<1>2. TypeOK /\ ChannelInv /\ StartsRight
  BY DEF IInv
<1>3. /\ notified \in [Side -> Nat] /\ sent \in [Side -> Nat]
      /\ confirmed \in [Side -> SUBSET Nat] /\ arrived \in [Side -> SUBSET Nat]
      /\ open \in [Side -> BOOLEAN]
      /\ notes \in Seq(Note) /\ Len(notes) = sent[Server] - k
  BY <1>2 DEF TypeOK, ChanTypeOK
<1>4. Server \in Side
  BY DEF Server, Side
<1>5. k \in Nat /\ sent[Server] \in Nat /\ k + 1 <= sent[Server] /\ arrived[Server] \subseteq Nat
  <2>1. k \in Nat /\ sent[Server] \in Nat /\ arrived[Server] \subseteq Nat
    BY <1>3, <1>4
  <2>. QED
    BY <1>1, <2>1 DEF Unnotified
<1>6. /\ notified' \in [Side -> Nat] /\ notified'[Server] = k + 1
      /\ confirmed' \in [Side -> SUBSET Nat]
  <2>1. notified' \in [Side -> Nat] /\ notified'[Server] = k + 1
    <3>1. k + 1 \in Nat
      BY <1>5
    <3>. HIDE DEF k
    <3>. QED
      BY <1>1, <1>3, <1>4, <3>1
  <2>2. confirmed' \in [Side -> SUBSET Nat]
    BY <1>1, <1>3, <1>4, <1>5
  <2>. QED
    BY <2>1, <2>2
<1>7. /\ Len(notes) \in Nat /\ DOMAIN notes = 1 .. Len(notes) /\ 1 <= Len(notes)
      /\ notes' \in Seq(Note) /\ Len(notes') = Len(notes) - 1
      /\ DOMAIN notes' = 1 .. Len(notes) - 1
      /\ \A i \in 1 .. Len(notes) - 1 : notes'[i] = notes[i + 1]
  <2>1. notes # << >>
    BY <1>3, <1>5
  <2>. QED
    BY <1>1, <1>3, <2>1
<1>. HIDE DEF k
<1>8. Len(notes') = sent'[Server] - notified'[Server]
  BY <1>1, <1>3, <1>5, <1>6, <1>7
<1>9. /\ Link.notes = notes /\ Link.ghosts = mLocalGhosts /\ Link.waiting = rpcWaiting
      /\ Link.arr = {i \in DOMAIN notes : k + i \in arrived[Server]}
      /\ Link.rd = {i \in DOMAIN notes : \A m \in arrived[Server] : m < k + i}
      /\ Link.ends = {r \in rpcDone + 1 .. Len(rpcs) : rpcs[r].type = "rpcEndGhosting"}
  BY DEF Link, k
<1>10. /\ Link'.notes = notes' /\ Link'.ghosts = mLocalGhosts' /\ Link'.waiting = rpcWaiting'
       /\ Link'.arr = {i \in DOMAIN notes' : notified'[Server] + i \in arrived'[Server]}
       /\ Link'.rd = {i \in DOMAIN notes' : \A m \in arrived'[Server] : m < notified'[Server] + i}
       /\ Link'.ends = {r \in rpcDone' + 1 .. Len(rpcs') : rpcs'[r].type = "rpcEndGhosting"}
  BY DEF Link
<1>11. /\ mLocalGhosts' = mLocalGhosts /\ rpcWaiting' = rpcWaiting /\ rpcDone' = rpcDone
       /\ rpcs' = rpcs /\ arrived' = arrived /\ sent' = sent /\ open' = open
  BY <1>1 DEF clientVars
<1>12. /\ Link'.arr = {i \in 1 .. Len(notes) - 1 : (k + 1) + i \in arrived[Server]}
       /\ Link'.rd = {i \in 1 .. Len(notes) - 1 : \A m \in arrived[Server] : m < (k + 1) + i}
       /\ Link'.ghosts = Link.ghosts /\ Link'.waiting = Link.waiting /\ Link'.ends = Link.ends
  BY <1>6, <1>7, <1>9, <1>10, <1>11
<1>13. ShiftedTo(Link, Link')
  <2>1. Pos(Link) = 1 .. Len(notes) /\ Pos(Link') = 1 .. Len(notes) - 1
    BY <1>7, <1>9, <1>10 DEF Pos
  <2>2. 1 \in Pos(Link)
    BY <1>7, <2>1
  <2>3. ASSUME NEW i \in Pos(Link)
        PROVE  /\ ~(i < 1) /\ (i <= 1 => i = 1) /\ (i # 1 => 1 < i)
               /\ i = 1 \/ \E j \in Pos(Link') : i = j + 1
    <3>1. i \in Nat /\ 1 <= i /\ i <= Len(notes)
      BY <1>7, <2>1
    <3>2. i # 1 => i - 1 \in Pos(Link') /\ i = (i - 1) + 1
      BY <1>7, <2>1, <3>1
    <3>3. i = 1 \/ \E j \in Pos(Link') : i = j + 1
      BY <3>2
    <3>. QED
      BY <3>1, <3>3
  <2>4. ASSUME NEW i \in Pos(Link')
        PROVE  /\ i + 1 \in Pos(Link) /\ i + 1 # 1
               /\ Link'.notes[i] = Link.notes[i + 1]
               /\ i \in Link'.arr <=> i + 1 \in Link.arr
               /\ i \in Link'.rd <=> i + 1 \in Link.rd
               /\ \A j \in Pos(Link') : /\ i < j <=> i + 1 < j + 1
                                        /\ i <= j <=> i + 1 <= j + 1
                                        /\ i = j <=> i + 1 = j + 1
    <3>1. i \in Nat /\ 1 <= i /\ i <= Len(notes) - 1 /\ i \in 1 .. Len(notes) - 1
      BY <1>7, <2>1
    <3>2. i + 1 \in Pos(Link) /\ i + 1 # 1 /\ (k + 1) + i = k + (i + 1)
      BY <1>5, <1>7, <2>1, <3>1
    <3>3. Link'.notes[i] = Link.notes[i + 1]
      BY <1>7, <1>9, <1>10, <3>1
    <3>4. i + 1 \in DOMAIN notes
      BY <1>7, <2>1, <3>2
    <3>5. i \in Link'.arr <=> i + 1 \in Link.arr
      BY <1>9, <1>12, <3>1, <3>2, <3>4
    <3>6. i \in Link'.rd <=> i + 1 \in Link.rd
      BY <1>9, <1>12, <3>1, <3>2, <3>4
    <3>7. \A j \in Pos(Link') : /\ i < j <=> i + 1 < j + 1
                                /\ i <= j <=> i + 1 <= j + 1
                                /\ i = j <=> i + 1 = j + 1
      BY <1>7, <2>1, <3>1
    <3>. QED
      BY <3>2, <3>3, <3>5, <3>6, <3>7
  <2>5. Link'.rd \subseteq Pos(Link')
    BY <1>12, <2>1
  <2>. QED
    BY <1>12, <2>2, <2>3, <2>4, <2>5 DEF ShiftedTo
<1>14. ChanTypeOK'
  BY <1>3, <1>6, <1>11 DEF ChanTypeOK
<1>15. ChannelInv'
  <2>1. notified'[Server] <= sent'[Server]
    BY <1>5, <1>6, <1>11
  <2>. QED
    BY <1>2, <1>11, <2>1 DEF ChannelInv
<1>16. StartsRight'
  BY <1>1, <1>2 DEF StartsRight, serverVars
<1>17. \A i \in DOMAIN notes' : notes'[i].rpcs \subseteq DOMAIN rpcs
  <2>1. \A i \in DOMAIN notes : notes[i].rpcs \subseteq DOMAIN rpcs
    BY <1>2 DEF TypeOK
  <2>2. \A i \in 1 .. Len(notes) - 1 : i + 1 \in DOMAIN notes
    BY <1>7
  <2>. QED
    BY <1>7, <2>1, <2>2
<1>18. NotifiedTyped
  <2>1. /\ mDirtyMaskBits' = mDirtyMaskBits /\ cleared' = cleared /\ mGhosting' = mGhosting
        /\ scope' \subseteq exists' /\ exists' \subseteq Object /\ cleared' \subseteq Object \X Bit
        /\ {mScopeObject', mGhosting', mScoping'} \subseteq BOOLEAN
        /\ mGhostingSequence' \in Nat /\ calls' \in Nat
    BY <1>1, <1>2 DEF TypeOK, serverVars, worldVars
  <2>2. /\ rpcWaiting' \subseteq DOMAIN rpcs
        /\ rpcDone' \in 0 .. Len(rpcs) /\ replied' \in 0 .. rpcDone'
        /\ mLocalGhosts' \in [Ghost -> LocalGhost]
    BY <1>1, <1>2 DEF TypeOK, clientVars
  <2>. QED
    BY <1>7, <1>8, <1>11, <1>14, <1>15, <1>16, <1>17, <2>1, <2>2 DEF NotifiedTyped
<1>. QED
  BY <1>13, <1>18

(* From there, what is left to show of packetReceived and packetDropped.   *)
LEMMA NotifiedInv ==
  ASSUME IInv, ShiftedTo(Link, Link'), NotifiedTyped,
         TableInv(mGhostArray', mDirtyMaskBits, cleared, Link'),
         Dormant(mGhostArray, Link) => Dormant(mGhostArray', Link'),
         rpcQueue' \subseteq DOMAIN rpcs
  PROVE  IInv'
<1>1. LinkType(Link) /\ LinkInv(Link)
  BY LinkTyped DEF IInv
<1>2. LinkInv(Link')
  BY <1>1, ShiftedLink
<1>3. Link'.ends = Link.ends
  BY DEF ShiftedTo
<1>4. /\ mGhostArray' \in GhostArray /\ mGhostArray'.updating \subseteq mGhostArray'.inUse
      /\ mDirtyMaskBits \in [Object -> SUBSET Bit] /\ rpcs \in Seq(Rpc)
  BY DEF TableInv, IInv, TypeOK
<1>5. TypeOK'
  BY <1>4 DEF NotifiedTyped, TypeOK
<1>6. TableInv(mGhostArray', mDirtyMaskBits', cleared', Link')
  BY DEF NotifiedTyped
<1>7. (mGhosting' => Link'.ends = {}) /\ (mGhosting' \/ Dormant(mGhostArray', Link'))
  BY <1>3 DEF NotifiedTyped, IInv
<1>8. ChannelInv' /\ StartsRight'
  BY DEF NotifiedTyped
<1>. QED
  BY <1>2, <1>5, <1>6, <1>7, <1>8 DEF IInv

(* packetReceived keeps the invariant.                                     *)
LEMMA ReceivedStep ==
  ASSUME IInv, PacketReceived PROVE IInv'
<1>1. /\ HandleNotify /\ notified[Server] + 1 \in arrived[Server] /\ rpcQueue' = rpcQueue
      /\ mGhostArray' = Freed(Cleared(mGhostArray, OfKind(ghostList(1), "Ghosting"), "Ghosting"),
                              OfKind(ghostList(1), "KillingGhost"))
  BY DEF PacketReceived
<1>2. ShiftedTo(Link, Link') /\ NotifiedTyped
  BY <1>1, HandleNotifyStep
<1>3. ghostList(1) = List(Link, 1) /\ 1 \in Link.arr
  <2>1. Link.notes = notes
    BY DEF Link
  <2>2. 1 \in DOMAIN notes
    BY <1>2, <2>1 DEF ShiftedTo, Pos
  <2>. QED
    BY <1>1, <2>1, <2>2 DEF Link, List, ghostList
<1>4. LinkType(Link) /\ LinkInv(Link) /\ TypeOK
  BY LinkTyped DEF IInv
<1>5. TableInv(mGhostArray, mDirtyMaskBits, cleared, Link)
  BY DEF IInv
<1>6. mGhostArray' = Freed(Cleared(mGhostArray, OfKind(List(Link, 1), "Ghosting"), "Ghosting"),
                           OfKind(List(Link, 1), "KillingGhost"))
  BY <1>1, <1>3
<1>7. /\ TableInv(mGhostArray', mDirtyMaskBits, cleared, Link')
      /\ Dormant(mGhostArray, Link) => Dormant(mGhostArray', Link')
  BY <1>2, <1>3, <1>4, <1>5, <1>6, ReceivedTable
<1>8. rpcQueue' \subseteq DOMAIN rpcs
  BY <1>1, <1>4 DEF TypeOK
<1>. QED
  BY <1>2, <1>7, <1>8, NotifiedInv

(* packetDropped keeps the invariant.                                      *)
LEMMA DroppedStep ==
  ASSUME IInv, PacketDropped PROVE IInv'
<1>. DEFINE updates == ghostList(1)
            gs == {u.ghost : u \in updates}
            missing == [g \in gs |-> StillMissing(CHOOSE u \in updates : u.ghost = g)]
<1>1. /\ HandleNotify /\ notified[Server] + 1 \notin arrived[Server]
      /\ mGhostArray' = Repeated(Flagged(mGhostArray, gs, missing), updates)
      /\ rpcQueue' = rpcQueue \union Head(notes).rpcs
  BY DEF PacketDropped
<1>2. ShiftedTo(Link, Link') /\ NotifiedTyped
  BY <1>1, HandleNotifyStep
<1>3. LinkType(Link) /\ LinkInv(Link) /\ TypeOK
  BY LinkTyped DEF IInv
<1>4. Link.notes = notes /\ Pos(Link) = DOMAIN notes /\ 1 \in DOMAIN notes
  BY <1>2 DEF Link, Pos, ShiftedTo
<1>5. \A i : ghostList(i) = List(Link, i)
  BY <1>4 DEF List, ghostList
<1>6. 1 \notin Link.arr
  BY <1>1 DEF Link
<1>7. updates = List(Link, 1)
  BY <1>5
<1>. HIDE DEF updates
<1>8. MissingRight(Link, gs, missing)
  <2>1. ASSUME NEW u \in List(Link, 1)
        PROVE  /\ u.ghost \in gs /\ (CHOOSE x \in updates : x.ghost = u.ghost) = u
               /\ missing[u.ghost] = StillMissing(u) /\ u.mask \subseteq Bit
    <3>1. u \in Updates(Link, 1)
      BY ListIsUpdates
    <3>2. \A v \in Updates(Link, 1) : u.ghost = v.ghost => u = v
      BY <1>3, <1>4, <3>1 DEF LinkInv, NotesInv
    <3>3. \A v \in updates : v.ghost = u.ghost => v = u
      BY <1>7, <3>2, ListIsUpdates
    <3>4. u.ghost \in gs
      BY <1>7
    <3>5. (CHOOSE x \in updates : x.ghost = u.ghost) = u
      BY <1>7, <3>3
    <3>6. missing[u.ghost] = StillMissing(u)
      BY <3>4, <3>5
    <3>7. u.mask \subseteq Bit
      BY <1>3, <1>4, <3>1, UpdatesTyped
    <3>. QED
      BY <3>4, <3>5, <3>6, <3>7
  <2>. DEFINE later(g) == {x \in UNION {ghostList(i) : i \in 2 .. Len(notes)} : x.ghost = g}
  <2>2. ASSUME NEW u \in List(Link, 1)
        PROVE  missing[u.ghost] = u.mask \ UNION {v.mask : v \in later(u.ghost)}
    BY <2>1 DEF StillMissing
  <2>. HIDE DEF missing
  <2>3. \A g : \A x \in later(g) : x.ghost = g /\ \E i \in 2 .. Len(notes) : x \in List(Link, i)
    BY <1>5
  <2>4. \A i \in 2 .. Len(notes) : i \in Pos(Link) /\ i # 1
    BY <1>3, <1>4 DEF LinkType
  <2>. HIDE DEF later
  <2>5. missing \in [gs -> SUBSET Bit]
    <3>1. DOMAIN missing = gs /\ missing = [g \in gs |-> missing[g]]
      BY DEF missing
    <3>2. ASSUME NEW g \in gs PROVE missing[g] \subseteq Bit
      <4>1. PICK u \in List(Link, 1) : u.ghost = g
        BY <1>7
      <4>. QED
        BY <2>1, <2>2, <4>1
    <3>. QED
      BY <3>1, <3>2
  <2>6. ASSUME NEW u \in List(Link, 1), NEW bit \in u.mask, bit \notin missing[u.ghost]
        PROVE  \E j \in Pos(Link) : j # 1 /\ \E v \in List(Link, j) : v.ghost = u.ghost /\ bit \in v.mask
    <3>1. PICK v \in later(u.ghost) : bit \in v.mask
      BY <2>2, <2>6
    <3>2. PICK j \in 2 .. Len(notes) : v \in List(Link, j)
      BY <2>3, <3>1
    <3>. QED
      BY <2>3, <2>4, <3>1, <3>2
  <2>7. gs = {u.ghost : u \in List(Link, 1)}
    BY <1>7
  <2>. HIDE DEF gs
  <2>. QED
    BY <2>5, <2>6, <2>7 DEF MissingRight
<1>. HIDE DEF gs, missing
<1>9. TableInv(mGhostArray, mDirtyMaskBits, cleared, Link)
  BY DEF IInv
<1>10. mGhostArray' = Repeated(Flagged(mGhostArray, gs, missing), List(Link, 1))
  BY <1>1, <1>7
<1>11. /\ TableInv(mGhostArray', mDirtyMaskBits, cleared, Link')
       /\ Dormant(mGhostArray, Link) => Dormant(mGhostArray', Link')
  BY <1>2, <1>3, <1>6, <1>8, <1>9, <1>10, DroppedTable
<1>12. rpcQueue' \subseteq DOMAIN rpcs
  <2>1. Head(notes) = notes[1]
    BY <1>3, <1>4 DEF TypeOK
  <2>2. notes[1].rpcs \subseteq DOMAIN rpcs /\ rpcQueue \subseteq DOMAIN rpcs
    BY <1>3, <1>4 DEF TypeOK
  <2>. QED
    BY <1>1, <2>1, <2>2
<1>. QED
  BY <1>2, <1>11, <1>12, NotifiedInv

-----------------------------------------------------------------------------
(* The initiator reads a packet: the ghosts change as it says.             *)
ReadAs(ghosts, updates, ghosts2) ==
  /\ \A g \in Ghost : (\A u \in updates : u.ghost # g) => ghosts2[g] = ghosts[g]
  /\ \A u \in updates :
       /\ u.kind = "KillingGhost" => ghosts2[u.ghost] = NoGhost
       /\ u.kind # "KillingGhost" /\ ghosts[u.ghost] = NoGhost =>
            ghosts2[u.ghost].of = u.obj /\ ghosts2[u.ghost].current = u.current
       /\ u.kind # "KillingGhost" /\ ghosts[u.ghost] # NoGhost =>
            /\ ghosts2[u.ghost].of = ghosts[u.ghost].of
            /\ ghosts2[u.ghost].current = (ghosts[u.ghost].current \ u.mask) \union u.current

(* What AfterUpdates does, ghost by ghost, as a packet has one update for  *)
(* each.                                                                   *)
LEMMA ReadGhosts ==
  ASSUME NEW ghosts \in [Ghost -> LocalGhost], NEW updates \in SUBSET Update,
         \A u, v \in updates : u.ghost = v.ghost => u = v,
         NEW ghosts2, ghosts2 = AfterUpdates(ghosts, updates)
  PROVE  ReadAs(ghosts, updates, ghosts2) /\ ghosts2 \in [Ghost -> LocalGhost]
<1>. DEFINE about(g) == CHOOSE x \in updates : x.ghost = g
<1>1. ghosts2 = [g \in Ghost |->
        IF \A u \in updates : u.ghost # g THEN ghosts[g]
        ELSE IF about(g).kind = "KillingGhost" THEN NoGhost
             ELSE IF ghosts[g] = NoGhost THEN [of |-> about(g).obj, current |-> about(g).current]
             ELSE [ghosts[g] EXCEPT !.current = (@ \ about(g).mask) \union about(g).current]]
  BY DEF AfterUpdates
<1>2. ASSUME NEW u \in updates
      PROVE  /\ about(u.ghost) = u /\ u.ghost \in Ghost
             /\ u.obj \in Object \union {NoObject} /\ u.current \subseteq Bit
  <2>1. about(u.ghost) \in updates /\ about(u.ghost).ghost = u.ghost
    OBVIOUS
  <2>. HIDE DEF about
  <2>2. about(u.ghost) = u
    BY <2>1
  <2>. QED
    BY <2>2 DEF Update
<1>. HIDE DEF about
<1>3. ASSUME NEW g \in Ghost, \A u \in updates : u.ghost # g
      PROVE  ghosts2[g] = ghosts[g]
  BY <1>1, <1>3
<1>4. ASSUME NEW u \in updates
      PROVE  ghosts2[u.ghost] =
               IF u.kind = "KillingGhost" THEN NoGhost
               ELSE IF ghosts[u.ghost] = NoGhost THEN [of |-> u.obj, current |-> u.current]
               ELSE [ghosts[u.ghost] EXCEPT !.current = (@ \ u.mask) \union u.current]
  <2>. DEFINE g == u.ghost
  <2>1. g \in Ghost /\ about(g) = u /\ ~(\A v \in updates : v.ghost # g)
    BY <1>2
  <2>. HIDE DEF g
  <2>2. ghosts2[g] =
          IF about(g).kind = "KillingGhost" THEN NoGhost
          ELSE IF ghosts[g] = NoGhost THEN [of |-> about(g).obj, current |-> about(g).current]
          ELSE [ghosts[g] EXCEPT !.current = (@ \ about(g).mask) \union about(g).current]
    BY <1>1, <2>1
  <2>3. ghosts2[g] =
          IF u.kind = "KillingGhost" THEN NoGhost
          ELSE IF ghosts[g] = NoGhost THEN [of |-> u.obj, current |-> u.current]
          ELSE [ghosts[g] EXCEPT !.current = (@ \ u.mask) \union u.current]
    BY <2>1, <2>2
  <2>. QED
    BY <2>3 DEF g
<1>5. ASSUME NEW u \in updates
      PROVE  /\ u.kind = "KillingGhost" => ghosts2[u.ghost] = NoGhost
             /\ u.kind # "KillingGhost" /\ ghosts[u.ghost] = NoGhost =>
                  ghosts2[u.ghost].of = u.obj /\ ghosts2[u.ghost].current = u.current
             /\ u.kind # "KillingGhost" /\ ghosts[u.ghost] # NoGhost =>
                  /\ ghosts2[u.ghost].of = ghosts[u.ghost].of
                  /\ ghosts2[u.ghost].current = (ghosts[u.ghost].current \ u.mask) \union u.current
             /\ ghosts2[u.ghost] \in LocalGhost
  <2>1. ghosts[u.ghost] \in LocalGhost
    BY <1>2
  <2>2. CASE u.kind = "KillingGhost"
    <3>1. NoGhost \in LocalGhost
      BY DEF NoGhost, LocalGhost
    <3>2. ghosts2[u.ghost] = NoGhost
      BY <1>4, <2>2
    <3>. QED
      BY <2>2, <3>1, <3>2
  <2>3. CASE u.kind # "KillingGhost" /\ ghosts[u.ghost] = NoGhost
    <3>1. ghosts2[u.ghost] = [of |-> u.obj, current |-> u.current]
      BY <1>4, <2>3
    <3>. QED
      BY <1>2, <2>3, <3>1 DEF LocalGhost
  <2>4. CASE u.kind # "KillingGhost" /\ ghosts[u.ghost] # NoGhost
    <3>1. ghosts2[u.ghost] = [ghosts[u.ghost] EXCEPT !.current = (@ \ u.mask) \union u.current]
      BY <1>4, <2>4
    <3>. QED
      BY <1>2, <2>1, <2>4, <3>1 DEF LocalGhost
  <2>. QED
    BY <2>2, <2>3, <2>4
<1>6. ghosts2 \in [Ghost -> LocalGhost]
  <2>1. ASSUME NEW g \in Ghost PROVE ghosts2[g] \in LocalGhost
    <3>1. CASE \A u \in updates : u.ghost # g
      BY <1>3, <3>1
    <3>2. CASE \E u \in updates : u.ghost = g
      BY <1>5, <3>2
    <3>. QED
      BY <3>1, <3>2
  <2>. QED
    BY <1>1, <2>1
<1>. QED
  BY <1>3, <1>5, <1>6 DEF ReadAs

ReadTo(w, i, E, w2) ==
  /\ i \in w.rd /\ w2.notes = w.notes
  /\ w2.arr = w.arr \union {i} /\ w2.rd = {j \in w.rd : i < j}
  /\ E \subseteq w.waiting \union w.notes[i].rpcs
  /\ w2.ends = w.ends \ E
  /\ w2.waiting \subseteq w.waiting \union w.notes[i].rpcs

(* The ends that are executed, and those that wait, announce no updates.   *)
LEMMA ReadEnds ==
  ASSUME NEW w, NEW i, NEW E, NEW w2, ReadTo(w, i, E, w2), LinkType(w), LinkInv(w)
  PROVE  /\ EndsInv(w2)
         /\ w.ends \intersect E # {} => \A j \in w.rd : i <= j => Updates(w, j) = {}
         /\ \A j : Updates(w2, j) = Updates(w, j) /\ List(w2, j) = List(w, j)
         /\ Pos(w2) = Pos(w)
<1>1. \A j : Updates(w2, j) = Updates(w, j) /\ List(w2, j) = List(w, j)
  BY DEF ReadTo, Updates, List
<1>2. Pos(w2) = Pos(w) /\ w2.rd = {j \in w.rd : i < j} /\ i \in w.rd /\ i \in Pos(w)
      /\ w2.notes = w.notes /\ w.rd \subseteq Pos(w)
  BY DEF ReadTo, Pos, LinkType
<1>3. \A j \in Pos(w) : i < j => i <= j
  BY <1>2 DEF LinkType, Pos
<1>4. ASSUME NEW r \in w.ends, r \in w.waiting \union w.notes[i].rpcs, NEW j \in w.rd, i <= j
      PROVE  Updates(w, j) = {}
  BY <1>2, <1>4 DEF LinkInv, EndsInv
<1>5. w2.ends \subseteq w.ends /\ w2.ends = w.ends \ E
  BY DEF ReadTo
<1>6. EndsInv(w2)
  <2>1. ASSUME NEW r \in w2.ends, NEW k \in Pos(w2), r \in w2.notes[k].rpcs,
               NEW j \in Pos(w2), k <= j
        PROVE  Updates(w2, j) = {}
    BY <1>1, <1>2, <1>5, <2>1 DEF LinkInv, EndsInv
  <2>2. ASSUME NEW r \in w2.ends, r \in w2.waiting, NEW j \in w2.rd
        PROVE  Updates(w2, j) = {}
    <3>1. r \in w.waiting \union w.notes[i].rpcs
      BY <2>2 DEF ReadTo
    <3>. QED
      BY <1>1, <1>2, <1>3, <1>4, <1>5, <3>1
  <2>3. ASSUME w2.ends = {}, NEW j \in w2.rd, ~w2.notes[j].listed
        PROVE  Updates(w2, j) = {}
    <3>1. CASE w.ends = {}
      BY <1>1, <1>2, <2>3, <3>1 DEF LinkInv, EndsInv
    <3>2. CASE w.ends # {}
      <4>1. PICK r \in w.ends : r \in E
        BY <1>5, <2>3, <3>2
      <4>2. r \in w.waiting \union w.notes[i].rpcs
        BY <4>1 DEF ReadTo
      <4>. QED
        BY <1>1, <1>2, <1>3, <1>4, <4>1, <4>2
    <3>. QED
      BY <3>1, <3>2
  <2>. QED
    BY <2>1, <2>2, <2>3 DEF EndsInv
<1>7. ASSUME w.ends \intersect E # {}, NEW j \in w.rd, i <= j PROVE Updates(w, j) = {}
  <2>1. PICK r \in w.ends : r \in E
    BY <1>7
  <2>2. r \in w.waiting \union w.notes[i].rpcs
    BY <2>1 DEF ReadTo
  <2>. QED
    BY <1>4, <1>7, <2>1, <2>2
<1>. QED
  BY <1>1, <1>2, <1>6, <1>7

(* The initiator is told of the end of a session, and deletes its ghosts.  *)
LEMMA ReadEnded ==
  ASSUME NEW w, NEW i, NEW E, NEW w2, ReadTo(w, i, E, w2), LinkType(w), LinkInv(w),
         w.ends \intersect E # {}, w2.ghosts = [g \in Ghost |-> NoGhost],
         NEW t, NEW d, NEW free, TableInv(t, d, free, w), Dormant(t, w)
  PROVE  LinkInv(w2) /\ TableInv(t, d, free, w2) /\ Dormant(t, w2)
<1>1. /\ EndsInv(w2) /\ \A j \in w.rd : i <= j => Updates(w, j) = {}
      /\ \A j : Updates(w2, j) = Updates(w, j) /\ List(w2, j) = List(w, j)
      /\ Pos(w2) = Pos(w)
  BY ReadEnds
<1>2. \A j \in w2.rd : j \in w.rd /\ i <= j
  <2>1. \A j \in w2.rd : j \in w.rd /\ i < j /\ i \in Nat /\ j \in Nat
    BY DEF ReadTo, LinkType, Pos
  <2>. QED
    BY <2>1
<1>3. \A j \in w2.rd : Updates(w2, j) = {}
  BY <1>1, <1>2
<1>4. \A j \in Pos(w2) : List(w2, j) = {}
  BY <1>1 DEF Dormant
<1>5. \A g \in Ghost : w2.ghosts[g] = NoGhost
  OBVIOUS
<1>6. NotesInv(w2) /\ ReadableInv(w2)
  BY <1>1, <1>3 DEF LinkInv, NotesInv, ReadableInv
<1>7. CurrentInv(w2)
  BY <1>4, <1>5 DEF CurrentInv
<1>8. Dormant(t, w2)
  BY <1>4 DEF Dormant
<1>9. GhostsInv(t, w2)
  <2>1. t.inUse \subseteq Ghost
    BY DEF TableInv, GhostArray
  <2>2. \A g \in Ghost : Absent(w2, g)
    BY <1>4, <1>5 DEF Absent
  <2>3. \A g \in t.inUse : /\ "NotYetGhosted" \in t.info[g].flags
                           /\ "Ghosting" \notin t.info[g].flags
                           /\ "KillingGhost" \notin t.info[g].flags
    BY DEF Dormant, TableInv, InfoInv
  <2>. QED
    BY <2>1, <2>2, <2>3 DEF GhostsInv
<1>10. StatesInv(t, d, free, w2)
  <2>1. \A g \in t.inUse : "NotYetGhosted" \in t.info[g].flags
    BY DEF Dormant
  <2>2. StatesInv(t, d, free, w)
    BY DEF TableInv
  <2>. QED
    BY <2>1, <2>2 DEF StatesInv
<1>. QED
  BY <1>1, <1>6, <1>7, <1>8, <1>9, <1>10 DEF LinkInv, TableInv

(* The initiator reads the updates of a packet of this session.            *)
LEMMA ReadLink ==
  ASSUME NEW w, NEW i, NEW E, NEW w2, ReadTo(w, i, E, w2), LinkType(w), LinkInv(w),
         w.ends \intersect E = {}, ReadAs(w.ghosts, Updates(w, i), w2.ghosts),
         NEW t, GhostsInv(t, w), t.inUse \subseteq Ghost,
         w.ends # {} => \A j \in Pos(w) : List(w, j) = {}
  PROVE  LinkInv(w2)
<1>1. /\ EndsInv(w2)
      /\ \A j : Updates(w2, j) = Updates(w, j) /\ List(w2, j) = List(w, j)
      /\ Pos(w2) = Pos(w)
  BY ReadEnds
<1>2. /\ i \in w.rd /\ i \in Pos(w) /\ i \notin w.arr /\ w.rd \subseteq Pos(w)
      /\ w2.arr = w.arr \union {i} /\ w2.rd = {j \in w.rd : i < j}
      /\ \A j \in w.arr : j \in Pos(w) /\ j < i
  <2>1. i \in w.rd /\ w2.arr = w.arr \union {i} /\ w2.rd = {j \in w.rd : i < j}
    BY DEF ReadTo
  <2>2. i \in Pos(w) /\ i \notin w.arr /\ w.rd \subseteq Pos(w) /\ w.arr \subseteq Pos(w)
    BY <2>1 DEF LinkType
  <2>3. ASSUME NEW j \in w.arr PROVE j < i
    <3>1. j \in Nat /\ i \in Nat
      BY <2>2 DEF LinkType, Pos
    <3>2. ~(i <= j)
      BY <2>1, <2>2 DEF LinkType
    <3>. QED
      BY <3>1, <3>2
  <2>. QED
    BY <2>1, <2>2, <2>3
<1>3. NotesInv(w) /\ EndsInv(w) /\ ReadableInv(w) /\ CurrentInv(w)
  BY DEF LinkInv
<1>4. NotesInv(w2)
  BY <1>1, <1>3 DEF NotesInv
<1>5. \A u \in Updates(w, i) : u.ghost \in Ghost
  BY <1>2, UpdatesTyped
\* When there are updates, those of packet i are on its list.
<1>6. ASSUME NEW j \in Pos(w), List(w, j) # {} PROVE List(w, i) = Updates(w, i)
  <2>1. w.ends = {}
    BY <1>6
  <2>. QED
    BY <1>2, <1>3, <2>1, ListIsUpdates DEF EndsInv
<1>7. ASSUME NEW g \in Ghost
      PROVE  \/ (\A u \in Updates(w, i) : u.ghost # g) /\ w2.ghosts[g] = w.ghosts[g]
             \/ \E u \in Updates(w, i) : u.ghost = g
  BY DEF ReadAs
<1>8. ASSUME NEW u \in Updates(w, i)
      PROVE  /\ u.kind = "KillingGhost" =>
                  w.ghosts[u.ghost] # NoGhost /\ w2.ghosts[u.ghost] = NoGhost
             /\ u.kind = "Ghosting" =>
                  /\ w.ghosts[u.ghost] = NoGhost
                  /\ w2.ghosts[u.ghost].of = u.obj /\ w2.ghosts[u.ghost].current = u.current
             /\ u.kind = "Update" =>
                  /\ w.ghosts[u.ghost] # NoGhost
                  /\ w2.ghosts[u.ghost].of = u.obj /\ w.ghosts[u.ghost].of = u.obj
                  /\ w2.ghosts[u.ghost].current = (w.ghosts[u.ghost].current \ u.mask) \union u.current
             /\ u.kind # "KillingGhost" => u.obj # NoObject
             /\ u.kind \in {"KillingGhost", "Ghosting", "Update"}
  <2>1. u.kind = "Ghosting" <=> w.ghosts[u.ghost] = NoGhost
    BY <1>2, <1>3 DEF ReadableInv
  <2>2. u.kind = "Update" => w.ghosts[u.ghost].of = u.obj
    BY <1>2, <1>3 DEF ReadableInv
  <2>3. u.kind # "KillingGhost" => u.obj # NoObject
    BY <1>2, <1>3 DEF NotesInv
  <2>4. /\ u.kind = "KillingGhost" => w2.ghosts[u.ghost] = NoGhost
        /\ u.kind # "KillingGhost" /\ w.ghosts[u.ghost] = NoGhost =>
             w2.ghosts[u.ghost].of = u.obj /\ w2.ghosts[u.ghost].current = u.current
        /\ u.kind # "KillingGhost" /\ w.ghosts[u.ghost] # NoGhost =>
             /\ w2.ghosts[u.ghost].of = w.ghosts[u.ghost].of
             /\ w2.ghosts[u.ghost].current = (w.ghosts[u.ghost].current \ u.mask) \union u.current
    BY DEF ReadAs
  <2>5. u.kind \in {"KillingGhost", "Ghosting", "Update"}
    BY <1>2, UpdatesTyped
  <2>. QED
    BY <2>1, <2>2, <2>3, <2>4, <2>5
<1>9. ReadableInv(w2)
  <2>1. ASSUME NEW j \in w2.rd, NEW v \in Updates(w2, j)
        PROVE  /\ v.kind = "Ghosting" <=> w2.ghosts[v.ghost] = NoGhost
               /\ v.kind = "Update" => w2.ghosts[v.ghost].of = v.obj
    <3>1. j \in w.rd /\ i < j /\ v \in Updates(w, j) /\ j \in Pos(w)
      BY <1>1, <1>2
    <3>2. /\ v.kind = "Ghosting" <=> w.ghosts[v.ghost] = NoGhost
          /\ v.kind = "Update" => w.ghosts[v.ghost].of = v.obj
      BY <1>3, <3>1 DEF ReadableInv
    <3>3. v.ghost \in Ghost
      BY <3>1, UpdatesTyped
    <3>4. CASE w2.ghosts[v.ghost] = w.ghosts[v.ghost]
      BY <3>2, <3>4
    <3>5. ASSUME NEW u \in Updates(w, i), u.ghost = v.ghost
          PROVE  /\ w.ghosts[v.ghost] # NoGhost /\ w2.ghosts[v.ghost] # NoGhost
                 /\ w2.ghosts[v.ghost].of = w.ghosts[v.ghost].of
      <4>1. u.kind = "Update"
        BY <1>2, <1>3, <3>1, <3>5 DEF ReadableInv
      <4>2. /\ w.ghosts[v.ghost] # NoGhost /\ w2.ghosts[v.ghost].of = w.ghosts[v.ghost].of
            /\ w2.ghosts[v.ghost].of # NoObject
        BY <1>8, <3>5, <4>1
      <4>. QED
        BY <4>2 DEF NoGhost
    <3>. QED
      BY <1>7, <3>2, <3>3, <3>4, <3>5
  <2>2. ASSUME NEW j \in w2.rd, NEW u \in Updates(w2, j), u.kind # "Update",
               NEW k \in w2.rd, j < k, NEW v \in Updates(w2, k)
        PROVE  v.ghost # u.ghost
    BY <1>1, <1>2, <1>3, <2>2 DEF ReadableInv
  <2>. QED
    BY <2>1, <2>2 DEF ReadableInv
<1>10. CurrentInv(w2)
  <2>1. ASSUME NEW g \in Ghost PROVE w2.ghosts[g] = NoGhost \/ w2.ghosts[g].of # NoObject
    <3>1. w.ghosts[g] = NoGhost \/ w.ghosts[g].of # NoObject
      BY <1>3 DEF CurrentInv
    <3>. QED
      BY <1>7, <1>8, <3>1
  <2>2. ASSUME NEW j \in Pos(w2), NEW u \in List(w2, j), NEW k \in Pos(w2), NEW v \in List(w2, k),
               j < k, u.ghost = v.ghost, u.obj = v.obj
        PROVE  u.current \intersect v.mask \subseteq v.current
    BY <1>1, <1>3, <2>2 DEF CurrentInv
  <2>3. ASSUME NEW j \in Pos(w2), NEW v \in List(w2, j), w2.ghosts[v.ghost].of = v.obj
        PROVE  /\ j \in w2.arr => v.current \subseteq w2.ghosts[v.ghost].current
               /\ j \in w2.rd => w2.ghosts[v.ghost].current \intersect v.mask \subseteq v.current
    <3>1. /\ j \in Pos(w) /\ v \in List(w, j) /\ v \in Updates(w, j) /\ v.ghost \in Ghost
          /\ List(w, i) = Updates(w, i)
      <4>1. j \in Pos(w) /\ v \in List(w, j)
        BY <1>1
      <4>2. v \in Updates(w, j)
        BY <4>1, ListIsUpdates
      <4>3. v.ghost \in Ghost
        BY <4>1, <4>2, UpdatesTyped
      <4>. QED
        BY <1>6, <4>1, <4>2, <4>3
    <3>2. w.ghosts[v.ghost].of = v.obj =>
            /\ j \in w.arr => v.current \subseteq w.ghosts[v.ghost].current
            /\ j \in w.rd => w.ghosts[v.ghost].current \intersect v.mask \subseteq v.current
      BY <1>3, <3>1 DEF CurrentInv
    <3>3. CASE \A u \in Updates(w, i) : u.ghost # v.ghost
      <4>1. w2.ghosts[v.ghost] = w.ghosts[v.ghost] /\ j # i
        BY <1>7, <3>1, <3>3
      <4>. QED
        BY <1>2, <2>3, <3>2, <4>1
    <3>4. ASSUME NEW u \in Updates(w, i), u.ghost = v.ghost, u.kind = "KillingGhost"
          PROVE  /\ v.current \subseteq w2.ghosts[v.ghost].current
                 /\ w2.ghosts[v.ghost].current \intersect v.mask \subseteq v.current
      <4>1. w2.ghosts[v.ghost] = NoGhost
        BY <1>8, <3>4
      <4>2. v.obj = NoObject /\ w2.ghosts[v.ghost].current = {}
        BY <2>3, <4>1 DEF NoGhost
      <4>3. v.current = {}
        BY <1>3, <3>1, <4>2 DEF NotesInv
      <4>. QED
        BY <4>2, <4>3
    <3>5. ASSUME NEW u \in Updates(w, i), u.ghost = v.ghost, u.kind = "Ghosting"
          PROVE  /\ j \in w2.arr => v.current \subseteq w2.ghosts[v.ghost].current
                 /\ j \in w2.rd => w2.ghosts[v.ghost].current \intersect v.mask \subseteq v.current
      <4>1. u \in List(w, i)
        BY <3>1, <3>5
      <4>2. Creating(w, v.ghost, t.info[u.ghost].obj)
        BY <1>2, <1>3, <3>5, <4>1, CreatedFirst
      <4>3. PICK k \in Pos(w) : \A x \in Pos(w) : \A y \in List(w, x) : y.ghost = v.ghost => x = k
        BY <4>2 DEF Creating
      <4>4. j = k /\ i = k
        BY <1>2, <3>1, <3>5, <4>1, <4>3
      <4>5. u = v
        BY <1>2, <1>3, <3>1, <3>5, <4>4 DEF NotesInv
      <4>6. w2.ghosts[v.ghost].current = v.current
        BY <1>8, <3>5, <4>5
      <4>. QED
        BY <4>6
    <3>6. ASSUME NEW u \in Updates(w, i), u.ghost = v.ghost, u.kind = "Update"
          PROVE  /\ j \in w2.arr => v.current \subseteq w2.ghosts[v.ghost].current
                 /\ j \in w2.rd => w2.ghosts[v.ghost].current \intersect v.mask \subseteq v.current
      <4>1. u \in List(w, i)
        BY <3>1, <3>6
      <4>2. /\ w2.ghosts[v.ghost].of = u.obj /\ w.ghosts[v.ghost].of = u.obj
            /\ w2.ghosts[v.ghost].current = (w.ghosts[v.ghost].current \ u.mask) \union u.current
        BY <1>8, <3>6
      <4>3. u.obj = v.obj /\ w.ghosts[v.ghost].of = v.obj
        BY <2>3, <4>2
      <4>4. CASE j = i
        <5>1. u = v
          BY <1>2, <1>3, <3>1, <3>6, <4>4 DEF NotesInv
        <5>. QED
          BY <1>2, <3>2, <4>2, <4>3, <4>4, <5>1
      <4>5. CASE j \in w.arr
        <5>1. j < i
          BY <1>2, <4>5
        <5>2. v.current \intersect u.mask \subseteq u.current
          BY <1>2, <1>3, <3>1, <3>6, <4>1, <4>3, <5>1 DEF CurrentInv
        <5>3. v.current \subseteq w.ghosts[v.ghost].current
          BY <3>2, <4>3, <4>5
        <5>4. j \notin w2.rd
          BY <1>2, <4>5 DEF LinkType
        <5>. QED
          BY <4>2, <5>2, <5>3, <5>4
      <4>6. CASE j \notin w.arr /\ j # i
        <5>. SUFFICES ASSUME j \in w2.rd
                      PROVE  w2.ghosts[v.ghost].current \intersect v.mask \subseteq v.current
          BY <1>2, <4>6
        <5>1. i < j /\ j \in w.rd
          BY <1>2
        <5>2. u.current \intersect v.mask \subseteq v.current
          BY <1>2, <1>3, <3>1, <3>6, <4>1, <4>3, <5>1 DEF CurrentInv
        <5>3. w.ghosts[v.ghost].current \intersect v.mask \subseteq v.current
          BY <3>2, <4>3, <5>1
        <5>. QED
          BY <4>2, <5>2, <5>3
      <4>. QED
        BY <4>4, <4>5, <4>6
    <3>. QED
      BY <1>8, <3>3, <3>4, <3>5, <3>6
  <2>. QED
    BY <2>1, <2>2, <2>3 DEF CurrentInv
<1>. QED
  BY <1>1, <1>4, <1>9, <1>10 DEF LinkInv

(* What the flags say of the ghosts, and the states that are remembered,   *)
(* are right after a packet has been read.                                 *)
LEMMA ReadTable ==
  ASSUME NEW w, NEW i, NEW E, NEW w2, ReadTo(w, i, E, w2), LinkType(w), LinkInv(w),
         w.ends \intersect E = {}, ReadAs(w.ghosts, Updates(w, i), w2.ghosts),
         NEW t, NEW d, NEW free, TableInv(t, d, free, w), w.ends # {} => Dormant(t, w)
  PROVE  TableInv(t, d, free, w2) /\ (Dormant(t, w) => Dormant(t, w2))
<1>1. /\ \A j : Updates(w2, j) = Updates(w, j) /\ List(w2, j) = List(w, j)
      /\ Pos(w2) = Pos(w)
  BY ReadEnds
<1>2. /\ i \in w.rd /\ i \in Pos(w) /\ i \notin w.arr /\ w2.arr = w.arr \union {i}
      /\ w2.ends = w.ends
  BY DEF ReadTo, LinkType
<1>3. NotesInv(w) /\ EndsInv(w) /\ ReadableInv(w) /\ CurrentInv(w)
  BY DEF LinkInv
<1>4. Dormant(t, w) => Dormant(t, w2)
  BY <1>1 DEF Dormant
<1>5. /\ GhostsInv(t, w) /\ StatesInv(t, d, free, w) /\ InfoInv(t)
      /\ t \in GhostArray /\ t.inUse \subseteq Ghost
  BY DEF TableInv, GhostArray
<1>6. CASE w.ends # {}
  <2>1. Dormant(t, w) /\ \A j \in Pos(w2) : List(w2, j) = {}
    BY <1>1, <1>6 DEF Dormant
  <2>2. \A g \in Ghost : Absent(w2, g)
    BY <1>2, <1>6, <2>1 DEF Absent
  <2>3. \A g \in t.inUse : /\ "NotYetGhosted" \in t.info[g].flags
                           /\ "Ghosting" \notin t.info[g].flags
                           /\ "KillingGhost" \notin t.info[g].flags
    BY <1>5, <2>1 DEF Dormant, InfoInv
  <2>4. GhostsInv(t, w2)
    BY <1>5, <2>2, <2>3 DEF GhostsInv
  <2>5. StatesInv(t, d, free, w2)
    BY <1>5, <2>3 DEF StatesInv
  <2>. QED
    BY <1>4, <2>4, <2>5 DEF TableInv
<1>7. CASE w.ends = {}
  <2>1. List(w, i) = Updates(w, i)
    BY <1>2, <1>3, <1>7, ListIsUpdates DEF EndsInv
  <2>2. ASSUME NEW u \in List(w, i)
        PROVE  /\ u.ghost \in Ghost /\ u.ghost \in t.inUse
               /\ u.kind = "KillingGhost" =>
                    w.ghosts[u.ghost] # NoGhost /\ w2.ghosts[u.ghost] = NoGhost
               /\ u.kind = "Ghosting" =>
                    /\ w.ghosts[u.ghost] = NoGhost
                    /\ w2.ghosts[u.ghost].of = u.obj /\ w2.ghosts[u.ghost].current = u.current
               /\ u.kind = "Update" =>
                    /\ w.ghosts[u.ghost] # NoGhost
                    /\ w2.ghosts[u.ghost].of = u.obj /\ w.ghosts[u.ghost].of = u.obj
                    /\ w2.ghosts[u.ghost].current = (w.ghosts[u.ghost].current \ u.mask) \union u.current
               /\ u.kind # "KillingGhost" => u.obj # NoObject
               /\ u.kind \in {"KillingGhost", "Ghosting", "Update"}
    <3>1. u \in Updates(w, i)
      BY <2>1
    <3>2. u.kind = "Ghosting" <=> w.ghosts[u.ghost] = NoGhost
      BY <1>2, <1>3, <3>1 DEF ReadableInv
    <3>3. u.kind = "Update" => w.ghosts[u.ghost].of = u.obj
      BY <1>2, <1>3, <3>1 DEF ReadableInv
    <3>4. u.kind # "KillingGhost" => u.obj # NoObject
      BY <1>2, <1>3, <3>1 DEF NotesInv
    <3>5. /\ u.kind = "KillingGhost" => w2.ghosts[u.ghost] = NoGhost
          /\ u.kind # "KillingGhost" /\ w.ghosts[u.ghost] = NoGhost =>
               w2.ghosts[u.ghost].of = u.obj /\ w2.ghosts[u.ghost].current = u.current
          /\ u.kind # "KillingGhost" /\ w.ghosts[u.ghost] # NoGhost =>
               /\ w2.ghosts[u.ghost].of = w.ghosts[u.ghost].of
               /\ w2.ghosts[u.ghost].current = (w.ghosts[u.ghost].current \ u.mask) \union u.current
      BY <3>1 DEF ReadAs
    <3>6. u.kind \in {"KillingGhost", "Ghosting", "Update"} /\ u.ghost \in Ghost
      BY <1>2, <3>1, UpdatesTyped
    <3>7. u.ghost \in t.inUse
      BY <1>2, <1>5, MentionedInUse
    <3>. QED
      BY <3>2, <3>3, <3>4, <3>5, <3>6, <3>7
  <2>3. ASSUME NEW g \in Ghost
        PROVE  \/ (\A u \in List(w, i) : u.ghost # g) /\ w2.ghosts[g] = w.ghosts[g]
               \/ \E u \in List(w, i) : u.ghost = g
    BY <2>1 DEF ReadAs
  <2>4. ASSUME NEW g \in Ghost, Absent(w, g) PROVE Absent(w2, g)
    <3>1. \A u \in List(w, i) : u.ghost # g
      BY <1>2, <2>4 DEF Absent
    <3>. QED
      BY <1>1, <1>2, <2>3, <2>4, <3>1 DEF Absent
  <2>5. ASSUME NEW g \in Ghost, NEW o, Creating(w, g, o) PROVE Creating(w2, g, o)
    <3>1. PICK k \in Pos(w) : \E u \in List(w, k) :
            /\ u.ghost = g /\ u.kind = "Ghosting" /\ (o # NoObject => u.obj = o)
            /\ \A j \in Pos(w) : \A v \in List(w, j) : v.ghost = g => j = k
            /\ k \in w.arr => w.ghosts[g].of = u.obj
            /\ k \notin w.arr => w.ghosts[g] = NoGhost
      BY <2>5 DEF Creating
    <3>2. PICK u \in List(w, k) :
            /\ u.ghost = g /\ u.kind = "Ghosting" /\ (o # NoObject => u.obj = o)
            /\ \A j \in Pos(w) : \A v \in List(w, j) : v.ghost = g => j = k
            /\ k \in w.arr => w.ghosts[g].of = u.obj
            /\ k \notin w.arr => w.ghosts[g] = NoGhost
      BY <3>1
    <3>3. CASE k = i
      <4>1. k \in w2.arr /\ w2.ghosts[g].of = u.obj
        BY <1>2, <2>2, <3>2, <3>3
      <4>. QED
        BY <1>1, <3>2, <4>1 DEF Creating
    <3>4. CASE k # i
      <4>1. \A v \in List(w, i) : v.ghost # g
        BY <1>2, <3>2, <3>4
      <4>2. w2.ghosts[g] = w.ghosts[g] /\ (k \in w2.arr <=> k \in w.arr)
        BY <1>2, <2>3, <3>4, <4>1
      <4>. QED
        BY <1>1, <3>2, <4>2 DEF Creating
    <3>. QED
      BY <3>3, <3>4
  <2>6. ASSUME NEW g \in Ghost, NEW o, Present(w, g, o) PROVE Present(w2, g, o)
    <3>1. \A u \in List(w, i) : u.ghost = g => u.kind = "Update"
      BY <1>2, <2>6 DEF Present
    <3>2. CASE w2.ghosts[g] = w.ghosts[g]
      BY <1>1, <2>6, <3>2 DEF Present
    <3>3. CASE \E u \in List(w, i) : u.ghost = g
      <4>1. PICK u \in List(w, i) : u.ghost = g
        BY <3>3
      <4>2. w2.ghosts[g].of = w.ghosts[g].of /\ w2.ghosts[g].of # NoObject
        BY <2>2, <3>1, <4>1
      <4>3. w2.ghosts[g] # NoGhost
        BY <4>2 DEF NoGhost
      <4>. QED
        BY <1>1, <2>6, <4>2, <4>3 DEF Present
    <3>. QED
      BY <2>3, <3>2, <3>3
  <2>7. ASSUME NEW g \in Ghost, Removing(w, g) PROVE Removing(w2, g)
    <3>1. PICK k \in Pos(w) : \E u \in List(w, k) :
            /\ u.ghost = g /\ u.kind = "KillingGhost"
            /\ \A j \in Pos(w) : \A v \in List(w, j) :
                 v.ghost = g => j <= k /\ (j < k => v.kind = "Update")
            /\ k \in w.arr <=> w.ghosts[g] = NoGhost
      BY <2>7 DEF Removing
    <3>2. PICK u \in List(w, k) :
            /\ u.ghost = g /\ u.kind = "KillingGhost"
            /\ \A j \in Pos(w) : \A v \in List(w, j) :
                 v.ghost = g => j <= k /\ (j < k => v.kind = "Update")
            /\ k \in w.arr <=> w.ghosts[g] = NoGhost
      BY <3>1
    <3>3. CASE k = i
      <4>1. k \in w2.arr /\ w2.ghosts[g] = NoGhost
        BY <1>2, <2>2, <3>2, <3>3
      <4>. QED
        BY <1>1, <3>2, <4>1 DEF Removing
    <3>4. CASE k # i
      <4>1. w2.ghosts[g] = NoGhost <=> w.ghosts[g] = NoGhost
        <5>1. CASE w2.ghosts[g] = w.ghosts[g]
          BY <5>1
        <5>2. ASSUME NEW v \in List(w, i), v.ghost = g
              PROVE  w2.ghosts[g] = NoGhost <=> w.ghosts[g] = NoGhost
          <6>1. i <= k /\ i \in Nat /\ k \in Nat
            BY <1>2, <3>2, <5>2 DEF LinkType, Pos
          <6>2. v.kind = "Update"
            BY <1>2, <3>2, <3>4, <5>2, <6>1
          <6>3. w.ghosts[g] # NoGhost /\ w2.ghosts[g].of # NoObject
            BY <2>2, <5>2, <6>2
          <6>. QED
            BY <6>3 DEF NoGhost
        <5>. QED
          BY <2>3, <5>1, <5>2
      <4>2. k \in w2.arr <=> w2.ghosts[g] = NoGhost
        BY <1>2, <3>2, <3>4, <4>1
      <4>. QED
        BY <1>1, <3>2, <4>2 DEF Removing
    <3>. QED
      BY <3>3, <3>4
  <2>8. GhostsInv(t, w2)
    <3>1. \A g \in Ghost \ t.inUse : Absent(w2, g)
      BY <1>5, <2>4 DEF GhostsInv
    <3>2. ASSUME NEW g \in t.inUse
          PROVE  /\ "NotYetGhosted" \in t.info[g].flags => Absent(w2, g)
                 /\ "Ghosting" \in t.info[g].flags => Creating(w2, g, t.info[g].obj)
                 /\ "KillingGhost" \in t.info[g].flags => Removing(w2, g)
                 /\ t.info[g].flags \intersect {"NotYetGhosted", "Ghosting", "KillingGhost"} = {} =>
                      Present(w2, g, t.info[g].obj)
      <4>1. /\ g \in Ghost
            /\ "NotYetGhosted" \in t.info[g].flags => Absent(w, g)
            /\ "Ghosting" \in t.info[g].flags => Creating(w, g, t.info[g].obj)
            /\ "KillingGhost" \in t.info[g].flags => Removing(w, g)
            /\ t.info[g].flags \intersect {"NotYetGhosted", "Ghosting", "KillingGhost"} = {} =>
                 Present(w, g, t.info[g].obj)
        BY <1>5 DEF GhostsInv
      <4>. QED
        BY <2>4, <2>5, <2>6, <2>7, <4>1
    <3>. QED
      BY <3>1, <3>2 DEF GhostsInv
  <2>9. StatesInv(t, d, free, w2)
    <3>1. ASSUME NEW g \in t.inUse, t.info[g].obj # NoObject, NEW bit \in Bit,
                 Remembered(w, g, t.info[g].obj, bit)
          PROVE  Remembered(w2, g, t.info[g].obj, bit)
      <4>. DEFINE o == t.info[g].obj
      <4>1. g \in Ghost
        BY <1>5
      <4>2. ASSUME NEW u \in List(w, i), u.ghost = g PROVE u.obj = o /\ u.kind # "KillingGhost"
        BY <1>2, <1>3, <1>5, <3>1, <4>2, ObjectOfUpdates
      <4>3. CASE w.ghosts[g].of = o /\ bit \in w.ghosts[g].current
        <5>1. CASE w2.ghosts[g] = w.ghosts[g]
          BY <4>3, <5>1 DEF Remembered
        <5>2. ASSUME NEW u \in List(w, i), u.ghost = g PROVE Remembered(w2, g, o, bit)
          <6>1. u.kind # "KillingGhost" /\ u.obj = o
            BY <4>2, <5>2
          <6>2. w.ghosts[g] # NoGhost
            BY <3>1, <4>3 DEF NoGhost
          <6>3. /\ w2.ghosts[g].of = o
                /\ w2.ghosts[g].current = (w.ghosts[g].current \ u.mask) \union u.current
            BY <2>2, <5>2, <6>1, <6>2
          <6>4. w.ghosts[g].current \intersect u.mask \subseteq u.current
            BY <1>2, <1>3, <4>3, <5>2, <6>1 DEF CurrentInv
          <6>5. bit \in w2.ghosts[g].current
            BY <4>3, <6>3, <6>4
          <6>. QED
            BY <6>3, <6>5 DEF Remembered
        <5>. QED
          BY <2>3, <4>1, <5>1, <5>2
      <4>4. ASSUME NEW k \in Pos(w), NEW v \in List(w, k), v.ghost = g, bit \in v.current,
                   k \notin w.arr
            PROVE  Remembered(w2, g, o, bit)
        <5>1. CASE k # i
          <6>1. k \notin w2.arr /\ v \in List(w2, k) /\ k \in Pos(w2)
            BY <1>1, <1>2, <4>4, <5>1
          <6>. QED
            BY <4>4, <6>1 DEF Remembered
        <5>2. CASE k = i
          <6>1. v \in List(w, i) /\ v.kind # "KillingGhost" /\ v.obj = o
            BY <4>2, <4>4, <5>2
          <6>2. w2.ghosts[g].of = o /\ v.current \subseteq w2.ghosts[g].current
            BY <2>2, <4>4, <6>1
          <6>. QED
            BY <4>4, <6>2 DEF Remembered
        <5>. QED
          BY <5>1, <5>2
      <4>. QED
        BY <3>1, <4>3, <4>4 DEF Remembered
    <3>2. StatesInv(t, d, free, w)
      BY <1>5
    <3>3. ASSUME NEW g \in t.inUse, t.info[g].obj # NoObject, NEW bit \in Bit
          PROVE  \/ ToBeSent(t, d, free, g, t.info[g].obj, bit)
                 \/ /\ "NotYetGhosted" \notin t.info[g].flags
                    /\ Remembered(w2, g, t.info[g].obj, bit)
      <4>1. \/ ToBeSent(t, d, free, g, t.info[g].obj, bit)
            \/ /\ "NotYetGhosted" \notin t.info[g].flags
               /\ Remembered(w, g, t.info[g].obj, bit)
        BY <3>2, <3>3 DEF StatesInv
      <4>. QED
        BY <3>1, <3>3, <4>1
    <3>. QED
      BY <3>3 DEF StatesInv
  <2>. QED
    BY <1>4, <2>8, <2>9 DEF TableInv
<1>. QED
  BY <1>6, <1>7

(* There is a first RPC that is missing, and those before it are there.    *)
LEMMA ExecutedRun ==
  ASSUME TypeOK, NEW i \in DOMAIN notes
  PROVE  /\ Waiting(i) \subseteq DOMAIN rpcs
         /\ ExecutedTo(i) \in rpcDone .. Len(rpcs)
         /\ rpcDone + 1 .. ExecutedTo(i) \subseteq Waiting(i)
<1>1. /\ rpcs \in Seq(Rpc) /\ Len(rpcs) \in Nat /\ DOMAIN rpcs = 1 .. Len(rpcs)
      /\ rpcDone \in Nat /\ rpcDone <= Len(rpcs)
  BY DEF TypeOK
<1>2. Waiting(i) \subseteq 1 .. Len(rpcs)
  BY <1>1 DEF TypeOK, Waiting
<1>. DEFINE T == {k \in rpcDone .. Len(rpcs) : k + 1 \notin Waiting(i)}
<1>3. T \subseteq Nat /\ T # {}
  <2>1. Len(rpcs) \in rpcDone .. Len(rpcs) /\ Len(rpcs) + 1 \notin 1 .. Len(rpcs)
    BY <1>1
  <2>2. Len(rpcs) \in T
    BY <1>2, <2>1
  <2>. QED
    BY <1>1, <2>2
<1>. HIDE DEF T
<1>4. PICK k \in T : \A y \in T : k <= y
  BY <1>3, LeastNat
<1>5. k \in rpcDone .. Len(rpcs) /\ k + 1 \notin Waiting(i)
  BY <1>4 DEF T
<1>6. ASSUME NEW x \in rpcDone + 1 .. k PROVE x \in Waiting(i)
  <2>1. x - 1 \in rpcDone .. Len(rpcs) /\ ~(k <= x - 1) /\ (x - 1) + 1 = x
    BY <1>1, <1>5
  <2>2. x - 1 \notin T
    BY <1>4, <2>1
  <2>. QED
    BY <2>1, <2>2 DEF T
<1>7. /\ ExecutedTo(i) \in rpcDone .. Len(rpcs)
      /\ rpcDone + 1 .. ExecutedTo(i) \subseteq Waiting(i)
  BY <1>5, <1>6 DEF ExecutedTo
<1>. QED
  BY <1>1, <1>2, <1>7

(* readPacket keeps the invariant.                                         *)
LEMMA ReadStep ==
  ASSUME IInv, ReadPacket PROVE IInv'
<1>. DEFINE k == notified[Server]
<1>1. PICK n \in Unnotified(Server) :
        LET i == n - k IN
        /\ Readable(Client, n)
        /\ arrived' = [arrived EXCEPT ![Server] = @ \union {n}]
        /\ rpcDone' = ExecutedTo(i)
        /\ rpcWaiting' = Waiting(i) \ (rpcDone + 1 .. ExecutedTo(i))
        /\ mLocalGhosts' = AfterUpdates(AfterRpcs(i), notes[i].updates)
        /\ UNCHANGED <<open, sent, notified, confirmed, mGhostArray, mDirtyMaskBits, notes,
                       serverVars, rpcVars, replied, worldVars>>
  BY DEF ReadPacket
<1>. DEFINE i == n - k
            last == ExecutedTo(i)
            E == rpcDone + 1 .. last
<1>2. /\ arrived' = [arrived EXCEPT ![Server] = @ \union {n}]
      /\ rpcDone' = last /\ rpcWaiting' = Waiting(i) \ E
      /\ mLocalGhosts' = AfterUpdates(AfterRpcs(i), notes[i].updates)
      /\ UNCHANGED <<open, sent, notified, confirmed, mGhostArray, mDirtyMaskBits, notes,
                     serverVars, rpcVars, replied, worldVars>>
  BY <1>1
<1>3. /\ TypeOK /\ ChannelInv /\ StartsRight /\ LinkInv(Link) /\ LinkType(Link)
      /\ TableInv(mGhostArray, mDirtyMaskBits, cleared, Link)
      /\ mGhosting => Link.ends = {}
      /\ mGhosting \/ Dormant(mGhostArray, Link)
  BY LinkTyped DEF IInv
<1>4. /\ notified \in [Side -> Nat] /\ sent \in [Side -> Nat] /\ arrived \in [Side -> SUBSET Nat]
      /\ notes \in Seq(Note) /\ Len(notes) = sent[Server] - k /\ Server \in Side
      /\ rpcs \in Seq(Rpc) /\ rpcDone \in 0 .. Len(rpcs) /\ replied \in 0 .. rpcDone
      /\ mLocalGhosts \in [Ghost -> LocalGhost]
  BY <1>3 DEF TypeOK, ChanTypeOK, Side, Server
<1>5. k \in Nat /\ sent[Server] \in Nat /\ arrived[Server] \subseteq Nat
  BY <1>4
<1>6. /\ n \in Nat /\ k + 1 <= n /\ n <= sent[Server]
      /\ i \in DOMAIN notes /\ i \in Nat /\ n = k + i
  <2>1. n \in k + 1 .. sent[Server]
    BY DEF Unnotified
  <2>2. DOMAIN notes = 1 .. sent[Server] - k
    BY <1>4
  <2>. QED
    BY <1>5, <2>1, <2>2
<1>7. \A m \in arrived[Server] : m < n
  <2>1. Peer(Client) = Server
    BY DEF Peer, Client, Server
  <2>. QED
    BY <1>1, <2>1 DEF Readable
<1>8. /\ Waiting(i) \subseteq DOMAIN rpcs
      /\ last \in rpcDone .. Len(rpcs) /\ E \subseteq Waiting(i)
  BY <1>3, <1>6, ExecutedRun
<1>. HIDE DEF last, i
<1>9. arrived' \in [Side -> SUBSET Nat] /\ arrived'[Server] = arrived[Server] \union {n}
  BY <1>2, <1>4, <1>6
<1>. HIDE DEF k
<1>10. /\ Link.notes = notes /\ Link.ghosts = mLocalGhosts /\ Link.waiting = rpcWaiting
       /\ Link.arr = {j \in DOMAIN notes : k + j \in arrived[Server]}
       /\ Link.rd = {j \in DOMAIN notes : \A m \in arrived[Server] : m < k + j}
       /\ Link.ends = {r \in rpcDone + 1 .. Len(rpcs) : rpcs[r].type = "rpcEndGhosting"}
  BY DEF Link, k
<1>11. /\ Link'.notes = notes' /\ Link'.ghosts = mLocalGhosts' /\ Link'.waiting = rpcWaiting'
       /\ Link'.arr = {j \in DOMAIN notes' : notified'[Server] + j \in arrived'[Server]}
       /\ Link'.rd = {j \in DOMAIN notes' : \A m \in arrived'[Server] : m < notified'[Server] + j}
       /\ Link'.ends = {r \in rpcDone' + 1 .. Len(rpcs') : rpcs'[r].type = "rpcEndGhosting"}
  BY DEF Link
<1>12. notes' = notes /\ notified'[Server] = k /\ rpcs' = rpcs
  BY <1>2 DEF rpcVars, k
<1>13. \A j \in DOMAIN notes : j \in Nat
  BY <1>4
<1>14. i \in Link.rd
  BY <1>6, <1>7, <1>10
<1>15. Link'.arr = Link.arr \union {i}
  <2>1. Link'.arr = {j \in DOMAIN notes : k + j \in arrived[Server] \union {n}}
    BY <1>9, <1>11, <1>12
  <2>2. \A j \in DOMAIN notes : k + j = n <=> j = i
    BY <1>5, <1>6, <1>13
  <2>. QED
    BY <1>6, <1>10, <2>1, <2>2
<1>16. Link'.rd = {j \in Link.rd : i < j}
  <2>1. Link'.rd = {j \in DOMAIN notes : \A m \in arrived[Server] \union {n} : m < k + j}
    BY <1>9, <1>11, <1>12
  <2>2. \A j \in DOMAIN notes : n < k + j <=> i < j
    BY <1>5, <1>6, <1>13
  <2>. QED
    BY <1>10, <2>1, <2>2
<1>17. Link'.ends = Link.ends \ E
  <2>1. Link'.ends = {r \in last + 1 .. Len(rpcs) : rpcs[r].type = "rpcEndGhosting"}
    BY <1>2, <1>11, <1>12
  <2>2. \A r : r \in last + 1 .. Len(rpcs) <=> r \in rpcDone + 1 .. Len(rpcs) /\ r \notin E
    BY <1>4, <1>8
  <2>. HIDE DEF E
  <2>. QED
    BY <1>10, <2>1, <2>2
<1>18. ReadTo(Link, i, E, Link')
  <2>1. Waiting(i) = Link.waiting \union Link.notes[i].rpcs
    BY <1>10 DEF Waiting
  <2>2. Link'.waiting \subseteq Waiting(i)
    BY <1>2, <1>11
  <2>3. Link'.notes = Link.notes
    BY <1>10, <1>11, <1>12
  <2>. HIDE DEF E
  <2>. QED
    BY <1>8, <1>14, <1>15, <1>16, <1>17, <2>1, <2>2, <2>3 DEF ReadTo
<1>19. AfterRpcs(i) = IF Link.ends \intersect E # {} THEN [g \in Ghost |-> NoGhost]
                                                     ELSE mLocalGhosts
  <2>1. (\E r \in E : rpcs[r].type = "rpcEndGhosting") <=> Link.ends \intersect E # {}
    <3>1. \A r \in E : r \in rpcDone + 1 .. Len(rpcs)
      BY <1>4, <1>8
    <3>. HIDE DEF E
    <3>. QED
      BY <1>10, <3>1
  <2>2. AfterRpcs(i) = IF \E r \in E : rpcs[r].type = "rpcEndGhosting"
                         THEN [g \in Ghost |-> NoGhost] ELSE mLocalGhosts
    BY DEF AfterRpcs, last
  <2>. HIDE DEF E
  <2>. QED
    BY <2>1, <2>2
<1>. HIDE DEF E
<1>20. /\ notes[i].updates = Updates(Link, i) /\ Updates(Link, i) \subseteq Update
       /\ \A u, v \in Updates(Link, i) : u.ghost = v.ghost => u = v
       /\ i \in Pos(Link)
  <2>1. notes[i].updates = Updates(Link, i) /\ i \in Pos(Link)
    BY <1>6, <1>10 DEF Updates, Pos
  <2>2. \A u \in Updates(Link, i) : u \in Update
    BY <1>3, <2>1, UpdatesTyped
  <2>3. \A u, v \in Updates(Link, i) : u.ghost = v.ghost => u = v
    BY <1>3, <2>1 DEF LinkInv, NotesInv
  <2>. QED
    BY <2>1, <2>2, <2>3
<1>21. AfterRpcs(i) \in [Ghost -> LocalGhost]
  <2>1. NoGhost \in LocalGhost
    BY DEF NoGhost, LocalGhost
  <2>. QED
    BY <1>4, <1>19, <2>1
<1>22. ReadAs(AfterRpcs(i), Updates(Link, i), mLocalGhosts') /\ mLocalGhosts' \in [Ghost -> LocalGhost]
  <2>1. mLocalGhosts' = AfterUpdates(AfterRpcs(i), Updates(Link, i))
    BY <1>2, <1>20
  <2>. QED
    BY <1>20, <1>21, <2>1, ReadGhosts
<1>23. Link.ends # {} => Dormant(mGhostArray, Link)
  BY <1>3
<1>24. /\ LinkInv(Link') /\ TableInv(mGhostArray, mDirtyMaskBits, cleared, Link')
       /\ Dormant(mGhostArray, Link) => Dormant(mGhostArray, Link')
  <2>1. CASE Link.ends \intersect E # {}
    <3>1. Dormant(mGhostArray, Link)
      BY <1>23, <2>1
    <3>2. Updates(Link, i) = {}
      <4>1. i <= i
        BY <1>6
      <4>. QED
        BY <1>3, <1>14, <1>18, <2>1, <4>1, ReadEnds
    <3>3. Link'.ghosts = [g \in Ghost |-> NoGhost]
      <4>1. AfterRpcs(i) = [g \in Ghost |-> NoGhost]
        BY <1>19, <2>1
      <4>2. \A g \in Ghost : mLocalGhosts'[g] = NoGhost
        BY <1>22, <3>2, <4>1 DEF ReadAs
      <4>. QED
        BY <1>11, <1>22, <4>2
    <3>. QED
      BY <1>3, <1>18, <2>1, <3>1, <3>3, ReadEnded
  <2>2. CASE Link.ends \intersect E = {}
    <3>1. ReadAs(Link.ghosts, Updates(Link, i), Link'.ghosts)
      BY <1>10, <1>11, <1>19, <1>22, <2>2
    <3>2. GhostsInv(mGhostArray, Link) /\ mGhostArray.inUse \subseteq Ghost
      BY <1>3 DEF TableInv, GhostArray
    <3>3. Link.ends # {} => \A j \in Pos(Link) : List(Link, j) = {}
      BY <1>23 DEF Dormant
    <3>4. LinkInv(Link')
      BY <1>3, <1>18, <2>2, <3>1, <3>2, <3>3, ReadLink
    <3>5. /\ TableInv(mGhostArray, mDirtyMaskBits, cleared, Link')
          /\ Dormant(mGhostArray, Link) => Dormant(mGhostArray, Link')
      BY <1>3, <1>18, <1>23, <2>2, <3>1, ReadTable
    <3>. QED
      BY <3>4, <3>5
  <2>. QED
    BY <2>1, <2>2
<1>25. /\ TableInv(mGhostArray', mDirtyMaskBits', cleared', Link')
       /\ mGhosting' \/ Dormant(mGhostArray', Link')
       /\ mGhosting' => Link'.ends = {}
  <2>1. /\ mGhostArray' = mGhostArray /\ mDirtyMaskBits' = mDirtyMaskBits
        /\ cleared' = cleared /\ mGhosting' = mGhosting
    BY <1>2 DEF worldVars, serverVars
  <2>. QED
    BY <1>3, <1>17, <1>24, <2>1
<1>26. ChannelInv' /\ StartsRight'
  <2>1. \A m \in arrived'[Server] : m <= sent[Server]
    BY <1>3, <1>6, <1>9 DEF ChannelInv
  <2>2. ChannelInv'
    BY <1>2, <1>3, <2>1 DEF ChannelInv
  <2>3. StartsRight'
    BY <1>2, <1>3 DEF StartsRight, rpcVars, serverVars
  <2>. QED
    BY <2>2, <2>3
<1>27. TypeOK'
  <2>1. ChanTypeOK'
    BY <1>2, <1>3, <1>9 DEF TypeOK, ChanTypeOK
  <2>2. rpcDone' \in 0 .. Len(rpcs) /\ replied \in 0 .. rpcDone'
    BY <1>2, <1>4, <1>8
  <2>3. rpcWaiting' \subseteq DOMAIN rpcs
    BY <1>2, <1>8
  <2>4. /\ mGhostArray \in GhostArray /\ mGhostArray.updating \subseteq mGhostArray.inUse
        /\ mDirtyMaskBits \in [Object -> SUBSET Bit]
        /\ scope \subseteq exists /\ exists \subseteq Object /\ cleared \subseteq Object \X Bit
        /\ {mScopeObject, mGhosting, mScoping} \subseteq BOOLEAN
        /\ mGhostingSequence \in Nat /\ calls \in Nat
        /\ notes \in Seq(Note) /\ Len(notes) = sent[Server] - notified[Server]
        /\ \A j \in DOMAIN notes : notes[j].rpcs \subseteq DOMAIN rpcs
        /\ rpcQueue \subseteq DOMAIN rpcs
    BY <1>3 DEF TypeOK
  <2>5. UNCHANGED <<mGhostArray, mDirtyMaskBits, exists, scope, cleared, mScopeObject, mGhosting,
                    mScoping, mGhostingSequence, calls, notes, sent, notified, rpcs, rpcQueue,
                    replied>>
    BY <1>2 DEF serverVars, rpcVars, worldVars
  <2>. QED
    BY <1>4, <1>22, <2>1, <2>2, <2>3, <2>4, <2>5 DEF TypeOK
<1>. QED
  BY <1>24, <1>25, <1>26, <1>27 DEF IInv

-----------------------------------------------------------------------------
(* The invariant holds.                                                    *)

(* The invariant holds when the connection has been made.                  *)
LEMMA InitInv == ASSUME Init PROVE IInv
<1>1. /\ ChanInit /\ notes = << >> /\ rpcs = << >> /\ rpcQueue = {} /\ rpcWaiting = {}
      /\ rpcDone = 0 /\ replied = 0 /\ calls = 0 /\ cleared = {}
      /\ mGhosting = FALSE /\ mScoping = FALSE /\ mScopeObject = TRUE /\ mGhostingSequence = 0
      /\ exists = Object /\ scope = Object
      /\ mDirtyMaskBits = [o \in Object |-> {}]
      /\ mLocalGhosts = [g \in Ghost |-> NoGhost]
  BY DEF Init
<1>2. /\ mGhostArray.info = [g \in Ghost |-> Unused]
      /\ mGhostArray.updating = {} /\ mGhostArray.inUse = {}
      /\ mGhostArray = [info |-> mGhostArray.info, updating |-> {}, inUse |-> {}]
  BY DEF Init
<1>3. mGhostArray \in GhostArray
  <2>1. Unused \in GhostInfo
    BY DEF Unused, GhostInfo
  <2>. QED
    BY <1>2, <2>1 DEF GhostArray
<1>4. /\ ChanTypeOK /\ sent = InitSeq /\ notified = InitSeq
      /\ arrived[Server] = {} /\ InitSeq[Server] \in Nat
  BY <1>1, InitSeqAssumption DEF ChanInit, ChanTypeOK, Side, Server
<1>5. TypeOK
  <2>1. NoGhost \in LocalGhost
    BY DEF NoGhost, LocalGhost
  <2>2. mLocalGhosts \in [Ghost -> LocalGhost]
    BY <1>1, <2>1
  <2>3. notes \in Seq(Note) /\ Len(notes) = sent[Server] - notified[Server] /\ DOMAIN notes = {}
    BY <1>1, <1>4
  <2>4. rpcs \in Seq(Rpc) /\ Len(rpcs) = 0
    BY <1>1
  <2>5. \A i \in DOMAIN notes : notes[i].rpcs \subseteq DOMAIN rpcs
    BY <2>3
  <2>6. mDirtyMaskBits \in [Object -> SUBSET Bit]
    BY <1>1
  <2>7. mGhostArray.updating \subseteq mGhostArray.inUse
    BY <1>2
  <2>8. /\ rpcQueue \subseteq DOMAIN rpcs /\ rpcWaiting \subseteq DOMAIN rpcs
        /\ rpcDone \in 0 .. Len(rpcs) /\ replied \in 0 .. rpcDone
    BY <1>1, <2>4
  <2>9. /\ scope \subseteq exists /\ exists \subseteq Object /\ cleared \subseteq Object \X Bit
        /\ {mScopeObject, mGhosting, mScoping} \subseteq BOOLEAN
        /\ mGhostingSequence \in Nat /\ calls \in Nat
    BY <1>1
  <2>. QED
    BY <1>3, <1>4, <2>2, <2>3, <2>4, <2>5, <2>6, <2>7, <2>8, <2>9 DEF TypeOK
<1>6. /\ Pos(Link) = {} /\ Link.rd = {} /\ Link.ends = {} /\ Link.ghosts = mLocalGhosts
  <2>1. DOMAIN notes = {} /\ rpcDone + 1 .. Len(rpcs) = {}
    BY <1>1
  <2>2. /\ Link.notes = notes /\ Link.ghosts = mLocalGhosts
        /\ Link.rd = {i \in DOMAIN notes : \A m \in arrived[Server] : m < notified[Server] + i}
        /\ Link.ends = {r \in rpcDone + 1 .. Len(rpcs) : rpcs[r].type = "rpcEndGhosting"}
    BY DEF Link
  <2>3. Link.rd = {} /\ Link.ends = {}
    BY <2>1, <2>2
  <2>. QED
    BY <2>1, <2>2, <2>3 DEF Pos
<1>7. \A g \in Ghost : Link.ghosts[g] = NoGhost
  BY <1>1, <1>6
<1>8. LinkInv(Link)
  BY <1>6, <1>7 DEF LinkInv, NotesInv, EndsInv, ReadableInv, CurrentInv
<1>9. Dormant(mGhostArray, Link)
  BY <1>2, <1>6 DEF Dormant
<1>10. TableInv(mGhostArray, mDirtyMaskBits, cleared, Link)
  <2>1. GhostsInv(mGhostArray, Link)
    BY <1>2, <1>6, <1>7 DEF GhostsInv, Absent
  <2>2. InfoInv(mGhostArray) /\ StatesInv(mGhostArray, mDirtyMaskBits, cleared, Link)
    BY <1>2 DEF InfoInv, StatesInv
  <2>. QED
    BY <1>2, <1>3, <2>1, <2>2 DEF TableInv
<1>11. ChannelInv /\ StartsRight
  <2>1. DOMAIN rpcs = {}
    BY <1>1
  <2>. QED
    BY <1>4, <2>1 DEF ChannelInv, StartsRight
<1>. QED
  BY <1>5, <1>6, <1>8, <1>9, <1>10, <1>11 DEF IInv

(* It does not depend on anything but the variables.                       *)
LEMMA StutterStep == ASSUME IInv, UNCHANGED vars PROVE IInv'
<1>1. UNCHANGED <<chanVars, mGhostArray, mDirtyMaskBits, notes, serverVars, rpcVars,
                  clientVars, worldVars>>
  BY DEF vars
<1>2. Link' = Link
  BY <1>1, SameLink DEF chanVars, rpcVars, clientVars
<1>3. TypeOK'
  <2>1. TypeOK /\ UNCHANGED <<open, sent, notified, confirmed, arrived>>
    BY <1>1 DEF IInv, chanVars
  <2>2. ChanTypeOK'
    BY <2>1 DEF TypeOK, ChanTypeOK
  <2>3. UNCHANGED <<mGhostArray, mDirtyMaskBits, exists, scope, cleared, mScopeObject, mGhosting,
                    mScoping, mGhostingSequence, calls, notes, sent, notified, rpcs, rpcQueue,
                    rpcWaiting, rpcDone, replied, mLocalGhosts>>
    BY <1>1 DEF serverVars, rpcVars, worldVars, clientVars, chanVars
  <2>. QED
    BY <2>1, <2>2, <2>3 DEF TypeOK
<1>4. ChannelInv' /\ StartsRight'
  BY <1>1 DEF IInv, ChannelInv, StartsRight, chanVars, rpcVars, serverVars
<1>. QED
  BY <1>1, <1>2, <1>3, <1>4 DEF IInv, serverVars, worldVars

(* Every step keeps it.                                                    *)
LEMMA NextInv == ASSUME IInv, [Next]_vars PROVE IInv'
<1>1. ASSUME NEW o \in Object, setMaskBits(o) PROVE IInv'
  BY <1>1, SetMaskBits
<1>2. ASSUME NEW o \in Object, clearMaskBits(o) PROVE IInv'
  BY <1>2, ClearMaskBits
<1>3. ASSUME NEW o \in Object, DestroyObject(o) PROVE IInv'
  BY <1>3, DestroyObjectStep
<1>4. ASSUME NEW o \in Object, objectLocalScopeAlways(o) PROVE IInv'
  BY <1>4, ScopeAlwaysStep
<1>5. ASSUME NEW o \in Object, objectLocalClearAlways(o) PROVE IInv'
  BY <1>5, ClearAlwaysStep
<1>6. CASE ScopeChanges
  BY <1>6, ScopeChangesStep
<1>7. CASE activateGhosting
  BY <1>7, ActivateStep
<1>8. CASE resetGhosting
  BY <1>8, ResetStep
<1>9. CASE rpcReadyForNormalGhosts
  BY <1>9, ReadyStep
<1>10. CASE processConnections
  BY <1>10, ProcessStep
<1>11. CASE PacketReceived
  BY <1>11, ReceivedStep
<1>12. CASE PacketDropped
  BY <1>12, DroppedStep
<1>13. CASE ReadPacket
  BY <1>13, ReadStep
<1>14. CASE UNCHANGED vars
  BY <1>14, StutterStep
<1>. QED
  BY <1>1, <1>2, <1>3, <1>4, <1>5, <1>6, <1>7, <1>8, <1>9, <1>10, <1>11, <1>12, <1>13, <1>14
     DEF Next

(* The invariant holds in every state of GhostConnection.                  *)
THEOREM InvHolds == Spec => []IInv
<1>1. Init => IInv
  BY InitInv
<1>2. IInv /\ [Next]_vars => IInv'
  BY NextInv
<1>. QED
  BY <1>1, <1>2, PTL DEF Spec

(* The ghost array, the notes, the RPCs and the ghosts of the initiator    *)
(* are what they should be; the first segment is a part of those in use    *)
(* (TypeOK).                                                               *)
THEOREM TypeCorrect == Spec => []TypeOK
<1>1. IInv => TypeOK
  BY DEF IInv
<1>. QED
  BY <1>1, InvHolds, PTL

(* validateGhostArray: the segments of mGhostArray are right, however      *)
(* setMaskBits, clearMaskBits, packetDropped and freeGhostInfo move the    *)
(* GhostInfos, when every call of clearMaskBits clears one bit. (With more *)
(* than one at a time the code itself leaves a GhostInfo with a zero mask  *)
(* in the first segment.)                                                  *)
THEOREM SegmentsRight ==
  ASSUME "clearMany" \notin Calls
  PROVE  Spec => []SegmentsMatchMasks
<1>1. IInv => SegmentsMatchMasks
  BY DEF IInv, TableInv, InfoInv, InSegment, SegmentsMatchMasks
<1>. QED
  BY <1>1, InvHolds, PTL

(* writePacket never calls a method of NULL: a GhostInfo without an object *)
(* is being killed.                                                        *)
THEOREM ObjectlessAreKilled == Spec => []NullIsKilled
<1>1. IInv => NullIsKilled
  BY DEF IInv, TableInv, InfoInv, NullIsKilled
<1>. QED
  BY <1>1, InvHolds, PTL

(* The lists of the notes are those of the model.                          *)
LEMMA ListsOfNotes ==
  /\ \A i : ghostList(i) = List(Link, i)
  /\ Pos(Link) = DOMAIN notes /\ Link.notes = notes /\ Link.ghosts = mLocalGhosts
  /\ Link.arr = {i \in DOMAIN notes : notified[Server] + i \in arrived[Server]}
BY DEF ghostList, List, Link, Pos

(* freeGhostInfo frees no GhostInfo that a queued note refers to.          *)
THEOREM RefsAreInUse == Spec => []NoDanglingRefs
<1>1. IInv => NoDanglingRefs
  <2>. SUFFICES ASSUME IInv, NEW i \in DOMAIN notes, NEW u \in ghostList(i)
                PROVE  u.ghost \in mGhostArray.inUse
    BY DEF NoDanglingRefs
  <2>1. GhostsInv(mGhostArray, Link) /\ mGhostArray.inUse \subseteq Ghost /\ LinkType(Link)
    BY LinkTyped DEF IInv, TableInv, GhostArray
  <2>2. u \in List(Link, i) /\ i \in Pos(Link)
    BY ListsOfNotes
  <2>. QED
    BY <2>1, <2>2, MentionedInUse
<1>. QED
  BY <1>1, InvHolds, PTL

(* readPacket finds a ghost for every update and for every removal, with   *)
(* the object that it is for, and none for a creation, whatever packets    *)
(* are lost and whenever sessions end and start.                           *)
THEOREM UpdatesAreForTheirGhost == Spec => []UpdatesFindTheirGhost
<1>1. IInv => UpdatesFindTheirGhost
  <2>. DEFINE k == notified[Server]
  <2>. SUFFICES ASSUME IInv, NEW n \in Unnotified(Server), Readable(Client, n),
                       NEW u \in notes[n - k].updates
                PROVE  /\ u.kind = "Ghosting" <=> AfterRpcs(n - k)[u.ghost] = NoGhost
                       /\ u.kind = "Update" => AfterRpcs(n - k)[u.ghost].of = u.obj
    BY DEF UpdatesFindTheirGhost
  <2>. DEFINE i == n - k
              E == rpcDone + 1 .. ExecutedTo(i)
  <2>1. TypeOK /\ LinkInv(Link) /\ LinkType(Link)
    BY LinkTyped DEF IInv
  <2>2. /\ k \in Nat /\ sent[Server] \in Nat /\ Len(notes) = sent[Server] - k
        /\ notes \in Seq(Note)
    BY <2>1 DEF TypeOK, ChanTypeOK, Side, Server
  <2>3. i \in DOMAIN notes /\ i \in Nat /\ n = k + i
    <3>1. n \in k + 1 .. sent[Server]
      BY DEF Unnotified
    <3>2. DOMAIN notes = 1 .. sent[Server] - k
      BY <2>2
    <3>. HIDE DEF k
    <3>. QED
      BY <2>2, <3>1, <3>2
  <2>4. \A m \in arrived[Server] : m < n
    <3>1. Peer(Client) = Server
      BY DEF Peer, Client, Server
    <3>. QED
      BY <3>1 DEF Readable
  <2>. HIDE DEF i
  <2>5. i \in Link.rd
    <3>1. Link.rd = {j \in DOMAIN notes : \A m \in arrived[Server] : m < k + j}
      BY DEF Link
    <3>. QED
      BY <2>3, <2>4, <3>1
  <2>6. u \in Updates(Link, i) /\ i \in Pos(Link)
    BY <2>3, ListsOfNotes DEF Updates, i
  <2>7. CASE \E r \in E : rpcs[r].type = "rpcEndGhosting"
    <3>1. PICK r \in E : rpcs[r].type = "rpcEndGhosting"
      BY <2>7
    <3>2. /\ ExecutedTo(i) \in rpcDone .. Len(rpcs) /\ E \subseteq Waiting(i)
          /\ rpcDone \in Nat /\ Len(rpcs) \in Nat
      BY <2>1, <2>3, ExecutedRun DEF TypeOK
    <3>3. r \in Link.ends
      <4>1. Link.ends = {x \in rpcDone + 1 .. Len(rpcs) : rpcs[x].type = "rpcEndGhosting"}
        BY DEF Link
      <4>2. r \in rpcDone + 1 .. Len(rpcs)
        BY <3>2
      <4>. QED
        BY <3>1, <4>1, <4>2
    <3>4. r \in Link.waiting \/ r \in Link.notes[i].rpcs
      <4>1. r \in Waiting(i) /\ Link.waiting = rpcWaiting
        BY <3>2 DEF Link
      <4>. QED
        BY <4>1, ListsOfNotes DEF Waiting
    <3>5. i <= i
      BY <2>3
    <3>6. Updates(Link, i) = {}
      BY <2>1, <2>5, <2>6, <3>3, <3>4, <3>5 DEF LinkInv, EndsInv
    <3>. QED
      BY <2>6, <3>6
  <2>8. CASE ~\E r \in E : rpcs[r].type = "rpcEndGhosting"
    <3>1. AfterRpcs(i) = Link.ghosts
      BY <2>8, ListsOfNotes DEF AfterRpcs
    <3>2. /\ u.kind = "Ghosting" <=> Link.ghosts[u.ghost] = NoGhost
          /\ u.kind = "Update" => Link.ghosts[u.ghost].of = u.obj
      BY <2>1, <2>5, <2>6 DEF LinkInv, ReadableInv
    <3>. QED
      BY <3>1, <3>2 DEF i
  <2>. QED
    BY <2>7, <2>8
<1>. QED
  BY <1>1, InvHolds, PTL

(* No state is forgotten: packetDropped leaves out of the masks only what  *)
(* a later packet carries as it is now.                                    *)
THEOREM NothingForgotten == Spec => []NoStateForgotten
<1>1. IInv => NoStateForgotten
  <2>. SUFFICES ASSUME IInv, NEW g \in mGhostArray.inUse, mGhostArray.info[g].obj # NoObject,
                       NEW b \in Bit
                PROVE  LET o == mGhostArray.info[g].obj IN
                       \/ b \in mGhostArray.info[g].updateMask
                       \/ b \in mDirtyMaskBits[o]
                       \/ <<o, b>> \in cleared
                       \/ mLocalGhosts[g].of = o /\ b \in mLocalGhosts[g].current
                       \/ \E i \in DOMAIN notes : \E u \in ghostList(i) :
                            u.ghost = g /\ b \in u.current /\ i + notified[Server] \notin arrived[Server]
    BY DEF NoStateForgotten
  <2>. DEFINE o == mGhostArray.info[g].obj
  <2>1. TypeOK /\ StatesInv(mGhostArray, mDirtyMaskBits, cleared, Link)
    BY DEF IInv, TableInv
  <2>2. ToBeSent(mGhostArray, mDirtyMaskBits, cleared, g, o, b) \/ Remembered(Link, g, o, b)
    BY <2>1 DEF StatesInv
  <2>3. CASE ToBeSent(mGhostArray, mDirtyMaskBits, cleared, g, o, b)
    BY <2>3 DEF ToBeSent
  <2>4. CASE Link.ghosts[g].of = o /\ b \in Link.ghosts[g].current
    BY <2>4, ListsOfNotes
  <2>5. ASSUME NEW i \in Pos(Link), NEW u \in List(Link, i), u.ghost = g, b \in u.current,
               i \notin Link.arr
        PROVE  \E j \in DOMAIN notes : \E v \in ghostList(j) :
                 v.ghost = g /\ b \in v.current /\ j + notified[Server] \notin arrived[Server]
    <3>1. i \in DOMAIN notes /\ u \in ghostList(i)
      BY ListsOfNotes
    <3>2. notified[Server] + i \notin arrived[Server]
      BY <2>5, <3>1, ListsOfNotes
    <3>3. i \in Nat /\ notified[Server] \in Nat
      BY <2>1, <3>1 DEF TypeOK, ChanTypeOK, Side, Server
    <3>4. i + notified[Server] = notified[Server] + i
      BY <3>3
    <3>. QED
      BY <2>5, <3>1, <3>2, <3>4
  <2>. QED
    BY <2>2, <2>3, <2>4, <2>5 DEF Remembered
<1>. QED
  BY <1>1, InvHolds, PTL

(* rpcReadyForNormalGhosts only starts the ghosting when the initiator     *)
(* will not be told any more to end it.                                    *)
THEOREM SessionIsTheSame == Spec => []SameSession
<1>1. IInv => SameSession
  BY DEF IInv, Link, SameSession
<1>. QED
  BY <1>1, InvHolds, PTL

(* getGhostIndex gives the index only of a ghost that the initiator has,   *)
(* for the same object.                                                    *)
THEOREM AvailableGhosts == Spec => []AvailableIsThere
<1>1. IInv => AvailableIsThere
  <2>. SUFFICES ASSUME IInv, NEW g \in mGhostArray.inUse,
                       mGhostArray.info[g].flags \intersect NotAvailable = {}
                PROVE  mLocalGhosts[g].of = mGhostArray.info[g].obj
    BY DEF AvailableIsThere
  <2>1. InfoInv(mGhostArray) /\ GhostsInv(mGhostArray, Link)
    BY DEF IInv, TableInv
  <2>2. /\ "NotYetGhosted" \notin mGhostArray.info[g].flags
        /\ "Ghosting" \notin mGhostArray.info[g].flags
        /\ "KillGhost" \notin mGhostArray.info[g].flags
        /\ "KillingGhost" \notin mGhostArray.info[g].flags
    BY DEF NotAvailable
  <2>3. mGhostArray.info[g].obj # NoObject
    BY <2>1, <2>2 DEF InfoInv
  <2>4. Present(Link, g, mGhostArray.info[g].obj)
    BY <2>1, <2>2 DEF GhostsInv
  <2>5. Link.ghosts[g].of = mGhostArray.info[g].obj
    BY <2>3, <2>4 DEF Present
  <2>. QED
    BY <2>5, ListsOfNotes
<1>. QED
  BY <1>1, InvHolds, PTL
=============================================================================
