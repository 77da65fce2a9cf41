---------------------------- MODULE GhostConnection ----------------------------
(***************************************************************************)
(* GhostConnection (ghostConnection.cpp) and the update masks of NetObject *)
(* (netObject.cpp): the host sends the most recent state of its objects to *)
(* the initiator, over packets as NotifyChannel describes them.            *)
(*                                                                         *)
(* Each object in scope has a GhostInfo, whose index names the ghost on    *)
(* the other side, with a mask of the states (Bit) still to be sent.  The  *)
(* array of GhostInfos is kept in three segments: those with updates to    *)
(* send (updating), the others in use, and the free ones; GhostArray shows *)
(* how.  What a packet carried is remembered until its fate is known; the  *)
(* states of a dropped packet are sent again unless a later one has them.  *)
(*                                                                         *)
(* Three RPCs start and end ghosting.  They are ordered events, handled as *)
(* EventConnection does.  The reply of the initiator comes at some time.   *)
(***************************************************************************)
EXTENDS NotifyChannel, Sequences

CONSTANTS
  Object,        \* the NetObjects of the host
  NoObject,      \* NULL
  Bit,           \* the bits of an update mask; 0xFFFFFFFF is all of them
  Ghost,         \* indices of the ghost array: 0 .. MaxGhostCount - 1
  Calls,         \* bound of the model: what the application may do
  MaxCalls,      \* bound of the model: how often
  MaxLost,       \* bound of the model: packets lost
  MaxEmpty       \* bound of the model: packets that carry nothing

CallKinds == {"change", "clear", "clearMany", "scope", "always", "destroy", "session",
              "partial"}

ASSUME GhostConstants ==
  /\ NoObject \notin Object
  /\ Bit # {}
  /\ Calls \subseteq CallKinds
  /\ MaxCalls \in Nat /\ MaxLost \in Nat /\ MaxEmpty \in Nat

VARIABLES
  mGhostArray,        \* [info, updating, inUse]: the GhostInfos and segments
  mDirtyMaskBits,     \* [Object -> SUBSET Bit]
  exists,             \* the objects that have not been deleted
  scope,              \* what performScopeQuery of the scope object finds
  mScopeObject,       \* is there a scope object?
  mGhosting, mScoping, mGhostingSequence,
  notes,              \* the packets with a queued notify, and what they carry
  rpcs,               \* the RPCs posted by the host, in order
  rpcQueue,           \* those of them that are still to be sent
  rpcWaiting,         \* those that have come in at the initiator, too early
  rpcDone,            \* the number of those that have been executed there
  replied,            \* the last RPC whose answer has come back to the host
  mLocalGhosts,       \* the ghosts of the initiator
  calls,              \* history: what the application has done
  cleared             \* history: the states (object, bit) it need not send

serverVars == <<mGhosting, mScoping, mGhostingSequence>>
rpcVars == <<rpcs, rpcQueue>>
clientVars == <<rpcWaiting, rpcDone, replied, mLocalGhosts>>
worldVars == <<exists, scope, mScopeObject, calls, cleared>>
vars == <<chanVars, mGhostArray, mDirtyMaskBits, notes, serverVars, rpcVars,
          clientVars, worldVars>>

Server == "host"
Client == "initiator"

Flag == {"InScope", "ScopeLocalAlways", "NotYetGhosted", "Ghosting",
         "KillGhost", "KillingGhost"}
NotAvailable == {"NotYetGhosted", "Ghosting", "KillGhost", "KillingGhost"}

GhostInfo == [obj : Object \union {NoObject}, updateMask : SUBSET Bit,
              flags : SUBSET Flag]
Unused == [obj |-> NoObject, updateMask |-> {}, flags |-> {}]

\* What a packet says of one ghost.  The fields obj and current are history:
\* the states in mask that the object still has as they were written.
Update == [ghost : Ghost, kind : {"Ghosting", "Update", "KillingGhost"},
           mask : SUBSET Bit, obj : Object \union {NoObject}, current : SUBSET Bit]

\* A ghost at the initiator; of, and current, its states that are those of
\* the object, are history.
LocalGhost == [of : Object \union {NoObject}, current : SUBSET Bit]
NoGhost == [of |-> NoObject, current |-> {}]

Init ==
  /\ ChanInit
  /\ mGhostArray = [info |-> [g \in Ghost |-> Unused], updating |-> {}, inUse |-> {}]
  /\ mDirtyMaskBits = [o \in Object |-> {}]
  /\ exists = Object
  /\ scope = Object
  /\ mScopeObject = TRUE
  /\ mGhosting = FALSE
  /\ mScoping = FALSE
  /\ mGhostingSequence = 0
  /\ notes = << >>
  /\ rpcs = << >>
  /\ rpcQueue = {}
  /\ rpcWaiting = {}
  /\ rpcDone = 0
  /\ replied = 0
  /\ mLocalGhosts = [g \in Ghost |-> NoGhost]
  /\ calls = 0
  /\ cleared = {}

-----------------------------------------------------------------------------
(* The ghost array.                                                        *)
GhostsOf(t, o) == {g \in t.inUse : t.info[g].obj = o}
InFlight(t, g) == t.info[g].flags \intersect {"Ghosting", "KillingGhost"} # {}

\* Faulty variant: it stays in the second segment.
Detached_InPlace(t, gs) ==
  [info |-> [g \in Ghost |->
     IF g \in gs THEN [obj |-> NoObject,
                       updateMask |-> Bit,
                       flags |-> t.info[g].flags \union {"KillGhost"}]
                 ELSE t.info[g]],
   updating |-> t.updating,
   inUse |-> t.inUse]

\* detachObject.
Detached(t, gs) ==
  [info |-> [g \in Ghost |->
     IF g \in gs
       THEN [obj |-> NoObject,
             updateMask |-> IF t.info[g].updateMask = {} THEN Bit
                                                        ELSE t.info[g].updateMask,
             flags |-> t.info[g].flags \union {"KillGhost"}]
       ELSE t.info[g]],
   updating |-> t.updating \union {g \in gs : t.info[g].updateMask = {}},
   inUse |-> t.inUse]

\* Faulty variant: without the move to the second segment first.
Freed_InPlace(t, gs) ==
  [info |-> [g \in Ghost |-> IF g \in gs THEN Unused ELSE t.info[g]],
   updating |-> t.updating,
   inUse |-> t.inUse \ gs]

\* freeGhostInfo.  (A free GhostInfo is set anew before it is used again.)
Freed(t, gs) ==
  [info |-> [g \in Ghost |-> IF g \in gs THEN Unused ELSE t.info[g]],
   updating |-> t.updating \ gs,
   inUse |-> t.inUse \ gs]

\* Mask bits are added, which may move a GhostInfo to the first segment.
Flagged(t, gs, bits) ==
  [info |-> [g \in Ghost |->
     IF g \in gs THEN [t.info[g] EXCEPT !.updateMask = @ \union bits[g]] ELSE t.info[g]],
   updating |-> t.updating \union {g \in gs : t.info[g].updateMask = {} /\ bits[g] # {}},
   inUse |-> t.inUse]

\* collapseDirtyList.
Collapsed(t) ==
  LET gs == {g \in t.inUse : t.info[g].obj # NoObject}
  IN  Flagged(t, gs, [g \in gs |-> mDirtyMaskBits[t.info[g].obj]])

\* objectInScope for all objects of objs, new ones taking free GhostInfos
\* as long as there are any.
Scoped(t, objs) ==
  LET new == {o \in objs : GhostsOf(t, o) = {}}
      free == Ghost \ t.inUse
  IN
  {[info |-> [g \in Ghost |->
      IF g \in DOMAIN taken
        THEN [obj |-> taken[g], updateMask |-> Bit,
              flags |-> {"NotYetGhosted", "InScope"}]
      ELSE IF t.info[g].obj \in objs
        THEN [t.info[g] EXCEPT !.flags = @ \union {"InScope"}]
        ELSE t.info[g]],
    updating |-> t.updating \union DOMAIN taken,
    inUse |-> t.inUse \union DOMAIN taken] :
   taken \in {f \in UNION {[gs -> new] : gs \in SUBSET free} :
                /\ \A g, h \in DOMAIN f : f[g] = f[h] => g = h
                /\ DOMAIN f = free \/ {f[g] : g \in DOMAIN f} = new}}

\* prepareWritePacket: those with updates leave the scope, unless the query
\* finds them again.
Prepared(t) ==
  LET t0 == [t EXCEPT !.info = [g \in Ghost |->
               IF g \in t.updating /\ "ScopeLocalAlways" \notin t.info[g].flags
                 THEN [t.info[g] EXCEPT !.flags = @ \ {"InScope"}]
                 ELSE t.info[g]]]
  IN  IF mScopeObject /\ mScoping THEN Scoped(t0, scope) ELSE {t0}

-----------------------------------------------------------------------------
(* What the application does.                                              *)
Call(kind) == /\ kind \in Calls
              /\ calls < MaxCalls           \* bound of the model
              /\ calls' = calls + 1

\* The history of states: what has been sent of these is not current now.
Outdated(o, bits) ==
  /\ notes' = [i \in DOMAIN notes |-> [notes[i] EXCEPT !.updates =
       {IF u.obj = o THEN [u EXCEPT !.current = @ \ bits] ELSE u : u \in @}]]
  /\ mLocalGhosts' = [g \in Ghost |->
       IF mLocalGhosts[g].of = o
         THEN [mLocalGhosts[g] EXCEPT !.current = @ \ bits] ELSE mLocalGhosts[g]]

\* A state of o changes, and setMaskBits says so.
setMaskBits(o) ==
  /\ Call("change")
  /\ o \in exists
  /\ \E b \in Bit :
       /\ mDirtyMaskBits' = [mDirtyMaskBits EXCEPT ![o] = @ \union {b}]
       /\ Outdated(o, {b})
       /\ cleared' = cleared \ {<<o, b>>}
  /\ UNCHANGED <<chanVars, mGhostArray, serverVars, rpcVars, rpcWaiting, rpcDone,
                 replied, exists, scope, mScopeObject>>

clearMaskBits(o) ==
  /\ o \in exists
  /\ \E bits \in SUBSET Bit \ {{}} :
       /\ Call(IF \E bit \in Bit : bits = {bit} THEN "clear" ELSE "clearMany")
       /\ cleared' = cleared \union ({o} \X bits)
       /\ mDirtyMaskBits' = [mDirtyMaskBits EXCEPT ![o] = @ \ bits]
       /\ LET gs == GhostsOf(mGhostArray, o) IN
          mGhostArray' =
            [info |-> [g \in Ghost |->
               IF g \in gs THEN [mGhostArray.info[g] EXCEPT !.updateMask = @ \ bits]
                           ELSE mGhostArray.info[g]],
             updating |-> mGhostArray.updating
                            \ {g \in gs : mGhostArray.info[g].updateMask = bits},
             inUse |-> mGhostArray.inUse]
  /\ UNCHANGED <<chanVars, serverVars, rpcVars, clientVars, notes, exists, scope,
                 mScopeObject>>

\* ~NetObject.
DestroyObject(o) ==
  /\ Call("destroy")
  /\ o \in exists
  /\ exists' = exists \ {o}
  /\ scope' = scope \ {o}
  /\ mDirtyMaskBits' = [mDirtyMaskBits EXCEPT ![o] = {}]
  /\ mGhostArray' = Detached(mGhostArray, GhostsOf(mGhostArray, o))
  /\ UNCHANGED <<chanVars, serverVars, rpcVars, clientVars, notes, mScopeObject, cleared>>

\* The world changes: another scope, or the scope object goes or comes.
ScopeChanges ==
  /\ Call("scope")
  /\ \/ scope' \in SUBSET exists /\ mScopeObject' = mScopeObject
     \/ scope' = scope /\ mScopeObject' = ~mScopeObject
  /\ UNCHANGED <<chanVars, mGhostArray, mDirtyMaskBits, notes, serverVars, rpcVars,
                 clientVars, exists, cleared>>

objectLocalScopeAlways(o) ==
  /\ Call("always")
  /\ o \in exists
  /\ \E t \in IF mScoping THEN Scoped(mGhostArray, {o}) ELSE {mGhostArray} :
       mGhostArray' = [t EXCEPT !.info = [g \in Ghost |->
         IF g \in GhostsOf(t, o)
           THEN [t.info[g] EXCEPT !.flags = @ \union {"ScopeLocalAlways"}]
           ELSE t.info[g]]]
  /\ UNCHANGED <<chanVars, mDirtyMaskBits, notes, serverVars, rpcVars, clientVars,
                 exists, scope, mScopeObject, cleared>>

objectLocalClearAlways(o) ==
  /\ Call("always")
  /\ o \in exists
  /\ mGhostArray' = [mGhostArray EXCEPT !.info = [g \in Ghost |->
       IF g \in GhostsOf(mGhostArray, o)
         THEN [mGhostArray.info[g] EXCEPT !.flags = @ \ {"ScopeLocalAlways"}]
         ELSE mGhostArray.info[g]]]
  /\ UNCHANGED <<chanVars, mDirtyMaskBits, notes, serverVars, rpcVars, clientVars,
                 exists, scope, mScopeObject, cleared>>

\* Posts an RPC to the initiator.
Post(rpc) ==
  /\ rpcs' = Append(rpcs, rpc)
  /\ rpcQueue' = rpcQueue \union {Len(rpcs) + 1}

\* (The code asserts that there are no ghosts.)
activateGhosting ==
  /\ \/ Call("session")
     \/ rpcs = << >> /\ UNCHANGED calls
  /\ mGhostArray.inUse = {}
  /\ mGhostingSequence' = mGhostingSequence + 1
  /\ mScoping' = TRUE
  /\ Post([type |-> "rpcStartGhosting", sequence |-> mGhostingSequence'])
  /\ UNCHANGED <<chanVars, mGhostArray, mDirtyMaskBits, notes, mGhosting, clientVars,
                 exists, scope, mScopeObject, cleared>>

\* clearGhostInfo: the lists of the queued notes go with the ghosts.
NotesCleared == [i \in DOMAIN notes |-> [notes[i] EXCEPT !.listed = FALSE]]

resetGhosting ==
  /\ Call("session")
  /\ mGhosting' = FALSE
  /\ mScoping' = FALSE
  /\ mGhostingSequence' = mGhostingSequence + 1
  /\ Post([type |-> "rpcEndGhosting", sequence |-> 0])
  /\ notes' = NotesCleared
  /\ mGhostArray' = Freed(mGhostArray, mGhostArray.inUse)
  /\ UNCHANGED <<chanVars, mDirtyMaskBits, clientVars, exists, scope, mScopeObject, cleared>>

\* rpcStartGhosting is answered: the answers on their way to the host.
Answers == {r \in replied + 1 .. rpcDone : rpcs[r].type = "rpcStartGhosting"}

\* Faulty variant: any reply will do.
IsThisSession_Any(sequence) == sequence <= mGhostingSequence

IsThisSession(sequence) == sequence = mGhostingSequence

\* rpcReadyForNormalGhosts comes in at the host, in the order of the answers.
rpcReadyForNormalGhosts ==
  /\ \E r \in Answers :
       /\ \A x \in Answers : r <= x
       /\ replied' = r
       /\ mGhosting' = (mGhosting \/ IsThisSession(rpcs[r].sequence))
  /\ UNCHANGED <<chanVars, mGhostArray, mDirtyMaskBits, notes, mScoping,
                 mGhostingSequence, rpcVars, rpcWaiting, rpcDone, mLocalGhosts,
                 worldVars>>

-----------------------------------------------------------------------------
(* writePacket.                                                            *)
OutOfScope(t) == {g \in t.updating : "InScope" \notin t.info[g].flags}
\* Faulty variant: also those whose creation is in flight.
NeverGhosted_NotYetKnown(t) ==
  {g \in t.updating : /\ "KillGhost" \in t.info[g].flags
                      /\ t.info[g].flags \intersect {"NotYetGhosted", "Ghosting"} # {}}

NeverGhosted(t) == {g \in t.updating : {"KillGhost", "NotYetGhosted"} \subseteq t.info[g].flags}

\* First what is out of scope is detached, and what need not be killed freed.
Cleaned(t) ==
  LET t1 == Detached(t, OutOfScope(t)) IN Freed(t1, NeverGhosted(t1))

\* Faulty variant: only the removal is waited for.
MayBeWritten_NotKilled(t) == {g \in t.updating : "KillingGhost" \notin t.info[g].flags}

\* No update is sent for a ghost whose creation or removal is in flight.
MayBeWritten(t) == {g \in t.updating : ~InFlight(t, g)}

Kind(info) ==
  IF "KillGhost" \in info.flags THEN "KillingGhost"
  ELSE IF "NotYetGhosted" \in info.flags THEN "Ghosting" ELSE "Update"

\* packUpdate returns the states it has not written; here it writes some.
MayReturn(info) ==
  IF "partial" \in Calls /\ Kind(info) # "KillingGhost"
    THEN SUBSET info.updateMask \ {info.updateMask} ELSE {{}}

UpdateOf(info, g, returned) ==
  LET mask == info.updateMask \ returned IN
  [ghost |-> g, kind |-> Kind(info), mask |-> mask, obj |-> info.obj,
   current |-> IF info.obj = NoObject THEN {} ELSE mask]

\* Faulty variant: a creation is not marked as being in flight.
AfterUpdate_NotGhosting(info, returned) ==
  [info EXCEPT !.updateMask = returned,
               !.flags = IF Kind(info) = "Update" THEN @
                         ELSE (@ \ {"KillGhost", "NotYetGhosted"})
                                \union ({Kind(info)} \intersect {"KillingGhost"})]

AfterUpdate(info, returned) ==
  LET flags == info.flags \ {"KillGhost", "NotYetGhosted"} IN
  [info EXCEPT !.updateMask = returned,
               !.flags = IF Kind(info) = "Update" THEN @ ELSE flags \union {Kind(info)}]

Written(t, returned) ==
  [info |-> [g \in Ghost |-> IF g \in DOMAIN returned
                               THEN AfterUpdate(t.info[g], returned[g]) ELSE t.info[g]],
   updating |-> t.updating \ {g \in DOMAIN returned : returned[g] = {}},
   inUse |-> t.inUse]

\* As many updates as the packet has room for, in any order of priority.
\* (An order that is not by index makes no difference to what is sent.)
WritesGhosts(t) ==
  IF ~(mGhosting /\ mScopeObject)
    THEN {[table |-> t, updates |-> {}]}
  ELSE
    LET t0 == Cleaned(t) IN
    {[table |-> Written(t0, returned),
      updates |-> {UpdateOf(t0.info[g], g, returned[g]) : g \in DOMAIN returned}] :
     returned \in {f \in UNION {[gs -> SUBSET Bit] : gs \in SUBSET MayBeWritten(t0)} :
                     \A g \in DOMAIN f : f[g] \in MayReturn(t0.info[g])}}

isDataToTransmit(t) == rpcQueue # {} \/ t.updating # {}

WritePacket(t) ==
  /\ isDataToTransmit(t)
  /\ Send(Server)
  /\ \E w \in WritesGhosts(t), last \in {0} \union rpcQueue :
       LET carried == {i \in rpcQueue : i <= last} IN
       /\ w.updates = {} /\ carried = {} =>           \* bound of the model
            sent[Server] < InitSeq[Server] + MaxEmpty
       /\ mGhostArray' = w.table
       /\ notes' = Append(notes, [rpcs |-> carried, updates |-> w.updates, listed |-> TRUE])
       /\ rpcQueue' = rpcQueue \ carried

(* processConnections: collapseDirtyList, then checkPacketSend, which may  *)
(* find that it is not time to send yet, or the window full, or no data.   *)
processConnections ==
  LET t == Collapsed(mGhostArray) IN
  /\ mDirtyMaskBits' = [o \in Object |-> {}]
  /\ \/ /\ mGhostArray' \in {t} \union Prepared(t)
        /\ UNCHANGED <<chanVars, notes, rpcQueue>>
     \/ \E t1 \in Prepared(t) : WritePacket(t1)
  /\ UNCHANGED <<serverVars, rpcs, clientVars, worldVars>>

-----------------------------------------------------------------------------
(* packetReceived and packetDropped, for the packet at the head of notes.  *)
Lost(told, read) ==
  {n \in InitSeq[Server] + 1 .. sent[Server] :
     n \notin read /\ (n <= told \/ \E m \in read : n < m)}

\* Bound of the model.
FewLost(told, read) == Cardinality(Lost(told, read)) <= MaxLost

HandleNotify ==
  /\ Unnotified(Server) # {}
  /\ NotifyUpTo(Server, notified[Server] + 1)
  /\ FewLost(notified[Server] + 1, arrived[Server])
  /\ notes' = Tail(notes)
  /\ UNCHANGED <<open, sent, arrived, mDirtyMaskBits, serverVars, rpcs, clientVars,
                 worldVars>>

ghostList(i) == IF notes[i].listed THEN notes[i].updates ELSE {}
OfKind(updates, kind) == {u.ghost : u \in {x \in updates : x.kind = kind}}

Cleared(t, gs, flag) ==
  [t EXCEPT !.info = [g \in Ghost |->
     IF g \in gs THEN [t.info[g] EXCEPT !.flags = @ \ {flag}] ELSE t.info[g]]]

PacketReceived ==
  /\ HandleNotify
  /\ notified[Server] + 1 \in arrived[Server]
  /\ mGhostArray' = Freed(Cleared(mGhostArray, OfKind(ghostList(1), "Ghosting"), "Ghosting"),
                          OfKind(ghostList(1), "KillingGhost"))
  /\ UNCHANGED rpcQueue

\* Faulty variant: any later update of the ghost is taken to have them all.
StillMissing_Any(u) ==
  IF \E i \in 2 .. Len(notes) : \E x \in ghostList(i) : x.ghost = u.ghost
    THEN {} ELSE u.mask

\* The states of u that no later packet has carried again.
StillMissing(u) ==
  u.mask \ UNION {v.mask : v \in {x \in UNION {ghostList(i) : i \in 2 .. Len(notes)} :
                                    x.ghost = u.ghost}}

\* Faulty variant: only a creation is repeated.
Repeated_Creation(t, updates) ==
  [t EXCEPT !.info = [g \in Ghost |-> [t.info[g] EXCEPT !.flags =
     IF g \in OfKind(updates, "Ghosting") THEN (@ \ {"Ghosting"}) \union {"NotYetGhosted"}
     ELSE @ \ {"KillingGhost"}]]]

\* Faulty variant: the creation stays in flight for ever.
Repeated_Stuck(t, updates) ==
  [t EXCEPT !.info = [g \in Ghost |-> [t.info[g] EXCEPT !.flags =
     IF g \in OfKind(updates, "KillingGhost")
       THEN (@ \ {"KillingGhost"}) \union {"KillGhost"} ELSE @]]]

\* The creation or the removal of a ghost that was lost is to be repeated.
Repeated(t, updates) ==
  LET again == [g \in Ghost |->
        IF g \in OfKind(updates, "Ghosting")
          THEN (t.info[g].flags \ {"Ghosting"}) \union {"NotYetGhosted"}
        ELSE IF g \in OfKind(updates, "KillingGhost")
          THEN (t.info[g].flags \ {"KillingGhost"}) \union {"KillGhost"}
          ELSE t.info[g].flags]
  IN  [t EXCEPT !.info = [g \in Ghost |-> [t.info[g] EXCEPT !.flags = again[g]]]]

PacketDropped ==
  /\ HandleNotify
  /\ notified[Server] + 1 \notin arrived[Server]
  /\ LET updates == ghostList(1)
         gs == {u.ghost : u \in updates}
         missing == [g \in gs |-> StillMissing(CHOOSE u \in updates : u.ghost = g)]
     IN  mGhostArray' = Repeated(Flagged(mGhostArray, gs, missing), updates)
  /\ rpcQueue' = rpcQueue \union Head(notes).rpcs

-----------------------------------------------------------------------------
(* readPacket at the initiator: first the events, then the ghosts.         *)
\* The RPCs that have come in, up to the first that is missing, are executed.
Waiting(i) == rpcWaiting \union notes[i].rpcs
ExecutedTo(i) ==
  CHOOSE k \in rpcDone .. Len(rpcs) : rpcDone + 1 .. k \subseteq Waiting(i) /\ k + 1 \notin Waiting(i)

\* rpcEndGhosting deletes all ghosts.
AfterRpcs(i) ==
  IF \E r \in rpcDone + 1 .. ExecutedTo(i) : rpcs[r].type = "rpcEndGhosting"
    THEN [g \in Ghost |-> NoGhost] ELSE mLocalGhosts

AfterUpdates(ghosts, updates) ==
  [g \in Ghost |->
     IF \A u \in updates : u.ghost # g THEN ghosts[g]
     ELSE LET u == CHOOSE x \in updates : x.ghost = g IN
          IF u.kind = "KillingGhost" THEN NoGhost
          ELSE IF ghosts[g] = NoGhost THEN [of |-> u.obj, current |-> u.current]
          ELSE [ghosts[g] EXCEPT !.current = (@ \ u.mask) \union u.current]]

ReadPacket ==
  \E n \in Unnotified(Server) :
    LET i == n - notified[Server] IN
    /\ Readable(Client, n)
    /\ arrived' = [arrived EXCEPT ![Server] = @ \union {n}]
    /\ FewLost(notified[Server], arrived[Server] \union {n})
    /\ rpcDone' = ExecutedTo(i)
    /\ rpcWaiting' = Waiting(i) \ (rpcDone + 1 .. ExecutedTo(i))
    /\ mLocalGhosts' = AfterUpdates(AfterRpcs(i), notes[i].updates)
    /\ UNCHANGED <<open, sent, notified, confirmed, mGhostArray, mDirtyMaskBits, notes,
                   serverVars, rpcVars, replied, worldVars>>

Next ==
  \/ \E o \in Object : \/ setMaskBits(o)
                       \/ clearMaskBits(o)
                       \/ DestroyObject(o)
                       \/ objectLocalScopeAlways(o)
                       \/ objectLocalClearAlways(o)
  \/ ScopeChanges
  \/ activateGhosting
  \/ resetGhosting
  \/ rpcReadyForNormalGhosts
  \/ processConnections
  \/ PacketReceived
  \/ PacketDropped
  \/ ReadPacket

Spec == Init /\ [][Next]_vars

(* The application calls processConnections again and again, and a packet  *)
(* that is due takes at least one of the things that are to be sent; the   *)
(* fate of a packet is told at last, and the replies come.                 *)
Sending == processConnections /\ sent' # sent

FairSpec ==
  /\ Spec
  /\ WF_vars(Sending) /\ WF_vars(ReadPacket)
  /\ WF_vars(PacketReceived) /\ WF_vars(PacketDropped)
  /\ WF_vars(rpcReadyForNormalGhosts)

-----------------------------------------------------------------------------
GhostArray == [info : [Ghost -> GhostInfo], updating : SUBSET Ghost, inUse : SUBSET Ghost]
Rpc == [type : {"rpcStartGhosting", "rpcEndGhosting"}, sequence : Nat]
Note == [rpcs : SUBSET Nat, updates : SUBSET Update, listed : BOOLEAN]

TypeOK ==
  /\ ChanTypeOK
  /\ mGhostArray \in GhostArray /\ mGhostArray.updating \subseteq mGhostArray.inUse
  /\ mDirtyMaskBits \in [Object -> SUBSET Bit]
  /\ scope \subseteq exists /\ exists \subseteq Object /\ cleared \subseteq Object \X Bit
  /\ {mScopeObject, mGhosting, mScoping} \subseteq BOOLEAN
  /\ mGhostingSequence \in Nat /\ calls \in Nat
  /\ notes \in Seq(Note) /\ Len(notes) = sent[Server] - notified[Server]
  /\ rpcs \in Seq(Rpc)
  /\ \A i \in DOMAIN notes : notes[i].rpcs \subseteq DOMAIN rpcs
  /\ rpcQueue \subseteq DOMAIN rpcs /\ rpcWaiting \subseteq DOMAIN rpcs
  /\ rpcDone \in 0 .. Len(rpcs) /\ replied \in 0 .. rpcDone
  /\ mLocalGhosts \in [Ghost -> LocalGhost]

(* validateGhostArray: the first segment holds those with a non-zero mask, *)
(* the second those with a zero mask.                                      *)
SegmentsMatchMasks ==
  \A g \in mGhostArray.inUse :
    g \in mGhostArray.updating <=> mGhostArray.info[g].updateMask # {}

(* A GhostInfo without an object is being killed, so writePacket never     *)
(* calls a method of NULL.                                                 *)
NullIsKilled ==
  \A g \in mGhostArray.inUse : mGhostArray.info[g].obj = NoObject =>
    mGhostArray.info[g].flags \intersect {"KillGhost", "KillingGhost"} # {}

(* The notes of packets in flight only refer to GhostInfos that are in use *)
(* (freeGhostInfo: "Ack!").                                                *)
NoDanglingRefs ==
  \A i \in DOMAIN notes : \A u \in ghostList(i) : u.ghost \in mGhostArray.inUse

(* When the initiator reads a packet, the updates in it are for the ghosts *)
(* that it has: a creation finds none, anything else the ghost it is for.  *)
UpdatesFindTheirGhost ==
  \A n \in Unnotified(Server) : Readable(Client, n) =>
    LET i == n - notified[Server]
        ghosts == AfterRpcs(i)
    IN  \A u \in notes[i].updates :
          /\ u.kind = "Ghosting" <=> ghosts[u.ghost] = NoGhost
          /\ u.kind = "Update" => ghosts[u.ghost].of = u.obj

(* getGhostIndex gives the index only of a ghost that the initiator has.   *)
AvailableIsThere ==
  \A g \in mGhostArray.inUse :
    mGhostArray.info[g].flags \intersect NotAvailable = {} =>
      mLocalGhosts[g].of = mGhostArray.info[g].obj

(* No state is forgotten: what the initiator does not have as it is now,   *)
(* and is not told by a packet on its way, is still to be sent.            *)
NoStateForgotten ==
  \A g \in mGhostArray.inUse :
    LET o == mGhostArray.info[g].obj IN
    o # NoObject =>
      \A b \in Bit :
        \/ b \in mGhostArray.info[g].updateMask
        \/ b \in mDirtyMaskBits[o]
        \/ <<o, b>> \in cleared
        \/ mLocalGhosts[g].of = o /\ b \in mLocalGhosts[g].current
        \/ \E i \in DOMAIN notes : \E u \in ghostList(i) :
             u.ghost = g /\ b \in u.current /\ i + notified[Server] \notin arrived[Server]

(* While objects are ghosted the initiator is in the same session: it will *)
(* not be told any more to delete all its ghosts.                          *)
SameSession ==
  mGhosting => \A r \in rpcDone + 1 .. Len(rpcs) : rpcs[r].type # "rpcEndGhosting"

(* When the world no longer changes (the calls are bounded), the initiator *)
(* comes to have all objects in scope as they are, and none that has been  *)
(* deleted; or, when ghosting has been ended, none at all.  There must be  *)
(* as many indices as objects, since a ghost whose object left the scope   *)
(* keeps its index as long as the object does not change.                  *)
Mirrored ==
  /\ mScopeObject /\ mScoping =>
       /\ \A o \in scope : \E g \in Ghost : mLocalGhosts[g] = [of |-> o, current |-> Bit]
       /\ \A g \in Ghost : mLocalGhosts[g].of \in exists \union {NoObject}
  /\ ~mScoping => \A g \in Ghost : mLocalGhosts[g] = NoGhost

WorldIsMirrored == <>[]Mirrored
=============================================================================
