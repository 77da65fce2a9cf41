--------------------------- MODULE EventConnection ---------------------------
(***************************************************************************)
(* EventConnection (eventConnection.cpp): NetEvents sent over the packets  *)
(* of a NetConnection, as NotifyChannel describes them.                    *)
(*                                                                         *)
(* Unguaranteed events are sent once.  Guaranteed events are sent again    *)
(* when their packet is dropped, and processed as they come in.            *)
(* GuaranteedOrdered events also carry a sequence number, truncated to 7   *)
(* bits (EventSpace), and are processed in the order of that number.       *)
(*                                                                         *)
(* A datagram that answers several packets is several steps here, one for  *)
(* each call of packetReceived or packetDropped.                           *)
(***************************************************************************)
EXTENDS NotifyChannel, Sequences

CONSTANTS
  EventSpace,      \* sequence numbers are written in 7 bits: 128
  EventWindow,     \* ordered events ahead of mLastAckedEventSeq: 126
  ClearsNotifies,  \* the destructor of the subclass drops what is in flight
  MayClose,        \* may a connection be disconnected or time out?
  MaxEvents,       \* [Side -> Nat]: bound of the model, events posted
  MaxMixed,        \* [Side -> Nat]: the same when not all of them are ordered
  MaxLost,         \* [Side -> Nat]: bound of the model, packets lost
  MaxEmpty         \* bound of the model: only that many packets may be empty

GuaranteeType == {"GuaranteedOrdered", "Guaranteed", "Unguaranteed"}

EventAssumption ==
  /\ EventSpace \in Nat /\ EventWindow \in 1 .. EventSpace
  /\ ClearsNotifies \in BOOLEAN /\ MayClose \in BOOLEAN
  /\ MaxEvents \in [Side -> Nat] /\ MaxMixed \in [Side -> Nat] /\ MaxLost \in [Side -> Nat]
  /\ MaxEmpty \in Nat

ASSUME EventConstants == EventAssumption

VARIABLES
  mNextSendEventSeq,
  mLastAckedEventSeq,
  mSendEventQueue,           \* ordered events to be sent
  mUnorderedSendEventQueue,  \* the other events to be sent
  eventLists,                \* the events of each packet with a queued notify
  mNotifyEventList,          \* ordered events received, waiting for earlier ones
  mNextRecvEventSeq,
  mWaitSeqEvents,            \* ordered events read, waiting for earlier ones
  posted,                    \* history: the events posted, in order
  delivered,                 \* history: notifyDelivered(true) has been called
  undelivered,               \* history: notifyDelivered(false) has been called
  processed                  \* history: the events of s its peer has processed

sendVars == <<mNextSendEventSeq, mLastAckedEventSeq, mSendEventQueue,
              mUnorderedSendEventQueue, eventLists, mNotifyEventList>>
recvVars == <<mNextRecvEventSeq, mWaitSeqEvents, processed>>
toldVars == <<delivered, undelivered>>
vars == <<chanVars, sendVars, recvVars, toldVars, posted>>

\* An event with the number that its EventNote gives it.
OrderedEvent == [id : Nat, type : {"GuaranteedOrdered"}, mSeqCount : Nat]
UnorderedEvent == [id : Nat, type : {"Guaranteed", "Unguaranteed"}, mSeqCount : {-1}]
Event == OrderedEvent \union UnorderedEvent
IsOrdered(e) == e.type = "GuaranteedOrdered"
Ids(events) == {events[i].id : i \in DOMAIN events}
IdsOf(events, types) == {events[i].id : i \in {j \in DOMAIN events : events[j].type \in types}}

Init ==
  /\ ChanInit
  /\ mNextSendEventSeq = [s \in Side |-> 0]
  /\ mLastAckedEventSeq = [s \in Side |-> -1]
  /\ mSendEventQueue = [s \in Side |-> << >>]
  /\ mUnorderedSendEventQueue = [s \in Side |-> << >>]
  /\ eventLists = [s \in Side |-> << >>]
  /\ mNotifyEventList = [s \in Side |-> << >>]
  /\ mNextRecvEventSeq = [s \in Side |-> 0]
  /\ mWaitSeqEvents = [s \in Side |-> << >>]
  /\ posted = [s \in Side |-> << >>]
  /\ delivered = [s \in Side |-> {}]
  /\ undelivered = [s \in Side |-> {}]
  /\ processed = [s \in Side |-> << >>]

-----------------------------------------------------------------------------
(* The three lists ordered by mSeqCount.  The events of a packet are put   *)
(* into one of them in a single walk, which goes on behind the last one    *)
(* that was put in: at is the number of events that lie behind the walk.   *)
Take(list, k) == SubSeq(list, 1, k)
Rest(list, k) == SubSeq(list, k + 1, Len(list))

Walk == {w \in [list : Seq(OrderedEvent), at : Nat] : w.at <= Len(w.list)}

\* To the first event that is not below seq.
Walked(w, seq) ==
  CHOOSE k \in w.at .. Len(w.list) :
    /\ \A i \in w.at + 1 .. k : w.list[i].mSeqCount < seq
    /\ k < Len(w.list) => w.list[k + 1].mSeqCount >= seq

Insert_AtTail(e) == [w \in Walk |-> [list |-> Append(w.list, e), at |-> 0]]
Insert(e) ==
  [w \in Walk |->
     LET k == Walked(w, e.mSeqCount)
     IN  [list |-> Take(w.list, k) \o <<e>> \o Rest(w.list, k), at |-> k + 1]]

Inserting(list, events) ==
  LET w[k \in 0 .. Len(events)] ==
        IF k = 0 THEN [list |-> list, at |-> 0]
        ELSE IF IsOrdered(events[k]) THEN Insert(events[k])[w[k - 1]] ELSE w[k - 1]
  IN  w

\* The list with the ordered ones of events.
WithOrdered(list, events) == Inserting(list, events)[Len(events)].list

\* The run of events at the head that continues from a number.
RunLength(list, next) ==
  CHOOSE k \in 0 .. Len(list) :
    /\ \A i \in 1 .. k : list[i].mSeqCount = next + i - 1
    /\ k < Len(list) => list[k + 1].mSeqCount # next + k

-----------------------------------------------------------------------------
(* postNetEvent.                                                           *)
PostNetEvent(s) ==
  /\ open[s]
  /\ \E type \in GuaranteeType :
       LET ordered == type = "GuaranteedOrdered"
           e == [id |-> Len(posted[s]) + 1, type |-> type,
                 mSeqCount |-> IF ordered THEN mNextSendEventSeq[s] ELSE -1]
       IN
       /\ posted' = [posted EXCEPT ![s] = Append(@, e)]
       /\ IF ordered
            THEN /\ mNextSendEventSeq' = [mNextSendEventSeq EXCEPT ![s] = @ + 1]
                 /\ mSendEventQueue' = [mSendEventQueue EXCEPT ![s] = Append(@, e)]
                 /\ UNCHANGED mUnorderedSendEventQueue
            ELSE /\ mUnorderedSendEventQueue' =
                      [mUnorderedSendEventQueue EXCEPT ![s] = Append(@, e)]
                 /\ UNCHANGED <<mNextSendEventSeq, mSendEventQueue>>
  /\ Len(posted'[s]) <=                       \* bound of the model
       IF Len(posted'[s]) = mNextSendEventSeq'[s] THEN MaxEvents[s] ELSE MaxMixed[s]
  /\ UNCHANGED <<chanVars, mLastAckedEventSeq, eventLists, mNotifyEventList,
                 recvVars, toldVars>>

isDataToTransmit(s) ==
  mUnorderedSendEventQueue[s] # << >> \/ mSendEventQueue[s] # << >>

\* An ordered event is held back while it is too far ahead of the last one
\* that the peer is known to have.
InEventWindow_Always(s, e) == TRUE
InEventWindow(s, e) == e.mSeqCount <= mLastAckedEventSeq[s] + EventWindow

(* writePacket: as many unordered events as the packet has room for, then  *)
(* as many ordered ones as it has room and the window allows.              *)
WritePacket(s) ==
  /\ isDataToTransmit(s)
  /\ Send(s)
  /\ \E j \in 0 .. Len(mUnorderedSendEventQueue[s]) :
     \E k \in 0 .. Len(mSendEventQueue[s]) :
       /\ \A i \in 1 .. k : InEventWindow(s, mSendEventQueue[s][i])
       /\ j + k = 0 => sent[s] < InitSeq[s] + MaxEmpty   \* bound of the model
       /\ eventLists' = [eventLists EXCEPT ![s] =
            Append(@, Take(mUnorderedSendEventQueue[s], j)
                        \o Take(mSendEventQueue[s], k))]
       /\ mUnorderedSendEventQueue' =
            [mUnorderedSendEventQueue EXCEPT ![s] = Rest(@, j)]
       /\ mSendEventQueue' = [mSendEventQueue EXCEPT ![s] = Rest(@, k)]
  /\ UNCHANGED <<mNextSendEventSeq, mLastAckedEventSeq, mNotifyEventList,
                 recvVars, toldVars, posted>>

-----------------------------------------------------------------------------
\* The packets of s that will never arrive, when it has been told of those up
\* to told and those in read have arrived.
Lost(s, told, read) ==
  {n \in InitSeq[s] + 1 .. sent[s] :
     n \notin read /\ (n <= told \/ \E m \in read : n < m)}

\* Bound of the model.
FewLost(s, told, read) == Cardinality(Lost(s, told, read)) <= MaxLost[s]

\* handleNotify for the packet at the head of the queue of notes.
HandleNotify(s) ==
  /\ open[s]
  /\ Unnotified(s) # {}
  /\ NotifyUpTo(s, notified[s] + 1)
  /\ FewLost(s, notified[s] + 1, arrived[s])
  /\ eventLists' = [eventLists EXCEPT ![s] = Tail(@)]
  /\ UNCHANGED <<open, sent, arrived, mNextSendEventSeq, recvVars, posted>>

(* packetReceived: notifyDelivered() is called at once for the unordered   *)
(* events, and for an ordered one when all before it have been received.   *)
NowAcked_AtOnce(list, last) == Len(list)
NowAcked(list, last) == RunLength(list, last + 1)

PacketReceived(s) ==
  /\ HandleNotify(s)
  /\ notified[s] + 1 \in arrived[s]
  /\ LET events == Head(eventLists[s])
         list == WithOrdered(mNotifyEventList[s], events)
         k == NowAcked(list, mLastAckedEventSeq[s])
     IN
     /\ delivered' = [delivered EXCEPT ![s] =
          @ \union IdsOf(events, {"Guaranteed", "Unguaranteed"}) \union Ids(Take(list, k))]
     /\ mNotifyEventList' = [mNotifyEventList EXCEPT ![s] = Rest(list, k)]
     /\ mLastAckedEventSeq' = [mLastAckedEventSeq EXCEPT ![s] = @ + k]
  /\ UNCHANGED <<mSendEventQueue, mUnorderedSendEventQueue, undelivered>>

(* packetDropped: ordered events go back to their place in the queue ...   *)
OrderedAgain_AllGuaranteed(queue, events) ==
  WithOrdered(queue, events) \o SelectSeq(events, LAMBDA e : e.type = "Guaranteed")
OrderedAgain(queue, events) == WithOrdered(queue, events)

(* ... guaranteed ones go back one by one to the head of theirs; the       *)
(* others are given up.                                                    *)
UnorderedAgain_Forgets(queue, events) == queue
UnorderedAgain(queue, events) ==
  LET q[k \in 0 .. Len(events)] ==
        IF k = 0 THEN queue
        ELSE IF events[k].type = "Guaranteed" THEN <<events[k]>> \o q[k - 1] ELSE q[k - 1]
  IN  q[Len(events)]

IsDropped_Always(s) == TRUE
IsDropped(s) == notified[s] + 1 \notin arrived[s]

PacketDropped(s) ==
  /\ HandleNotify(s)
  /\ IsDropped(s)
  /\ LET events == Head(eventLists[s]) IN
     /\ mSendEventQueue' =
          [mSendEventQueue EXCEPT ![s] = OrderedAgain(@, events)]
     /\ mUnorderedSendEventQueue' =
          [mUnorderedSendEventQueue EXCEPT ![s] = UnorderedAgain(@, events)]
     /\ undelivered' = [undelivered EXCEPT ![s] =
          @ \union IdsOf(events, {"Unguaranteed"})]
  /\ UNCHANGED <<mLastAckedEventSeq, mNotifyEventList, delivered>>

-----------------------------------------------------------------------------
(* readPacket.  The sequence number in the packet is rebuilt as the least  *)
(* one that agrees with it and is not below mNextRecvEventSeq.             *)
RebuiltSeq_SameBlock(r, e) ==
  (mNextRecvEventSeq[r] - (mNextRecvEventSeq[r] % EventSpace))
    + (e.mSeqCount % EventSpace)
RebuiltSeq(r, e) ==
  LET block == mNextRecvEventSeq[r] - (mNextRecvEventSeq[r] % EventSpace)
      seq == block + (e.mSeqCount % EventSpace)
  IN  IF seq < mNextRecvEventSeq[r] THEN seq + EventSpace ELSE seq

\* The EventNotes that the receiver makes of the events in a packet.
Numbered(r, events) ==
  [i \in DOMAIN events |->
     IF IsOrdered(events[i]) THEN [events[i] EXCEPT !.mSeqCount = RebuiltSeq(r, events[i])]
                             ELSE events[i]]

\* A packet has the unordered events first (unguaranteedPhase).
UnguaranteedPhase(events) ==
  CHOOSE j \in 0 .. Len(events) : \A i \in DOMAIN events : IsOrdered(events[i]) <=> i > j

\* The unordered events are processed as they are read, the ordered ones
\* join mWaitSeqEvents, and those that are next are processed.
ReadEvents(r, events) ==
  LET list == WithOrdered(mWaitSeqEvents[r], Numbered(r, events))
      k == RunLength(list, mNextRecvEventSeq[r])
  IN
  [processed |-> Take(events, UnguaranteedPhase(events)) \o Take(list, k),
   waiting   |-> Rest(list, k),
   next      |-> mNextRecvEventSeq[r] + k]

\* Packet n of the peer is the one that readPacket() is called for.
Arrives(r, n) ==
  LET s == Peer(r) IN
  /\ open[r]
  /\ Readable(r, n)
  /\ arrived' = [arrived EXCEPT ![s] = @ \union {n}]
  /\ FewLost(s, notified[s], arrived[s] \union {n})

ReadPacket(r) ==
  LET s == Peer(r) IN
  \E n \in Unnotified(s) :
    LET read == ReadEvents(r, eventLists[s][n - notified[s]]) IN
    /\ Arrives(r, n)
    /\ processed' = [processed EXCEPT ![s] = @ \o read.processed]
    /\ mWaitSeqEvents' = [mWaitSeqEvents EXCEPT ![r] = read.waiting]
    /\ mNextRecvEventSeq' = [mNextRecvEventSeq EXCEPT ![r] = read.next]
    /\ UNCHANGED <<open, sent, notified, confirmed, sendVars, toldVars, posted>>

-----------------------------------------------------------------------------
(* The connection of s is destroyed.  A subclass with a destructor that    *)
(* calls clearAllPacketNotifies() has the events in flight dropped first;  *)
(* then ~EventConnection calls notifyDelivered(true) for all in its lists. *)
InFlight(s, types) == UNION {IdsOf(eventLists[s][p], types) : p \in DOMAIN eventLists[s]}

\* (eventLists stays: the packets are still on their way.)
Destroy(s) ==
  LET queued == mNotifyEventList[s] \o mUnorderedSendEventQueue[s] \o mSendEventQueue[s]
      dropped(types) == IF ClearsNotifies THEN InFlight(s, types) ELSE {}
  IN
  /\ delivered' = [delivered EXCEPT ![s] =
       @ \union Ids(queued) \union dropped({"GuaranteedOrdered", "Guaranteed"})]
  /\ undelivered' = [undelivered EXCEPT ![s] = @ \union dropped({"Unguaranteed"})]
  /\ mNotifyEventList' = [mNotifyEventList EXCEPT ![s] = << >>]
  /\ mUnorderedSendEventQueue' = [mUnorderedSendEventQueue EXCEPT ![s] = << >>]
  /\ mSendEventQueue' = [mSendEventQueue EXCEPT ![s] = << >>]
  /\ UNCHANGED <<eventLists, mNextSendEventSeq, mLastAckedEventSeq, posted>>

\* disconnect(), a timeout, or a disconnect packet.
Disconnect(s) ==
  /\ MayClose
  /\ Close(s)
  /\ Destroy(s)
  /\ UNCHANGED recvVars

\* setLastError() while a packet is read or an event processed: what is left
\* of the packet is given up, and handleConnectionError() disconnects.
ReadPacketFails(r) ==
  LET s == Peer(r) IN
  /\ MayClose
  /\ \E n \in Unnotified(s) :
       LET read == ReadEvents(r, eventLists[s][n - notified[s]]) IN
       /\ Arrives(r, n)
       /\ \E k \in 0 .. Len(read.processed) :
            processed' = [processed EXCEPT ![s] = @ \o Take(read.processed, k)]
  /\ open' = [open EXCEPT ![r] = FALSE]
  /\ Destroy(r)
  /\ UNCHANGED <<sent, notified, confirmed, mWaitSeqEvents, mNextRecvEventSeq>>

Next ==
  \E s \in Side :
    \/ PostNetEvent(s)
    \/ WritePacket(s)
    \/ PacketReceived(s)
    \/ PacketDropped(s)
    \/ ReadPacket(s)
    \/ ReadPacketFails(s)
    \/ Disconnect(s)

Spec == Init /\ [][Next]_vars

-----------------------------------------------------------------------------
TypeOK ==
  /\ ChanTypeOK
  /\ mNextSendEventSeq \in [Side -> Nat]
  /\ mLastAckedEventSeq \in [Side -> Nat \union {-1}]
  /\ mNextRecvEventSeq \in [Side -> Nat]
  /\ mSendEventQueue \in [Side -> Seq(OrderedEvent)]
  /\ mNotifyEventList \in [Side -> Seq(OrderedEvent)]
  /\ mWaitSeqEvents \in [Side -> Seq(OrderedEvent)]
  /\ mUnorderedSendEventQueue \in [Side -> Seq(UnorderedEvent)]
  /\ eventLists \in [Side -> Seq(Seq(Event))]
  /\ posted \in [Side -> Seq(Event)]
  /\ processed \in [Side -> Seq(Event)]
  /\ delivered \in [Side -> SUBSET Nat]
  /\ undelivered \in [Side -> SUBSET Nat]

-----------------------------------------------------------------------------
Lists(s) == <<mSendEventQueue[s], mUnorderedSendEventQueue[s], mNotifyEventList[s]>>
              \o eventLists[s]
IdsIn(lists) == UNION {Ids(lists[a]) : a \in DOMAIN lists}

NoneTwice(lists) ==
  \A a, b \in DOMAIN lists : \A i \in DOMAIN lists[a], j \in DOMAIN lists[b] :
    lists[a][i].id = lists[b][j].id => a = b /\ i = j

(* Every event that was posted to a live connection is in one list of its  *)
(* sender, once, or its sender has been told of it: the moves of EventNotes*)
(* between the five lists lose none and copy none.                         *)
EventInOnePlace ==
  \A s \in Side : open[s] =>
    LET held == IdsIn(Lists(s)) IN
    /\ NoneTwice(Lists(s))
    /\ held \intersect (delivered[s] \union undelivered[s]) = {}
    /\ delivered[s] \intersect undelivered[s] = {}
    /\ held \union delivered[s] \union undelivered[s] = DOMAIN posted[s]

\* The number with which the ith event that was processed had been posted.
PostedSeq(s, i) == posted[s][processed[s][i].id].mSeqCount
OrderedBefore(s, i) == {j \in DOMAIN processed[s] : j < i /\ IsOrdered(processed[s][j])}

\* In the order in which they were posted, none left out.
OrderedInOrder ==
  \A s \in Side : \A i \in DOMAIN processed[s] :
    IsOrdered(processed[s][i]) =>
      {PostedSeq(s, j) : j \in OrderedBefore(s, i)} = 0 .. PostedSeq(s, i) - 1

(* No event is processed twice, however often its packet is dropped.       *)
ProcessedOnce ==
  \A s \in Side : \A i, j \in DOMAIN processed[s] :
    processed[s][i].id = processed[s][j].id => i = j

\* In the order in which they were posted, some perhaps left out.
UnguaranteedInOrder ==
  \A s \in Side : \A i, j \in DOMAIN processed[s] :
    processed[s][i].type = "Unguaranteed" /\ processed[s][j].type = "Unguaranteed" /\ i < j
      => processed[s][i].id < processed[s][j].id

(* Ordered events are processed in the order of posting, without a gap     *)
(* (NetEvent::GuaranteedOrdered), and unguaranteed events remain in order  *)
(* relative to each other (NetEvent::Unguaranteed), although they share a  *)
(* queue with guaranteed events that go back to its head.                  *)
EventsInOrder == OrderedInOrder /\ UnguaranteedInOrder

(* An event that waits in mWaitSeqEvents has the number it was posted with *)
(* and is ahead of the next one to be processed: the 7 bits and the event  *)
(* window never leave a doubt.                                             *)
WaitListRight ==
  \A r \in Side :
    LET list == mWaitSeqEvents[r] IN
    \A i \in DOMAIN list :
      /\ list[i].id \in DOMAIN posted[Peer(r)]
      /\ list[i] = posted[Peer(r)][list[i].id]
      /\ list[i].mSeqCount > mNextRecvEventSeq[r]
      /\ i > 1 => list[i - 1].mSeqCount < list[i].mSeqCount

\* What notifyDelivered(true) was called for has been processed ...
DeliveredMeansProcessed ==
  \A s \in Side : open[s] /\ open[Peer(s)] => delivered[s] \subseteq Ids(processed[s])

\* ... and what notifyDelivered(false) was called for is not, nor ever will be.
UndeliveredNeverProcessed ==
  \A s \in Side : open[s] => undelivered[s] \intersect Ids(processed[s]) = {}

(* notifyDelivered tells the truth: while both ends are up it is only      *)
(* called with true for an event that the other side has received and      *)
(* processed, and, while the sender is up, only with false for one that    *)
(* never is processed.                                                     *)
NoticesAreTrue == DeliveredMeansProcessed /\ UndeliveredNeverProcessed

-----------------------------------------------------------------------------
(* Liveness.  process() calls checkPacketSend on every connection, every   *)
(* packet is answered (NotifyProtocol), and of the packets that are sent   *)
(* over and over the network delivers some.  The head of a queue fits in a *)
(* packet.                                                                 *)
WriteEvents(s) == WritePacket(s) /\ eventLists'[s] # Append(eventLists[s], << >>)

Fairness ==
  \A s \in Side : /\ WF_vars(WriteEvents(s))
                  /\ WF_vars(ReadPacket(s))
                  /\ WF_vars(PacketReceived(s) \/ PacketDropped(s))

FairSpec == Spec /\ Fairness

(* While both ends are up, the fate of every event that is posted is told   *)
(* in the end: as events are only posted a bounded number of times, all    *)
(* have been told for ever after, or this would not come true again and    *)
(* again.                                                                  *)
FateIsTold ==
  \A s \in Side :
    []<>(open[s] /\ open[Peer(s)] => delivered[s] \union undelivered[s] = DOMAIN posted[s])
=============================================================================
