# TNL, the Torque Network Library: a verification project

The library (`src/tnl/*.cpp`, `src/tnl/*.h`) sends three kinds of data between
two programs over UDP: *events* with a chosen guarantee, the *most recent state*
of objects (ghosts), and strings by number.  All of them are built on one idea:
a connection never resends a packet, but it tells the sender of every packet,
once and in order, whether the packet was received or lost.  Each layer then
decides what to send again.  The project models that idea, shows that the code
implements it, and models the layers over it.

## 1. Inventory

| component | state | operations | what makes it correct |
|---|---|---|---|
| notify protocol, `netConnection.cpp` | send, receive and acknowledgement counters, a 32 bit ack mask, a ring of what was received at each send, a queue of packet notes, ping counters | `checkPacketSend`, `writeRawPacket`, `readRawPacket`, `readPacketHeader`, `handleNotify`, `checkTimeout` | every packet's fate is told once, in order, and truly; truncated numbers are never mistaken; the window never deadlocks |
| events, `eventConnection.cpp` | two send queues, a list of events per packet, a list of acknowledged events, a list of received events that wait | `postNetEvent`, `writePacket`, `readPacket`, `packetReceived`, `packetDropped`, destructor | no event is lost, copied or processed twice; ordered events keep their order; `notifyDelivered` tells the truth |
| ghosts, `ghostConnection.cpp`, `netObject.cpp` | an array of `GhostInfo` in three segments, flags and update masks, a chain of updates in flight per ghost, the client's ghost table, the ghosting session | `objectInScope`, `detachObject`, `setMaskBits`, `collapseDirtyList`, `writePacket`, `readPacket`, `packetReceived`, `packetDropped`, `activateGhosting`, `resetGhosting` and three RPCs | the client ends with the latest state; server and client never disagree on which ghost an update is for; the segments agree with the masks |
| strings, `connectionStringTable.cpp` | entries in LRU order with a `receiveConfirmed` flag, the remote table | `writeStringTableEntry`, `readStringTableEntry`, `packetReceived`, `packetDropped` | a number is read as the string it was written for |
| handshake, `netInterface.cpp` | lists of pending and established connections, parameters of each, retry counters | challenge, connect, accept, reject, punch, arranged requests, disconnect, timeouts | both ends agree on a connection; retries and late answers do no harm |
| client puzzles, `clientPuzzle.cpp` | two server nonces with a table of client nonces each | `tick`, `checkSolution` | no solution is used twice |
| connection table, `netInterface.cpp` | open hash table | `addConnection`, `removeConnection`, `findConnection` | every connection is found, and only those |
| string table, `netStringTable.cpp` | reference counts, hash chains, a compacted memory block | `insert`, `lookup`, `incRef`, `decRef`, `compact` | no live string is freed |
| threads, `thread.cpp` | two queues of calls, a semaphore, a mutex | `postCall`, `dispatchNextCall`, `dispatchResponseCalls` | every call is dispatched once, in order |
| `Object`, `RefPtr`, `SafePtr`, `netBase.cpp` | reference count, list of weak references | `incRef`, `decRef`, `destroySelf` | no object is used after it is deleted |
| rate control, `netConnection.cpp` | negotiated rate, congestion window | `computeNegotiatedRate`, `writePacketRateInfo`, `readPacketRateInfo` | the two ends agree on a rate in the end |

Left out: bit streams and Huffman coding, containers, cryptography, the journal,
system calls, the master server, the games, the ports to Go and Rust, the
amalgamated source file and the vendored libraries.  `PROJECT.json` gives the
reason for each.

How the parts interact.  `NetInterface::processConnections` collapses the dirty
list of all objects and calls `checkPacketSend` and `checkTimeout` on every
connection; datagrams come in through `processPacket`, which calls the handshake
handlers or `readRawPacket`.  A `NetConnection` calls the virtual methods
`prepareWritePacket`, `isDataToTransmit`, `writePacket`, `readPacket`,
`packetReceived` and `packetDropped`; `GhostConnection` derives from
`EventConnection`, which derives from `NetConnection`, and each calls its parent
first.  The string table is called while an event or an update is packed.
All of this runs in one thread: what is concurrent is the other host, and the
network between.  The one exception is `ThreadQueue`, which a program may use for work
of its own beside the network.

What is hard: datagrams that are lost, late, repeated or out of order; counters
that travel truncated; acknowledgements that are themselves acknowledged; a
packet whose fate is told long after its contents have changed; data that is put
back in a queue where later data already is; answers to attempts that have been given up;
callbacks in the middle of loops.  `PROJECT.json` lists these hazards
line by line.

## 2. The plan

1. `NotifyChannel`, `NotifyProtocol`: done, with all its safety proved.
2. `EventConnection` over `NotifyChannel`: done, with all its safety proved.
3. `GhostConnection` with `NetObject` over `NotifyChannel`: done, with all its safety proved;
   `GhostArray`, the segmented array by itself, implementing `GhostSegments`: done, with
   all its safety proved.
4. `ConnectionStringTable` over `NotifyChannel`: done, with its safety proved for tables that are
   large enough for the window.
5. `NetInterface`: the handshake with its retries, refusals, disconnect and timeouts, the
   client puzzles, arranged connections: done, with all its safety proved.
6. `ConnectionTable`, the table of connections: done, with all its safety proved.
7. `ThreadQueue`, implementing `CallQueues`: done, with its safety proved.

What could follow: the exchange of rates, `NetStringTable`, reference counting.

## 3. The modules

`NotifyChannel` is what a connection promises to the classes derived from it: two
sides send numbered packets, a packet is read at most once and in order, and the
sender is told of the fate of each in order, truly.  The three layers extend it: their
actions are the channel's, with the handlers of the layer.

`NotifyProtocol` is `netConnection.cpp`: the two ends of a connection and the
datagrams between them.  Its variables have the names of the members; `net` is the
set of datagrams, which are lost, repeated and reordered; those of them that may still arrive
are `Arriving`, which bounds how late a datagram can be.  Actions: `SendData`,
`SendAck` (`checkPacketSend`), `SendPing` and `TimeOut` (`checkTimeout`,
`processConnections`), `ReceivePacket` (`readRawPacket` with the whole of
`readPacketHeader`, `handleNotify` and the ack that is sent at once).
`ImplementsChannel` is the refinement: `open` is `connected`, `sent` is
`mLastSendSeq`, `notified` is `mHighestAckedSeq`, `confirmed` and `arrived` are the
histories `received` and `processed`.

`NotifyInvariant` is the inductive invariant, `NotifyProtocol_proofs` the proofs.

`EventConnection`: lists of `EventNote` are sequences.  A datagram that answers several
packets is several steps, one for each `packetReceived` or `packetDropped`, which
separate datagrams could do as well.  The three places where the code walks along an ordered
list and puts the events of a packet in, going on from where it put the last one, are
`Inserting` (`Insert` is one turn of the loop).  `posted` is the history of what
`postNetEvent` was given, `processed` that of what the peer has done with it.
`EventConnection_proofs` has the proofs.

`GhostConnection`: `mGhostArray` holds the `GhostInfo`s and two of the three
segments, `notes` what each packet with a queued notify carried (updates and RPCs; `listed`
says whether its update chain still refers to the `GhostInfo`s).  `processConnections` is
`collapseDirtyList` and then, perhaps, `checkPacketSend` with `prepareWritePacket` and
`writePacket`; `setMaskBits`, `clearMaskBits`, `DestroyObject`, the scope calls,
`activateGhosting` and `resetGhosting` are the application's; `PacketReceived`,
`PacketDropped`, `ReadPacket` and `rpcReadyForNormalGhosts` answer.  The RPCs are handled as
ordered events.  Which updates are written, and how many, is a choice: priorities are the
application's.  `cleared` remembers the states the application has taken back.
`GhostConnection_proofs` has the proofs.

`GhostSegments` is what the array promises (a `GhostInfo` is free, idle or updating, and
moves one step at a time), `GhostArray` the array of pointers with its two borders and the
loops that move elements while they run, `GhostArray_proofs` the proofs.  The map:
`updating` and `inUse` are the `GhostInfo`s below the borders.

`ConnectionStringTable` has the table and LRU list of the sender, the table of the
receiver, and in `notes` both what a packet carries and the list that `packetReceived` goes
through.  The prefix compression of `BitStream` is there as a relation: strings with the same
`Prefix` may be written without it.  `Writing` and `Reading` are the loops over the units of a
packet; any unit may turn out not to fit and be taken back (`sent` is `FALSE`), after which its
text is still in the sender's string buffer and on the packet's list, as in the code.
`doubtful` is a history of where this does damage: the entries, each with its string, whose text
was taken back, or was written after such a text in the same packet.  A pair once in it stays.
`ConnectionStringTable_proofs` has the proofs.

`NetInterface` is the two hosts' interfaces before and after the notify protocol: `conns`
are the `NetConnection`s with their `ConnectionParameters`, in the order they were created,
`mPendingConnections` the set of pending ones (the vector's order matters, because lookups
take the first; it is the order of creation, which `Vector::erase` keeps, so `FirstOf` is the
least), and `mConnectionList` the set of established ones.  `puzzles` is each host's
`ClientPuzzleManager`.  `net` is every datagram ever sent: each may be received whenever and
as often as one likes.  One action per handler of `processPacket`, two or three where a
handler has an early answer (`ConnectRequestAgain`, `ConnectRequestUnsolved`,
`handleConnectRequest`); `TimerExpires` is the loop over pending connections for one of
them, `ConnectionTimesOut` that over established ones.  `told` holds the callbacks the
application has had for each connection, `rejected` the requests that were refused.
`NetInterface_proofs` has the inductive invariant and the proofs.

`ConnectionTable` is how `findConnection` works inside: the vector and the open hash table
with their sizes and slots, `addConnection`, `removeConnection`, and the loop over timeouts in
three steps, between which the callback may disconnect others and connect new ones.  `memory` is what lies behind
the end of the vector, which the loop may read (`Again`).  The loops over the table are
functions by recursion: `Filled` when it grows, `AfterSlots` when what follows a removed
connection is put in again.  `ConnectionTable_proofs` has the proofs.

`ThreadQueue` has a step for every part of `thread.cpp` that runs under the lock, and one for
what runs without: `Wait`, and the `Increment` that `postCall` makes after it unlocks.
`CallQueues` is what it promises, in the words of `tnlThread.h`: calls go to the workers and
responses come back, in order, each once.  The map: `running` is the calls of the workers,
`responses` those the running `dispatchResponseCalls` has not come to yet.
`ThreadQueue_proofs` has the proofs.

An operator called `Operator_Fault` stands before `Operator`: a plausible mistake in
that code, which the property named in `PROJECT.json` must detect.

## 4. The runs

The widths of the code are scaled down so that the numbers wrap inside a run:
a window of 4 for 32, acknowledgement bits in units of 2 for 8, `SeqSpace` 7 for 2048,
`AckSpace` 4 for 1024, `WordSpace` 64 for 2^32, and for events `EventSpace` 4 for 128 and
`EventWindow` 2 for 126.  The relations that the code relies on are kept (the window is
not above `AckSpace`, and so on); the theorems show which are needed.

| run | what it shows |
|---|---|
| `notify_core` | three data packets one way and one the other, with everything the network can do, datagrams late by almost a lap of the numbers included: truncated numbers are rebuilt right, every acknowledgement bit that is read was written, and the protocol implements `NotifyChannel` |
| `notify_liveness` | every packet is answered in the end, or the connection times out; also the inductive invariant of the proofs |
| `notify_overtaking` | *violation*: a ping or ack that overtakes the data packet before it makes the receiver acknowledge that packet and never read it |
| `events` | three events of any type, or seven ordered ones with four numbers, two lost packets, and a connection that closes or fails to read: none is lost, copied, processed twice or taken for another; each kind keeps its order; the poster of every event is told its fate, truly while both sides are up |
| `ghost_core` | two objects that change, move in and out of scope and are deleted: an index means the same ghost to both ends, the segments agree with the masks, and no state is forgotten |
| `ghost_sessions` | ghosting is ended and begun again while packets and replies are under way: nothing of the old session is mistaken, and in the end the initiator has the world as it is |
| `ghost_array` | four `GhostInfo`s: the array is valid after every call, no loop misses one, and it implements `GhostSegments` |
| `strings_core` | three strings, two entries, lost packets, units taken back: what is read is what was written, and what is confirmed is there, but for entries whose text was taken back or came after one in its packet |
| `handshake` | one connection while the puzzle is renewed twice, two connections in turn, or two arranged ones: the ends agree on whose sequence numbers they use, a solution makes one connection, a refusal is final, one connection per address, the callbacks come in order, and nothing stays pending |
| `disconnect_ignored` | *violation*: `disconnect` of a connection that solves its puzzle or sends punch packets does nothing, and it is established later |
| `connection_table` | five connections in a table that grows from 5 to 11 slots: each is found by its address, and the loop over timeouts removes the connection whose application was told |
| `thread_queue` | two workers, three calls and three responses: no call is left with nobody to come for it, and the queue implements `CallQueues`, liveness included |

Deadlock is checked in `ghost_array`, `connection_table` and `thread_queue`, where some step
can always be made.  In the others a connection that has nothing to send, or that the bounds
of the model have stopped, rests.

Bounds.  `MaxSeq` (data packets) and `NetCapacity` (datagrams on their way to one side)
bound `NotifyProtocol`; when there are more datagrams than `NetCapacity`, one of them is lost.
`SeqLife` and `AckLife` are how long a datagram lives, in data packets of its sender since
the one it numbers and of its receiver since the one it answers.  They are the longest that the
truncation allows: `SeqLife + W = SeqSpace` and `AckLife = AckSpace - 1` (in the code 2016
and 1023 packets).  In the run, datagrams that old do arrive, and the receiver must refuse them; it
could not tell older ones from new ones (section 6).  The three packets of the initiator reach
that age, and its numbers wrap on the way; the one of the host is enough for the host to be told
of its fate and raise `mLastRecvAckAck` from the ring.  `MaxEvents` bounds ordered events, `MaxMixed` all
events as soon as one of them is not ordered: ordered ones need to be more than
`EventSpace`, while three of mixed types meet in every way in two queues and two lost
packets.  `MaxLost` bounds losses, `MaxEmpty` packets with nothing in them.  The runs start
just below a multiple of the truncation, so that wrapping happens inside them.
In the ghost runs `MaxCalls` bounds what the application does (`Calls` says what it may do);
two calls on two objects with three packets in flight have an index change its object,
be removed and be created again while an older packet is lost.  In the string runs
`EntryCount`, `MaxUnits` and the window are such that packets in flight carry twice as many
strings as the table has entries and not more; sections 5 and 6 say what happens beyond.

`Scenarios` bounds `NetInterface`: connections begun, connections arranged, renewals of the
puzzle.  Two renewals take a server nonce through both its places and out; two connections
in turn have every packet of the first come during the second; two arranged ones compete for
the pending list.  Each retry count is 1 (a packet is sent twice, then given up).  `Starters`
is one host: what two hosts that call each other at once do is in section 6.  In
`connection_table` the first size of the table is 5 for 129, so that it grows with the third
connection; hashes 9, 10, 20, 21 and 24 collide at its end in both sizes.  `thread_queue` has
`MaximumCount` 3 for 1024: no more calls than that are posted.

Symmetry.  `ghost_core` takes objects, bits and indices as symmetric: no action chooses
between them in a fixed way, and the run has no temporal property.  `strings_core` takes the
two strings that begin alike as symmetric: the model only compares strings and their prefixes.

Fairness.  `notify_liveness`: `checkTimeout` and `checkPacketSend` are called for ever by
`processConnections` (weak fairness of pings and sends), and of the datagrams that are sent
again and again the network delivers one (strong fairness of receiving the latest one).
`events`: packets are written while there is data, are answered (this is what
`notify_liveness` shows), and not all are lost.  It also assumes that the event at the head
of a queue fits in an empty packet; the code would try it for ever if not.
`ghost_sessions`: `processConnections` is called again and again and sends when something is
due, packets and the replies of RPCs come in, the fate of packets is told.  The calls are
bounded, so that the world comes to rest; there are as many indices as objects, because a
ghost whose object left the scope keeps its index until the object changes.  Clearing of mask
bits is not among the calls: who clears the whole mask of an object that has not
been ghosted yet has it ghosted only when it changes again.
`handshake`: `processConnections` is called for ever, so that on each host the timer of some
pending connection expires again and again while there is one; the network owes nothing.
`thread_queue`: an increment that is due is made, of the workers that wait some worker wakes
up (weak fairness of all of them together), a mutex does not pass over a thread for ever
(strong fairness of `TakeCall`), calls return, and the main loop comes back to
`dispatchResponseCalls`, as `tnlThread.h:193` asks.

## 5. What is proved

`NotifyProtocol_proofs` proves for every window, every width and every bound the
theorems that `PROJECT.json` lists.  All assume `ConstantsAssumption`, the relations
between the widths, and two hypotheses about the environment, of which section 6 shows the need.
`NoWordWrap`: the connection ends before its numbers reach the last `AckSpace` values of the
word.  `ShortLived`: no datagram arrives a lap of its numbers late (`SeqLife + W <= SeqSpace`,
`AckLife < AckSpace`).  The code does nothing to make sure of either: `NumbersRebuiltRight` says
that a late datagram is refused or read right up to that age, not beyond.
`NotificationsAreTrue`, `DropsAreTrue`, `Inductive` and
`ProtocolImplementsChannel` also assume `~Overtaking` (`notify_overtaking` shows the need).

The argument.  `WindowInv` says how the counters of the two ends are ordered
(`CountersInv`), what a datagram on its way may carry (`PacketsInv`), that the ring still
holds what each unanswered packet carried (`RingInv`), and that a bit which answers a packet
is evidence that the acknowledgements in that packet got through (`AckAckInv`).  The last is
what bounds `mLastSeqRecvd - mLastRecvAckAck` by the window, so that the bits written in a
packet reach back to what its receiver has been told.  It does not need the bits to be
true, so the window, the truncated numbers and the queue are safe even with overtaking.
`TruthInv` adds that bits are true; its key part is that the packet at which the receiver's
counter stands is never still to come, which overtaking breaks.

`GhostArray_proofs` proves, for every `MaxGhostCount`, what `validateGhostArray` asserts (a
check that the code has switched off), that the loops meet every `GhostInfo` once, that
`clearGhostInfo` clears, and that the array implements `GhostSegments`.  `Consistent` says
that `mGhostArray` and the `arrayIndex` of its elements are inverse both ways: the assertion
has one way only, from which the other follows by counting, and the moves start from either.
From the lemma on one exchange (`PutAtFacts`) follow the four moves, from these every call
(`TableStep`); `LoopInv` says where the elements still to be visited are while the borders
move (`LoopStep`): the first loop of `writePacket` runs downwards, so that an element
brought in by an exchange has been visited, and the second one likewise.

`ThreadQueue_proofs` proves, for every finite set of workers and every number of calls up to
the maximum of the semaphore, that no wakeup is lost and that every step is one of
`CallQueues`.  `NoLostWakeup` alone is not inductive: `CountsArePosts` says that the count stays
below the maximum, so that every increment counts.  `CallsInOrder` (the list holds the last
numbers posted, in order) makes the set of running calls a faithful image of the workers,
and `ClearedAreDispatched` makes the `clear()` a stutter.  The sums over workers are
cardinalities, which the proofs move one worker at a time.

`NetInterface_proofs` proves every safety invariant that `handshake` checks, for
any number of connections, retries and renewals of the puzzles (and two hosts, of which one
starts).  None of them is inductive, because what they forbid could still be on the network:
`IInv` therefore says where nonces come from (`NoncesRight`: a direct connection's are its
own, an accepted one's those of the connection it answers and used up, an arranged one's
those of the pair), that what a packet says is true of the connection that sent it
(`PacketRight`), with whom an end agrees (`EndRight`), that no two requests are the same
(`RequestsDiffer`), and that what was refused is either used up or an arranged connection that
is gone (`RefusalRight`).  That a used nonce stays used when the tables are renewed
(`IsUsed`: the server nonce is past, or the client nonce is in the table that is still kept)
carries `SolutionUsedOnce`.  The lemma `StepKeeps` says once what a step may do to the
connections; each handler has a lemma that shows it does no more.

`EventConnection_proofs` proves all the safety that `events` checks, for any number of events
and losses, every number space and every event window that is not larger, on a true channel.
`IInv` has for each sender: that every list is a list of posted events, in the order its loops
rely on (`ListsInv`: numbers go up in the three ordered lists and in each packet, unguaranteed
events have gone out in the order of posting); that no event is in two packets, or at once in
a packet and one of the queues, nor in any of them when its poster has been told
(`PacketsApart`, `SenderInv`); that the events of a packet that was not read are new to the
other side and no further than the window from the last one acknowledged (`UnreadInv`); and
that what was processed, with what waits, is what the packets that arrived had (`ReadInv`).
The last two make the 7 bits enough: an ordered event in a packet that is read is not
processed yet, so its number is not below `mNextRecvEventSeq`, and its distance to
`mLastAckedEventSeq`, which is smaller still, is at most the window (`EventsRead`,
`SeqRebuilt`).  `LooseInv` is why a guaranteed event that goes back to the head of the queue
disturbs no order.  The walk along the lists is a function defined by recursion;
`RecursionExists` shows that there is one (it is stated in each module that needs it), and
`WithOrderedRight` what it leaves behind.

`GhostConnection_proofs` proves all the safety that `ghost_core` and `ghost_sessions` check,
for any objects, mask bits, indices, calls, sessions and losses, on a true channel.  Only
`SegmentsMatchMasks` has a hypothesis, that no call of `clearMaskBits` clears several bits at
once: with such calls the code breaks it (section 6), and the theorem is stated for the rest.
None of the other theorems needs it, nor does the invariant: `InSegment` says that a
`GhostInfo` with a mask is in the first segment, and the converse only without those calls.
The rest of `IInv` relates three pieces of state that no property alone does: the flags of a
`GhostInfo`, the updates on the lists of the notes, and the ghosts of the initiator
(`GhostsInv`: nothing is said of a ghost that is `Absent`; one that is being created has one
update on its way, one that is being removed has its removal as the last; of one that is
`Present` there are only updates, for its object).  `ReadableInv` says the same of what is
still to be read, with or without a list, `EndsInv` that no update overtakes the end of a
session, and `CurrentInv` that a state which is current in one packet is so in every later
one that has it: that is why `packetDropped` may leave it out, and `StatesInv`
(`NoStateForgotten`) lasts.  The lemmas are about a table `t` and a link `w` (`Link`) and not
about the variables, so that each of the four ways to change the table (a `TableStep`, a
packet written, a note that goes, a packet read) is treated once.

`ConnectionTable_proofs` proves its three properties for any connections, addresses, hashes
and first size above 2 (the code has 129).  `TableInv` is that the table is at most half full
and that no slot on the way from its home to the slot of a connection is free (`Chained`),
where the way goes up and round the end.  `removeConnection` breaks that and mends it slot by
slot: `Between` says how far it has come.  A free slot on the way to a connection is among the
slots done, and the connection behind them; slots still to come are as they were, since a
connection that is put in again stays on the way to where it was (`BetweenStep`); and at the
free slot where the loop ends no way can go on, so none is left broken (`RemovedOK`).  That the
loops meet a free slot at all follows by counting (`HasFree`).  `LoopInv` is what the loop over
timeouts relies on: erasing changes no element but the erased one, not even behind the end.

`ConnectionStringTable_proofs` proves both properties of `strings_core`, for any strings,
prefixes, entries, packets, losses and units taken back, on a true channel, under one
hypothesis: few strings are in flight.  The packets without an answer carry at most twice as many
as the table has entries (`FewInFlight`; `EntryCount` is 1024 in the code,
`tnlConnectionStringTable.h:44`, which makes 2048 strings in at most 30 packets).
`StringsAreThere` asks this of the behavior; `StringsAreRead` and `ConfirmedStringsAreThere` ask it
of the constants (`FewStrings`), so that every behavior of a small enough window is covered.  The
bound is exact for a table of two entries with one string in a packet: TLC finds both properties
true for `Window` 4 and `ConfirmedIsThere` violated for `Window` 5.  Both properties speak of
the entries and strings that are not `doubtful`, because of the others they are false (section
6): a unit taken back does damage, and what is proved is that it does no more than that.

The argument is about the uses of entries in flight, in the order of writing (`Uses`).  An entry
is taken over only from the head of the LRU list, when every other entry was used after it
(`InOrder`: the order of the list is that of the last uses).  So between two texts of an entry
every other entry is used (`Apart`), and a text, another one and the first again are the ends
and the middle of two whole rounds, `2 * EntryCount + 1` uses (`NoTextComesBack`).  That is why the
comparison with which `packetReceived` confirms an entry is right although it does not know
which use the text was for: in flight a text that was replaced (`Replaced`) has not come back.
`AllSent` says of a packet that no text was taken back up to some unit of it, and `DoubtOK` that
`doubtful` has every text of the packets in flight for which this fails.
`Remembered` says what the receiver keeps of what it has read, `Confirmed` that nothing it may
still read changes the string of a confirmed entry, `Resolved` the same of a unit that travels
without its text.  `RelativeOK` is the prefix compression: whatever text comes before in its packet,
one that is written without its beginning shares it.

So every invariant of every passing run is stated by a theorem, and the refinements are proved
for their safety.  Out of the prover's reach, and left to TLC, is liveness: `EveryPacketAnswered`
of `NotifyProtocol`, `FateIsTold` of `EventConnection`, `WorldIsMirrored` of `GhostConnection`,
`PendingIsResolved` of `NetInterface`, and the fairness of `CallQueues` in `ImplementsQueues`.
That the loops of `Writing` and `Reading` keep `HistoryOK` is proved by induction over sets of
numbers (`NatSetInduction`), since the theorems of the library that take an operator cannot be
used.

## 6. Other disagreements seen

Besides the two that the violation runs show, the models have these; each can be seen
by changing the run that is named.

* *Clearing more than the mask.*  `clearMaskBits` moves a `GhostInfo` out of the first segment
  only when the bits are exactly its mask (`netObject.cpp:103`); with more bits line 109 makes the
  mask zero and leaves it there, which `ghostConnection.cpp:610` asserts cannot be.
  `ghost_core` with `"clearMany"` among `Calls`: `SegmentsMatchMasks` is violated.
* *A string taken back.*  `writeStringTableEntry` puts the string on the packet's list
  (`connectionStringTable.cpp:105`).  When its event or update does not fit and the stream is set
  back (`eventConnection.cpp:320`), the entry stays, and is confirmed with the packet.
  `strings_core` with `ConfirmedIsThere` asked of all entries, without `Sure`, is violated: an index
  is sent for a string that the other side does not have.
* *A datagram a lap late.*  `readPacketHeader` has no other sign of age than the truncated numbers
  (`netConnection.cpp:349-370`): a datagram that arrives when its sender is `SeqSpace - W + 1` packets
  further, or its receiver `AckSpace`, may be read with wrong numbers.  `notify_core` with the
  last numbers 17 and 4: `RebuiltRight` is violated with `SeqLife` 4 and with `AckLife` 4, and with
  both `NotifiedOnlyIfRead` too, a notification for a packet that was not read.  On an encrypted
  connection the counter of the cipher is set up with the rebuilt numbers (line 374), so that a
  datagram with wrong ones fails its signature; encryption is not modelled.
* *Word wrap.*  `netConnection.cpp:372` compares 32 bit words.  Near the end of the word a
  rebuilt acknowledgement wraps to a small number and passes, and `handleNotify` runs past
  the end of its queue, which line 582 asserts cannot be.  `notify_core` with `WordSpace`
  32, first numbers 29 and 30 and last ones 35 and 32: `NotifyHasNote` is violated.
* *Destructor.*  `~EventConnection` (`eventConnection.cpp:71`) calls `notifyDelivered(true)` for
  events that were never sent; `tnlNetEvent.h:251` says that it is called when the event has
  been processed.  `events`, with `DeliveredMeansProcessed` asked of closed connections too.
* *An entry used again.*  When the packets of one window carry more than twice as many strings as
  the table has entries, an entry may go from a string to another and back, and be confirmed by the packet of
  the first use (`connectionStringTable.cpp:134`).  `strings_core` with `Window` 3:
  `ConfirmedIsThere` is violated.
* *The prefix of a unit taken back.*  `setBitPosition` does not take back the string buffer
  (`bitStream.cpp:487`), and the next text of the packet may leave out a prefix that its reader
  never sees.  `strings_core` with `ReadAsWritten` asked of all strings, or `doubtful` without the
  texts that follow one taken back: violated.
* *Dropped without a word.*  `tnlNetConnection.h:230` says of `onConnectTerminated` "Called when a
  pending connection is terminated".  It is not called when `readConnectAccept` refuses
  (`netInterface.cpp:850`), nor for the pending connection that a new one to the same address
  replaces (`findAndRemovePendingConnection`): `told` stays empty.
* *Two connections at one address.*  `addPendingConnection` makes sure that "we're not already
  connected" (`netInterface.cpp:146`), but an arranged connection has no address yet when it is
  added: it replaces another arranged one that is pending, and closes nothing.
  `handshake` without the condition of `OneConnectionPerAddress` has two.
* *Two hosts that call each other.*  Each has a pending connection to the other and accepts
  the other's request: two connections at one address on both.  `handshake` with both hosts in
  `Starters` and `Allowing` (and the assumption on `Starters` relaxed).
* *A late request.*  A `ConnectRequest` whose solution was never used may come when a newer
  connection of that client is established; the newer one is closed
  (`netInterface.cpp:757`).  This is the design of "NewConnection", but the newer one was alive.
* *A connection skipped.*  The loop over pending connections does not `continue` after removing
  one whose puzzle timed out (`netInterface.cpp:378`), nor does the loop over timeouts look again
  at an element that a callback has moved: each is looked at in the next round.
* *A connection made in the callback.*  When `onConnectionTerminated` disconnects so many others that
  the loop over timeouts looks behind the end of the vector (`netInterface.cpp:390`), it still finds the
  connection there.  If the application then calls `connectLocal`, `addConnection`
  (`netConnection.cpp:910`) puts the new connection in that place, and the loop removes it in the
  stead of the one that timed out.  `connection_table` with `Connect` allowed whenever `timedOut` is not
  `NULL`: `ToldIsRemoved` is violated.
* *The maximum of a semaphore.*  On Windows the count stops at 1024 (`tnlThread.h:57`): when more
  calls wait, increments are lost, and calls stay until others come.  `thread_queue` with
  `MaximumCount` 2 and the assumption relaxed: `NoLostWakeup` is violated.
* *Responses that dispatch.*  A response that calls `dispatchResponseCalls` again would run itself
  again: the list is cleared at the end only.  Not in the model.

## 7. Limits

* Times are choices: a timer may fire whenever its condition can hold.
* Packet contents are abstract: a packet holds as many events, updates or strings as the
  step chooses.
* In the layers the channel is true.  With the overtaking defect, a falsely
  acknowledged packet loses its ordered events for ever, and the receiver waits.
* A packet may be acknowledged by the answer sent inside `readPacketHeader` before
  `readPacket` fails on it, which is why `DeliveredMeansProcessed` asks that both ends are up.
* The shift by 32 in `readPacketHeader` when a packet comes with the last number (undefined
  in C) only reaches words of the mask that do not exist (`MaxAckMaskSize` is 1).
* Ghosts and strings go one way, from host to initiator; the code has the two directions
  apart.  `GhostConnection` leaves out its destructor and updates that fail to parse, and
  takes it that `packUpdate`, `performScopeQuery` and `getUpdatePriority` call nothing that
  changes the ghost array.
* `GhostArray` leaves out `clearMaskBits`, which breaks its segments (section 6).
* `NetInterface`: nonces never repeat and packets are authentic; keys, certificates and identity
  tokens are left out, and so is `connectLocal`.  Each host has one address, so that the
  matching of partial addresses in `handlePunch` does not occur.  Refusals without a reason are
  those whose answer is lost.  The application calls nothing from its callbacks; in
  `ConnectionTable` it does.  The data of an established connection is `NotifyProtocol`'s.
* `ConnectionTable`: a connection keeps its address while it is in the table, as in the code.
  The callback of the loop over timeouts may disconnect others and, with `connectLocal`, connect new
  ones; left out is a `connectLocal` while the loop looks behind the end of the vector (section 6).
* `NotifyProtocol`: no datagram arrives later than `SeqLife` and `AckLife` say, and the runs stay
  away from the end of the word (section 6 has both cases).
* `WorldIsMirrored` is checked with as many indices as objects, `NoLostWakeup` with no more calls
  than the maximum of the semaphore.
* `ThreadQueue`: worker threads start with the constructor (in the code before a derived class is
  complete) and never stop.

## 8. Not modelled

The library itself is `src/tnl`, about a tenth of the lines under `src/`; the rest is the
concatenated copy of it (`tnl_amalgamation.cpp`), libtomcrypt, the two games with their
graphics and sound code, the master server and two ports.  `PROJECT.json` gives the reason for
each.  Of the library, what is left is sequential code without a life of its own (bit
streams, Huffman coding, containers, the string table, cryptography wrappers), system calls,
the journal, and the arithmetic of rates.
