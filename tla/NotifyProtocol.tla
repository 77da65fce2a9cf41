---------------------------- MODULE NotifyProtocol ----------------------------
(***************************************************************************)
(* The notification protocol of NetConnection (netConnection.cpp): the two *)
(* ends of one established connection, and the datagrams between them.     *)
(*                                                                         *)
(* A data packet takes the next send sequence number; ping and ack packets *)
(* carry the current one.  Every header carries the highest sequence       *)
(* number received and a mask of ack bits, so a side learns the fate of    *)
(* its packets from any datagram of the other side.  The sequence numbers  *)
(* travel truncated to 11 bits (SeqSpace) and 10 bits (AckSpace) and the   *)
(* receiver rebuilds them from its own counters.                           *)
(*                                                                         *)
(* The network loses, duplicates and reorders: a datagram that is sent may *)
(* be received any number of times, in any order, or never.                *)
(*                                                                         *)
(* An operator named Operator_Fault stands before Operator: a plausible    *)
(* mistake in that piece of code, which the properties must tell apart.    *)
(***************************************************************************)
EXTENDS Integers, Sequences, FiniteSets

CONSTANTS
  W,              \* MaxPacketWindowSize, 32
  AckUnit,        \* ack bits are written in bytes, 8
  SeqSpace,       \* SequenceNumberWindowSize, 2^11
  AckSpace,       \* AckSequenceNumberWindowSize, 2^10
  WordSpace,      \* the counters are U32, 2^32
  PingTimers,     \* the sides whose mPingTimeout is short enough to pass
  PingRetryCount, \* mPingRetryCount
  InitSeq,        \* [Side -> Nat]: mInitialSendSeq of each side
  Adaptive,       \* isAdaptive()
  MaxSeq,         \* [Side -> Nat]: bound of the model, the last data packet
  NetCapacity,    \* bound of the model: datagrams on their way to one side
  SeqLife,        \* a datagram is gone when its sender has sent more data packets
                  \* than this since the one it numbers, ...
  AckLife,        \* ... or its receiver more than this since the one it answers
  Overtaking      \* may a ping or ack overtake the data packet it follows?

Side == {"initiator", "host"}
Peer(s) == IF s = "initiator" THEN "host" ELSE "initiator"

PacketType == {"DataPacket", "PingPacket", "AckPacket"}

VARIABLES
  connected,            \* the connection is in the interface's tables
  mLastSendSeq,
  mHighestAckedSeq,
  mLastSeqRecvd,
  mLastRecvAckAck,
  mAckMask,             \* the set of bits that are 1; bit i is mLastSeqRecvd - i
  mLastSeqRecvdAtSend,  \* ring buffer of W entries
  mNotifyQueue,         \* the packets whose PacketNotify is queued
  mPingSendCount,
  net,                  \* net[s]: the datagrams sent to s
  received,             \* history: the packets of s whose note got packetReceived
  processed             \* history: the packets of s that its peer's readPacket read

sendVars == <<mLastSendSeq, mLastSeqRecvdAtSend>>
ackVars  == <<mHighestAckedSeq, mNotifyQueue, received>>
recvVars == <<mLastSeqRecvd, mLastRecvAckAck, mAckMask, processed>>
vars == <<connected, sendVars, ackVars, recvVars, mPingSendCount, net>>

Bits == 0 .. W - 1

Packet(Seqs, Acks) ==
  [type : PacketType, seq : Seqs, ack : Acks, bits : Nat, mask : SUBSET Bits]

ConstantsAssumption ==
  /\ W \in Nat /\ W > 2
  /\ AckUnit \in Nat /\ AckUnit > 0
  /\ SeqSpace \in Nat /\ SeqSpace >= W
  /\ AckSpace \in Nat /\ AckSpace >= W
  /\ WordSpace \in Nat /\ WordSpace > 0
  /\ PingTimers \subseteq Side
  /\ PingRetryCount \in Nat
  /\ InitSeq \in [Side -> Nat]
  /\ MaxSeq \in [Side -> Nat]
  /\ \A s \in Side : InitSeq[s] <= MaxSeq[s]
  /\ NetCapacity \in Nat
  /\ SeqLife \in Nat /\ AckLife \in Nat
  /\ Adaptive \in BOOLEAN
  /\ Overtaking \in BOOLEAN

ASSUME NotifyAssumption == ConstantsAssumption

(* setInitialRecvSequence() and the constructor: the handshake has told    *)
(* each side the initial send sequence of the other.                       *)
Init ==
  /\ connected = [s \in Side |-> TRUE]
  /\ mLastSendSeq = InitSeq
  /\ mHighestAckedSeq = InitSeq
  /\ mLastSeqRecvd = [s \in Side |-> InitSeq[Peer(s)]]
  /\ mLastRecvAckAck = [s \in Side |-> InitSeq[Peer(s)]]
  /\ mAckMask = [s \in Side |-> {}]
  /\ mLastSeqRecvdAtSend = [s \in Side |-> [i \in Bits |-> 0]]
  /\ mNotifyQueue = [s \in Side |-> << >>]
  /\ mPingSendCount = [s \in Side |-> 0]
  /\ net = [s \in Side |-> {}]
  /\ received = [s \in Side |-> {}]
  /\ processed = [s \in Side |-> {}]

-----------------------------------------------------------------------------
(* writePacketHeader: as many whole bytes of ack bits as cover the packets *)
(* received since the last one the peer is known to have an answer for.    *)
AckBitsWritten(gap) == AckUnit * ((gap + AckUnit - 1) \div AckUnit)

Header(type, seq, recvd, ackAck, mask) ==
  LET bits == AckBitsWritten(recvd - ackAck)
  IN  [type |-> type, seq |-> seq, ack |-> recvd, bits |-> bits,
       mask |-> {i \in mask : i < bits}]

HeaderOf(s, type, seq) ==
  Header(type, seq, mLastSeqRecvd[s], mLastRecvAckAck[s], mAckMask[s])

(* A datagram joins those on their way to a side.  When the model tracks   *)
(* as many as it can, one of them, old or new, is lost instead.            *)
Transmit(inFlight, p) ==
  IF Cardinality(inFlight) < NetCapacity
    THEN {inFlight \union {p}}
    ELSE {inFlight} \union {(inFlight \ {q}) \union {p} : q \in inFlight}

SendTo(s, p) ==
  \E inFlight \in Transmit(net[s], p) : net' = [net EXCEPT ![s] = inFlight]

WindowFull(s) == mLastSendSeq[s] - mHighestAckedSeq[s] >= W - 2

(* checkPacketSend with data to transmit: writeRawPacket(DataPacket).      *)
SendData(s) ==
  LET seq == mLastSendSeq[s] + 1 IN
  /\ connected[s]
  /\ ~WindowFull(s)
  /\ mLastSendSeq[s] < MaxSeq[s]        \* bound of the model
  /\ mLastSendSeq' = [mLastSendSeq EXCEPT ![s] = seq]
  /\ mLastSeqRecvdAtSend' =
       [mLastSeqRecvdAtSend EXCEPT ![s][seq % W] = mLastSeqRecvd[s]]
  /\ mNotifyQueue' = [mNotifyQueue EXCEPT ![s] = Append(@, seq)]
  /\ SendTo(Peer(s), HeaderOf(s, "DataPacket", seq))
  /\ UNCHANGED <<connected, mHighestAckedSeq, received, recvVars, mPingSendCount>>

(* checkPacketSend on an adaptive connection with nothing to transmit or a *)
(* full window: the timing heuristic of the code may decide to send an     *)
(* acknowledgement.                                                        *)
SendAck(s) ==
  /\ connected[s]
  /\ Adaptive
  /\ SendTo(Peer(s), HeaderOf(s, "AckPacket", mLastSendSeq[s]))
  /\ UNCHANGED <<connected, sendVars, ackVars, recvVars, mPingSendCount>>

(* checkTimeout when the ping timeout has passed: one more ping ...        *)
SendPing_AckedSeq(s) ==
  /\ connected[s]
  /\ s \in PingTimers
  /\ mPingSendCount[s] < PingRetryCount
  /\ mPingSendCount' = [mPingSendCount EXCEPT ![s] = @ + 1]
  /\ SendTo(Peer(s), HeaderOf(s, "PingPacket", mHighestAckedSeq[s]))
  /\ UNCHANGED <<connected, sendVars, ackVars, recvVars>>

SendPing(s) ==
  /\ connected[s]
  /\ s \in PingTimers
  /\ mPingSendCount[s] < PingRetryCount
  /\ mPingSendCount' = [mPingSendCount EXCEPT ![s] = @ + 1]
  /\ SendTo(Peer(s), HeaderOf(s, "PingPacket", mLastSendSeq[s]))
  /\ UNCHANGED <<connected, sendVars, ackVars, recvVars>>

(* ... or, when they have all been sent, the connection is dropped, and    *)
(* clearAllPacketNotifies() flushes the queue in the destructor.           *)
TimeOut(s) ==
  /\ connected[s]
  /\ s \in PingTimers
  /\ mPingSendCount[s] >= PingRetryCount
  /\ connected' = [connected EXCEPT ![s] = FALSE]
  /\ mNotifyQueue' = [mNotifyQueue EXCEPT ![s] = << >>]
  /\ UNCHANGED <<sendVars, mHighestAckedSeq, received, recvVars,
                 mPingSendCount, net>>

-----------------------------------------------------------------------------
(* readPacketHeader.  The truncated numbers are rebuilt as the least ones  *)
(* not below the receiver's own that agree with them.                      *)
RebuiltSeq(s, p) == mLastSeqRecvd[s] + ((p.seq - mLastSeqRecvd[s]) % SeqSpace)
RebuiltAck(s, p) == mHighestAckedSeq[s] + ((p.ack - mHighestAckedSeq[s]) % AckSpace)

(* The header is not dropped as too old or out of order.                   *)
Accepts_OneMore(s, p) ==
  /\ RebuiltSeq(s, p) - mLastSeqRecvd[s] <= W
  /\ RebuiltAck(s, p) % WordSpace <= mLastSendSeq[s] % WordSpace
Accepts_AnyAck(s, p) == RebuiltSeq(s, p) - mLastSeqRecvd[s] <= W - 1
Accepts(s, p) ==
  /\ RebuiltSeq(s, p) - mLastSeqRecvd[s] <= W - 1
  /\ RebuiltAck(s, p) % WordSpace <= mLastSendSeq[s] % WordSpace

(* pkAckMask: only the words that were written are read from the packet;   *)
(* with none, the array is used uninitialized.                             *)
AckMaskRead(s, p) ==
  IF p.bits = 0 /\ RebuiltAck(s, p) # mHighestAckedSeq[s]
    THEN SUBSET Bits ELSE {p.mask}

(* mAckMask shifted up by the packets missed, with the low bit set for a   *)
(* data packet.                                                            *)
ShiftedMask_AnyPacket(mask, shift, type) ==
  {i \in Bits : i - shift \in mask \/ i = 0}
ShiftedMask(mask, shift, type) ==
  {i \in Bits : i - shift \in mask \/ (i = 0 /\ type = "DataPacket")}

(* handleNotify for every packet up to pkAck: those in ok are received,    *)
(* the others dropped.                                                     *)
HandleNotifies(s, pkAck, ok) ==
  /\ received' = [received EXCEPT ![s] = @ \union ok]
  /\ mHighestAckedSeq' = [mHighestAckedSeq EXCEPT ![s] = pkAck]
  /\ mNotifyQueue' = [mNotifyQueue EXCEPT ![s] =
                        SubSeq(@, pkAck - mHighestAckedSeq[s] + 1, Len(@))]

(* mLastRecvAckAck after the notifications: what had been received when    *)
(* the last packet known to be received was sent, or the old value; then   *)
(* no further back than the peer's own window.                             *)
Latest(ok) == {n \in ok : \A m \in ok : m <= n}

AckAckOf_LastSent(s, ok) ==
  IF ok = {} THEN {mLastRecvAckAck[s]}
             ELSE {mLastSeqRecvdAtSend[s][mLastSendSeq[s] % W]}
AckAckOf(s, ok) ==
  IF ok = {} THEN {mLastRecvAckAck[s]}
             ELSE {mLastSeqRecvdAtSend[s][n % W] : n \in Latest(ok)}

WithinWindow(pkSeq, ackAck) == IF pkSeq - ackAck > W THEN pkSeq - W ELSE ackAck

(* An accepted ping or ack that moves mLastSeqRecvd has overtaken the data *)
(* packet with its number; without Overtaking that packet is lost.         *)
Overtaken(s, p) ==
  {q \in net[s] : /\ ~Overtaking
                  /\ p.type # "DataPacket"
                  /\ p.seq # mLastSeqRecvd[s]
                  /\ q.type = "DataPacket"
                  /\ q.seq = p.seq}

Answers(s, p, pkSeq, ackAck) ==
  p.type = "PingPacket" \/ pkSeq - ackAck > W \div 2

(* A datagram is received: readRawPacket -> readPacketHeader.              *)
AcceptPacket(s, p) ==
  LET pkSeq == RebuiltSeq(s, p)
      pkAck == RebuiltAck(s, p)
      shift == pkSeq - mLastSeqRecvd[s]
  IN
  /\ Accepts(s, p)
  /\ \E pkAckMask \in AckMaskRead(s, p) :
     LET ok == {n \in mHighestAckedSeq[s] + 1 .. pkAck : pkAck - n \in pkAckMask}
     IN
     \E confirmedAck \in AckAckOf(s, ok) :
       LET ackAck == WithinWindow(pkSeq, confirmedAck)
           mask == ShiftedMask(mAckMask[s], shift, p.type)
       IN
       /\ HandleNotifies(s, pkAck, ok)
       /\ mLastRecvAckAck' = [mLastRecvAckAck EXCEPT ![s] = ackAck]
       /\ mAckMask' = [mAckMask EXCEPT ![s] = mask]
       /\ mLastSeqRecvd' = [mLastSeqRecvd EXCEPT ![s] = pkSeq]
       /\ processed' = IF shift # 0 /\ p.type = "DataPacket"
                       THEN [processed EXCEPT ![Peer(s)] = @ \union {p.seq}]
                       ELSE processed
       /\ mPingSendCount' = [mPingSendCount EXCEPT ![s] = 0]     \* keepAlive
       /\ \E answers \in
              IF Answers(s, p, pkSeq, ackAck)
                THEN Transmit(net[Peer(s)], Header("AckPacket", mLastSendSeq[s],
                                                   pkSeq, ackAck, mask))
                ELSE {net[Peer(s)]} :
            net' = [net EXCEPT ![s] = @ \ Overtaken(s, p), ![Peer(s)] = answers]
  /\ UNCHANGED <<connected, sendVars>>

(* The datagrams that may still arrive at s: what lives longer than        *)
(* SeqLife and AckLife has been lost.                                      *)
Arriving(s) ==
  {p \in net[s] : /\ mLastSendSeq[Peer(s)] - p.seq <= SeqLife
                  /\ mLastSendSeq[s] - p.ack <= AckLife}

ReceivePacket(s) ==
  /\ connected[s]
  /\ \E p \in Arriving(s) : AcceptPacket(s, p)

-----------------------------------------------------------------------------
Next ==
  \E s \in Side :
    \/ SendData(s)
    \/ SendAck(s)
    \/ SendPing(s)
    \/ TimeOut(s)
    \/ ReceivePacket(s)

Spec == Init /\ [][Next]_vars

-----------------------------------------------------------------------------
TypeOK ==
  /\ connected \in [Side -> BOOLEAN]
  /\ mLastSendSeq \in [Side -> Nat]
  /\ mHighestAckedSeq \in [Side -> Nat]
  /\ mLastSeqRecvd \in [Side -> Nat]
  /\ mLastRecvAckAck \in [Side -> Int]
  /\ mAckMask \in [Side -> SUBSET Bits]
  /\ mLastSeqRecvdAtSend \in [Side -> [Bits -> Nat]]
  /\ mNotifyQueue \in [Side -> Seq(Nat)]
  /\ mPingSendCount \in [Side -> 0 .. PingRetryCount]
  /\ net \in [Side -> SUBSET Packet(Nat, Nat)]
  /\ received \in [Side -> SUBSET Nat]
  /\ processed \in [Side -> SUBSET Nat]

-----------------------------------------------------------------------------
(* A sender never has more than a window of unanswered packets, what it    *)
(* has heard answered never runs ahead of what the peer has received, and  *)
(* the ack bits the peer must still send fit in its mask: the assertion    *)
(* "ackByteCount exceeds MaxAckByteCount!" of writePacketHeader.           *)
WindowBounds ==
  \A s \in Side :
    /\ mHighestAckedSeq[s] <= mLastSeqRecvd[Peer(s)]
    /\ mLastSeqRecvd[Peer(s)] <= mLastSendSeq[s]
    /\ mLastSendSeq[s] - mHighestAckedSeq[s] <= W - 2
    /\ mLastSeqRecvd[s] - mLastRecvAckAck[s] \in 0 .. W

(* A side stops repeating the ack bit of a packet only when the peer has   *)
(* had its answer: it never believes the peer to be further than it is,    *)
(* although it infers this from a ring buffer indexed by W.                *)
AckAckSafe == \A s \in Side : mLastRecvAckAck[s] <= mHighestAckedSeq[Peer(s)]

(* handleNotify pops the note of the packet it is called for, and there is *)
(* one: "Error: got a notify with a null notify head."                     *)
NotesMatch ==
  \A s \in Side : connected[s] =>
    /\ Len(mNotifyQueue[s]) = mLastSendSeq[s] - mHighestAckedSeq[s]
    /\ \A i \in 1 .. Len(mNotifyQueue[s]) :
         mNotifyQueue[s][i] = mHighestAckedSeq[s] + i

(* The same, of one step: readPacketHeader never makes more notifications  *)
(* than there are notes in the queue.                                      *)
NotifyHasNote ==
  [][\A s \in Side :
       mHighestAckedSeq'[s] - mHighestAckedSeq[s] <= Len(mNotifyQueue[s])]_vars

(* A datagram that readPacketHeader accepts, however late it arrives, is   *)
(* read with its true numbers: one that is just short of a lap of SeqSpace *)
(* old is out of the window, and one just short of AckSpace acknowledges   *)
(* what has not been sent.                                                 *)
RebuiltRight ==
  \A s \in Side : \A p \in Arriving(s) : Accepts(s, p) =>
    RebuiltSeq(s, p) = p.seq /\ RebuiltAck(s, p) = p.ack

(* Every ack bit that readPacketHeader consults was written: it does not   *)
(* turn uninitialized memory into a notification.                          *)
AckBitsCovered ==
  \A s \in Side : \A p \in Arriving(s) : Accepts(s, p) =>
    RebuiltAck(s, p) - mHighestAckedSeq[s] <= p.bits

(* A packet whose sender was told "known to have been received" has been   *)
(* given to the remote readPacket (PacketNotify, packetReceived).          *)
NotifiedOnlyIfRead == \A s \in Side : received[s] \subseteq processed[s]

(* A packet that was reported dropped, by an answer and not by the end of  *)
(* the connection, has not been read and never will be.                    *)
DroppedNeverRead ==
  \A s \in Side : \A n \in processed[s] :
    n <= mHighestAckedSeq[s] => n \in received[s]

(* The protocol implements the channel its subclasses rely on.             *)
Channel == INSTANCE NotifyChannel WITH
  Window    <- W - 2,
  open      <- connected,
  sent      <- mLastSendSeq,
  notified  <- mHighestAckedSeq,
  confirmed <- received,
  arrived   <- processed

ImplementsChannel == Channel!ChanSpec

-----------------------------------------------------------------------------
(* Liveness.  The interface's process() calls checkTimeout on every        *)
(* connection, and a network that is not dead delivers, of the datagrams   *)
(* that are sent over and over, one with the latest numbers.               *)
ReceiveLatest(s) ==
  /\ connected[s]
  /\ \E p \in Arriving(s) : /\ p.seq = mLastSendSeq[Peer(s)]
                            /\ p.ack = mLastSeqRecvd[Peer(s)]
                            /\ AcceptPacket(s, p)

Fairness ==
  \A s \in Side : /\ WF_vars(SendPing(s) \/ TimeOut(s))
                  /\ SF_vars(ReceiveLatest(s))

FairSpec == Spec /\ Fairness

(* Every data packet is eventually notified, whatever is lost, unless the  *)
(* sender gives the connection up.                                         *)
EveryPacketAnswered ==
  \A s \in PingTimers : \A n \in InitSeq[s] + 1 .. MaxSeq[s] :
    n <= mLastSendSeq[s] ~> (n <= mHighestAckedSeq[s] \/ ~connected[s])
=============================================================================
