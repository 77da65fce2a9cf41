------------------------ MODULE NotifyProtocol_proofs ------------------------
(***************************************************************************)
(* Proofs about NotifyProtocol.                                            *)
(***************************************************************************)
EXTENDS NotifyInvariant, TLAPS

-----------------------------------------------------------------------------
(* Arithmetic of the truncated numbers, the ring buffer and the ack bytes. *)

(* Rebuilding a number that is not behind gives the number back ...        *)
LEMMA ModAhead ==
  ASSUME NEW N \in Nat, N > 0, NEW x \in Int, 0 <= x, x < N
  PROVE  x % N = x
  BY SMTT(30)

(* ... and one that is behind comes back a whole space later.              *)
LEMMA ModBehind ==
  ASSUME NEW N \in Nat, N > 0, NEW x \in Int, 0 - N <= x, x < 0
  PROVE  x % N = x + N
  BY SMTT(30)

(* A remainder indexes the ring buffer.                                    *)
LEMMA ModRange ==
  ASSUME NEW N \in Nat, N > 0, NEW x \in Int
  PROVE  x % N \in 0 .. N - 1
  BY SMTT(30)

(* Two packets of one window have entries of their own in the ring buffer. *)
LEMMA ModDistinct ==
  ASSUME NEW N \in Nat, N > 0, NEW x \in Nat, NEW y \in Nat, x < y, y - x < N
  PROVE  x % N # y % N
<1> SUFFICES ASSUME x % N = y % N PROVE FALSE OBVIOUS
<1> DEFINE a == x \div N
           b == y \div N
<1>1. /\ a \in Int /\ b \in Int
      /\ x = N * a + (x % N)
      /\ y = N * b + (y % N)
  BY SMTT(30)
<1>2. y - x = N * (b - a)
  <2>1. y - x = N * b - N * a BY <1>1, ModRange
  <2>2. N * b - N * a = N * (b - a) BY <1>1
  <2> QED BY <2>1, <2>2
<1> HIDE DEF a, b
<1>3. CASE b - a <= 0
  <2>1. N * (b - a) <= 0 BY <1>1, <1>3, SMTT(30)
  <2> QED BY <1>2, <2>1
<1>4. CASE b - a >= 1
  <2>1. N * (b - a) >= N BY <1>1, <1>4, SMTT(30)
  <2> QED BY <1>2, <2>1
<1> QED BY <1>1, <1>3, <1>4

(* The bytes written cover every bit that has to be sent.                  *)
LEMMA AckBitsCover ==
  ASSUME NEW gap \in Nat
  PROVE  /\ AckBitsWritten(gap) \in Nat
         /\ AckBitsWritten(gap) >= gap
  BY NotifyAssumption, SMTT(30) DEF AckBitsWritten, ConstantsAssumption

LEMMA PeerFacts ==
  ASSUME NEW s \in Side
  PROVE  /\ Peer(s) \in Side
         /\ Peer(s) # s
         /\ Peer(Peer(s)) = s
         /\ Side = {s, Peer(s)}
  BY DEF Side, Peer

-----------------------------------------------------------------------------
(* The network never holds a datagram that was not sent.                   *)
LEMMA TransmitAdds ==
  ASSUME NEW inFlight, NEW p, NEW after \in Transmit(inFlight, p)
  PROVE  after \subseteq inFlight \union {p}
  BY DEF Transmit

LEMMA SendToAdds ==
  ASSUME TypeOK, NEW s \in Side, NEW p \in Packet(Nat, Nat), SendTo(s, p)
  PROVE  /\ net'[s] \subseteq net[s] \union {p}
         /\ net'[Peer(s)] = net[Peer(s)]
         /\ net' \in [Side -> SUBSET Packet(Nat, Nat)]
<1>1. PICK inFlight \in Transmit(net[s], p) : net' = [net EXCEPT ![s] = inFlight]
  BY DEF SendTo
<1>2. inFlight \subseteq net[s] \union {p}
  BY TransmitAdds
<1>3. net[s] \subseteq Packet(Nat, Nat) /\ net \in [Side -> SUBSET Packet(Nat, Nat)]
  BY DEF TypeOK
<1> QED BY <1>1, <1>2, <1>3, PeerFacts

(* What a header holds.                                                    *)
LEMMA HeaderFacts ==
  ASSUME NEW type \in PacketType, NEW seq \in Nat, NEW recvd \in Nat,
         NEW ackAck \in Int, ackAck <= recvd, NEW mask \in SUBSET Bits
  PROVE  LET h == Header(type, seq, recvd, ackAck, mask) IN
         /\ h \in Packet(Nat, Nat)
         /\ h.type = type /\ h.seq = seq /\ h.ack = recvd
         /\ h.bits \in Nat /\ h.bits >= recvd - ackAck
         /\ h.mask = {i \in mask : i < h.bits}
<1>1. recvd - ackAck \in Nat OBVIOUS
<1>2. /\ AckBitsWritten(recvd - ackAck) \in Nat
      /\ AckBitsWritten(recvd - ackAck) >= recvd - ackAck
  BY <1>1, AckBitsCover
<1> HIDE DEF AckBitsWritten
<1> QED BY <1>2 DEF Header, Packet

(* A datagram that is accepted is not behind, and is read with its true    *)
(* numbers; none of its ack bits are made up.                              *)
LEMMA AcceptedIsRight ==
  ASSUME TypeOK, CountersInv, PacketsInv, NoWordWrap, ShortLived,
         NEW s \in Side, NEW p \in net[s], p \in Arriving(s), Accepts(s, p)
  PROVE  /\ RebuiltSeq(s, p) = p.seq
         /\ RebuiltAck(s, p) = p.ack
         /\ mLastSeqRecvd[s] <= p.seq
         /\ mHighestAckedSeq[s] <= p.ack
         /\ p.seq - mLastSeqRecvd[s] <= W - 1
         /\ AckMaskRead(s, p) = {p.mask}
<1> DEFINE L == mLastSeqRecvd[s]
           H == mHighestAckedSeq[s]
           S == mLastSendSeq[s]
<1>1. /\ L \in Nat /\ H \in Nat /\ S \in Nat
      /\ p.seq \in Nat /\ p.ack \in Nat /\ p.bits \in Nat
      /\ mLastSeqRecvd[Peer(s)] \in Nat /\ mLastSendSeq[Peer(s)] \in Nat
      /\ mHighestAckedSeq[Peer(s)] \in Nat
  BY PeerFacts DEF TypeOK, Packet
<1>2. /\ p.seq <= mLastSendSeq[Peer(s)]
      /\ p.ack <= mLastSeqRecvd[Peer(s)]
      /\ p.ack - p.bits <= H
  BY DEF PacketsInv, PacketOK
<1>3. /\ H <= mLastSeqRecvd[Peer(s)] /\ mLastSeqRecvd[Peer(s)] <= S
      /\ S - H <= W - 2
      /\ S <= MaxSeq[s]
      /\ mHighestAckedSeq[Peer(s)] <= L /\ L <= mLastSendSeq[Peer(s)]
      /\ mLastSendSeq[Peer(s)] - mHighestAckedSeq[Peer(s)] <= W - 2
  BY PeerFacts DEF CountersInv
<1>4. /\ W \in Nat /\ W > 2
      /\ SeqSpace \in Nat /\ SeqSpace >= W
      /\ AckSpace \in Nat /\ AckSpace >= W
      /\ WordSpace \in Nat /\ WordSpace > 0
      /\ MaxSeq[s] \in Nat
  BY NotifyAssumption DEF ConstantsAssumption
<1>5. /\ p.seq + SeqSpace >= L + W
      /\ p.ack + AckSpace > S
  <2>1. SeqLife \in Nat /\ AckLife \in Nat /\ SeqLife + W <= SeqSpace /\ AckLife < AckSpace
    BY NotifyAssumption DEF ConstantsAssumption, ShortLived
  <2>2. mLastSendSeq[Peer(s)] - p.seq <= SeqLife /\ S - p.ack <= AckLife
    BY DEF Arriving
  <2> QED BY <2>1, <2>2, <1>1, <1>3, <1>4
<1>6. MaxSeq[s] + AckSpace <= WordSpace
  BY DEF NoWordWrap
<1>7. RebuiltSeq(s, p) = p.seq /\ L <= p.seq
  <2>1. CASE p.seq < L
    <3>1. p.seq - L \in Int /\ 0 - SeqSpace <= p.seq - L /\ p.seq - L < 0
      BY <2>1, <1>1, <1>5, <1>4
    <3>2. (p.seq - L) % SeqSpace = p.seq - L + SeqSpace
      BY <3>1, <1>4, ModBehind
    <3>3. RebuiltSeq(s, p) = p.seq + SeqSpace
      BY <3>2, <1>1, <1>4 DEF RebuiltSeq
    <3>4. RebuiltSeq(s, p) - L <= W - 1
      BY DEF Accepts
    <3> QED BY <3>3, <3>4, <1>1, <1>5, <1>4
  <2>2. CASE p.seq >= L
    <3>1. p.seq - L \in Int /\ 0 <= p.seq - L /\ p.seq - L < SeqSpace
      BY <2>2, <1>1, <1>2, <1>3, <1>4
    <3>2. (p.seq - L) % SeqSpace = p.seq - L
      BY <3>1, <1>4, ModAhead
    <3> QED BY <2>2, <3>2, <1>1 DEF RebuiltSeq
  <2> QED BY <2>1, <2>2, <1>1
<1>8. RebuiltAck(s, p) = p.ack /\ H <= p.ack
  <2>1. CASE p.ack < H
    <3>1. p.ack - H \in Int /\ 0 - AckSpace <= p.ack - H /\ p.ack - H < 0
      BY <2>1, <1>1, <1>3, <1>5, <1>4
    <3>2. (p.ack - H) % AckSpace = p.ack - H + AckSpace
      BY <3>1, <1>4, ModBehind
    <3>3. RebuiltAck(s, p) = p.ack + AckSpace
      BY <3>2, <1>1, <1>4 DEF RebuiltAck
    <3>4. /\ p.ack + AckSpace \in Int
          /\ 0 <= p.ack + AckSpace /\ p.ack + AckSpace < WordSpace
          /\ S < WordSpace
      BY <2>1, <1>1, <1>3, <1>4, <1>6
    <3>5. (p.ack + AckSpace) % WordSpace = p.ack + AckSpace
      BY <3>4, <1>4, ModAhead
    <3>6. S % WordSpace = S
      BY <3>4, <1>1, <1>4, ModAhead
    <3>7. p.ack + AckSpace <= S
      BY <3>3, <3>5, <3>6 DEF Accepts
    <3> QED BY <3>7, <1>1, <1>5, <1>4
  <2>2. CASE p.ack >= H
    <3>1. p.ack - H \in Int /\ 0 <= p.ack - H /\ p.ack - H < AckSpace
      BY <2>2, <1>1, <1>2, <1>3, <1>4
    <3>2. (p.ack - H) % AckSpace = p.ack - H
      BY <3>1, <1>4, ModAhead
    <3> QED BY <2>2, <3>2, <1>1 DEF RebuiltAck
  <2> QED BY <2>1, <2>2, <1>1
<1>9. p.seq - L <= W - 1
  BY <1>7 DEF Accepts
<1>10. AckMaskRead(s, p) = {p.mask}
  BY <1>8, <1>1, <1>2 DEF AckMaskRead
<1> QED BY <1>7, <1>8, <1>9, <1>10

-----------------------------------------------------------------------------
(* The invariant holds initially.                                          *)
LEMMA InitInv == Init => IInv
<1> SUFFICES ASSUME Init PROVE IInv OBVIOUS
<1> USE NotifyAssumption DEF Init, ConstantsAssumption
<1>1. TypeOK
  BY PeerFacts DEF TypeOK, Bits
<1>2. CountersInv
  BY PeerFacts DEF CountersInv
<1>3. PacketsInv /\ RingInv
  BY DEF PacketsInv, RingInv
<1>4. AckAckInv
  BY PeerFacts DEF AckAckInv, MaskOK
<1>5. NotesMatch
  BY DEF NotesMatch
<1>6. TruthInv
  BY PeerFacts DEF TruthInv, MaskTrue
<1> QED BY <1>1, <1>2, <1>3, <1>4, <1>5, <1>6 DEF IInv, WindowInv

(* The types of what the steps read.                                       *)
LEMMA TypeFacts ==
  ASSUME TypeOK, NEW s \in Side
  PROVE  /\ mLastSendSeq[s] \in Nat
         /\ mHighestAckedSeq[s] \in Nat
         /\ mLastSeqRecvd[s] \in Nat
         /\ mLastRecvAckAck[s] \in Int
         /\ mAckMask[s] \in SUBSET Bits
         /\ mLastSeqRecvdAtSend[s] \in [Bits -> Nat]
         /\ \A n \in Nat : n % W \in Bits /\ AtSend(s, n) \in Nat
         /\ \A p \in net[s] : /\ p \in Packet(Nat, Nat)
                              /\ p.seq \in Nat /\ p.ack \in Nat /\ p.bits \in Nat
                              /\ p.mask \in SUBSET Bits
                              /\ p.type \in PacketType
<1>1. W \in Nat /\ W > 0
  BY NotifyAssumption DEF ConstantsAssumption
<1>2. \A n \in Nat : n % W \in Bits
  BY <1>1, ModRange DEF Bits
<1>3. mLastSeqRecvdAtSend[s] \in [Bits -> Nat]
  BY DEF TypeOK
<1>4. \A n \in Nat : n % W \in Bits /\ AtSend(s, n) \in Nat
  BY <1>2, <1>3 DEF AtSend
<1>5. \A p \in net[s] : p \in Packet(Nat, Nat)
  BY DEF TypeOK
<1>6. \A p \in Packet(Nat, Nat) : /\ p.seq \in Nat /\ p.ack \in Nat /\ p.bits \in Nat
                                  /\ p.mask \in SUBSET Bits
                                  /\ p.type \in PacketType
  BY DEF Packet
<1>7. /\ mLastSendSeq[s] \in Nat /\ mHighestAckedSeq[s] \in Nat
      /\ mLastSeqRecvd[s] \in Nat /\ mLastRecvAckAck[s] \in Int
      /\ mAckMask[s] \in SUBSET Bits
  BY DEF TypeOK
<1> QED BY <1>3, <1>4, <1>5, <1>6, <1>7

(* The header that a side would send now.                                  *)
LEMMA HeaderOfFacts ==
  ASSUME TypeOK, CountersInv, NEW s \in Side, NEW type \in PacketType,
         NEW seq \in Nat
  PROVE  LET h == HeaderOf(s, type, seq) IN
         /\ h \in Packet(Nat, Nat)
         /\ h.type = type /\ h.seq = seq /\ h.ack = mLastSeqRecvd[s]
         /\ h.bits \in Nat /\ h.bits >= mLastSeqRecvd[s] - mLastRecvAckAck[s]
         /\ h.mask = {i \in mAckMask[s] : i < h.bits}
<1>1. mLastRecvAckAck[s] <= mLastSeqRecvd[s]
  BY PeerFacts, TypeFacts DEF CountersInv
<1>2. /\ mLastSeqRecvd[s] \in Nat /\ mLastRecvAckAck[s] \in Int
      /\ mAckMask[s] \in SUBSET Bits
  BY TypeFacts
<1> HIDE DEF Header
<1> QED BY <1>1, <1>2, HeaderFacts DEF HeaderOf

-----------------------------------------------------------------------------
(* The parts of the invariant about datagrams survive a step that adds the *)
(* header of s as it is after the step, if they survive it for the others. *)
LEMMA HeaderAdded ==
  ASSUME TypeOK', CountersInv', NEW s \in Side, NEW h \in Packet(Nat, Nat),
         h.seq = mLastSendSeq'[s], h.ack = mLastSeqRecvd'[s],
         h.bits >= mLastSeqRecvd'[s] - mLastRecvAckAck'[s],
         h.mask \subseteq mAckMask'[s],
         RingOK(Peer(s), h)',
         net'[s] \subseteq net[s], net'[Peer(s)] \subseteq net[Peer(s)] \union {h},
         \A q \in net[Peer(s)] : /\ h.seq > q.seq => h.ack >= q.ack
                                 /\ q.seq <= h.seq,
         PacketsInv,
         \A t \in Side : \A p \in net[t] :
           PacketOK(t, p)' /\ RingOK(t, p)' /\ MaskOK(t, p.ack, p.mask)',
         \A t \in Side : MaskOK(t, mLastSeqRecvd[Peer(t)], mAckMask[Peer(t)])'
  PROVE  PacketsInv' /\ RingInv' /\ AckAckInv'
<1>1. /\ h.seq \in Nat /\ h.ack \in Nat /\ h.bits \in Nat
      /\ mLastSendSeq'[s] \in Nat /\ mLastSeqRecvd'[s] \in Nat
      /\ mLastRecvAckAck'[s] \in Int
      /\ mHighestAckedSeq'[Peer(s)] \in Nat
      /\ mLastSeqRecvd'[Peer(s)] \in Nat
  BY PeerFacts DEF TypeOK, Packet
<1>2. /\ mHighestAckedSeq'[Peer(s)] <= mLastSeqRecvd'[s]
      /\ mLastSeqRecvd'[s] <= mLastSendSeq'[Peer(s)]
      /\ mLastRecvAckAck'[s] <= mHighestAckedSeq'[Peer(s)]
  BY PeerFacts DEF CountersInv
<1>3. PacketOK(Peer(s), h)'
  BY <1>1, <1>2, PeerFacts DEF PacketOK
<1>4. MaskOK(Peer(s), h.ack, h.mask)'
  BY PeerFacts DEF MaskOK
<1>5. PacketsInv'
  <2> SUFFICES ASSUME NEW t \in Side, NEW p \in net'[t], NEW q \in net'[t]
               PROVE  PacketOK(t, p)' /\ (p.seq > q.seq => p.ack >= q.ack)
    BY DEF PacketsInv
  <2>1. CASE t = s
    BY <2>1 DEF PacketsInv
  <2>2. CASE t = Peer(s)
    <3>1. PacketOK(t, p)'
      BY <2>2, <1>3
    <3>2. CASE p \in net[t] /\ q \in net[t]
      BY <3>1, <3>2 DEF PacketsInv
    <3>3. CASE p = h
      BY <3>1, <3>3, <2>2, <1>1
    <3>4. CASE p \in net[t] /\ q = h
      <4>1. p.seq <= h.seq /\ p.seq \in Nat
        BY <3>4, <2>2, PeerFacts, <1>1 DEF TypeOK, Packet
      <4> QED BY <4>1, <3>1, <3>4, <1>1
    <3> QED BY <3>2, <3>3, <3>4, <2>2
  <2> QED BY <2>1, <2>2, PeerFacts
<1>6. RingInv'
  BY PeerFacts DEF RingInv
<1>7. AckAckInv'
  BY <1>4, PeerFacts DEF AckAckInv
<1> QED BY <1>5, <1>6, <1>7

-----------------------------------------------------------------------------
(* A ping or an ack changes nothing but the network (and the ping count).  *)
LEMMA ControlStep ==
  ASSUME WindowInv, NEW s \in Side, NEW type \in PacketType \ {"DataPacket"},
         SendTo(Peer(s), HeaderOf(s, type, mLastSendSeq[s])),
         mPingSendCount' \in [Side -> 0 .. PingRetryCount],
         UNCHANGED <<connected, sendVars, ackVars, recvVars>>
  PROVE  WindowInv'
<1> USE DEF WindowInv, sendVars, ackVars, recvVars
<1>1. PICK h \in Packet(Nat, Nat) :
      /\ h = HeaderOf(s, type, mLastSendSeq[s])
      /\ h.type = type /\ h.seq = mLastSendSeq[s] /\ h.ack = mLastSeqRecvd[s]
      /\ h.bits >= mLastSeqRecvd[s] - mLastRecvAckAck[s]
      /\ h.mask \subseteq mAckMask[s]
  BY TypeFacts, HeaderOfFacts
<1>2. /\ net'[Peer(s)] \subseteq net[Peer(s)] \union {h}
      /\ net'[s] = net[s]
      /\ net' \in [Side -> SUBSET Packet(Nat, Nat)]
  BY <1>1, PeerFacts, SendToAdds
<1>3. TypeOK'
  BY <1>2 DEF TypeOK
<1>4. CountersInv'
  BY DEF CountersInv
<1>5. /\ \A t \in Side : \A p \in net[t] :
           PacketOK(t, p)' /\ RingOK(t, p)' /\ MaskOK(t, p.ack, p.mask)'
      /\ \A t \in Side : MaskOK(t, mLastSeqRecvd[Peer(t)], mAckMask[Peer(t)])'
  BY DEF PacketsInv, PacketOK, RingInv, RingOK, AckAckInv, MaskOK, AtSend
<1>6. \A q \in net[Peer(s)] : /\ h.seq > q.seq => h.ack >= q.ack
                              /\ q.seq <= h.seq
  BY <1>1, PeerFacts, TypeFacts DEF PacketsInv, PacketOK
<1>7. RingOK(Peer(s), h)'
  BY <1>1 DEF RingOK
<1>8. PacketsInv' /\ RingInv' /\ AckAckInv'
  BY <1>1, <1>2, <1>3, <1>4, <1>5, <1>6, <1>7, HeaderAdded
<1> QED BY <1>3, <1>4, <1>8

(* A data packet takes the next entry of the ring buffer, which no packet  *)
(* without an answer still uses.                                           *)
LEMMA SendDataStep ==
  ASSUME WindowInv, NEW s \in Side, SendData(s)
  PROVE  WindowInv'
<1> USE DEF WindowInv, recvVars
<1>1. PICK seq : seq = mLastSendSeq[s] + 1
  OBVIOUS
<1>2. /\ mLastSendSeq[s] < MaxSeq[s]
      /\ ~WindowFull(s)
      /\ mLastSendSeq' = [mLastSendSeq EXCEPT ![s] = seq]
      /\ mLastSeqRecvdAtSend' =
           [mLastSeqRecvdAtSend EXCEPT ![s][seq % W] = mLastSeqRecvd[s]]
      /\ mNotifyQueue' = [mNotifyQueue EXCEPT ![s] = Append(@, seq)]
      /\ SendTo(Peer(s), HeaderOf(s, "DataPacket", seq))
      /\ UNCHANGED <<connected, mHighestAckedSeq, received, recvVars,
                     mPingSendCount>>
  BY <1>1 DEF SendData
<1>3. /\ mLastSendSeq[s] \in Nat /\ seq \in Nat
      /\ mHighestAckedSeq[s] \in Nat /\ mLastSeqRecvd[s] \in Nat
      /\ seq % W \in Bits
      /\ W \in Nat /\ W > 2
      /\ MaxSeq[s] \in Nat
  BY <1>1, TypeFacts, NotifyAssumption DEF ConstantsAssumption
<1>4. PICK h \in Packet(Nat, Nat) :
      /\ h = HeaderOf(s, "DataPacket", seq)
      /\ h.seq = seq /\ h.ack = mLastSeqRecvd[s]
      /\ h.bits >= mLastSeqRecvd[s] - mLastRecvAckAck[s]
      /\ h.mask \subseteq mAckMask[s]
  BY <1>3, HeaderOfFacts DEF PacketType
<1>5. /\ net'[Peer(s)] \subseteq net[Peer(s)] \union {h}
      /\ net'[s] = net[s]
      /\ net' \in [Side -> SUBSET Packet(Nat, Nat)]
  BY <1>2, <1>4, PeerFacts, SendToAdds
<1>6. TypeOK'
  <2>1. mLastSeqRecvdAtSend' \in [Side -> [Bits -> Nat]]
    BY <1>2, <1>3 DEF TypeOK
  <2>2. mNotifyQueue' \in [Side -> Seq(Nat)]
    BY <1>2, <1>3 DEF TypeOK
  <2>3. mLastSendSeq' \in [Side -> Nat]
    BY <1>2, <1>3 DEF TypeOK
  <2> QED BY <1>2, <1>5, <2>1, <2>2, <2>3 DEF TypeOK
<1>7. /\ mLastSendSeq'[s] = mLastSendSeq[s] + 1
      /\ mLastSendSeq'[Peer(s)] = mLastSendSeq[Peer(s)]
      /\ mLastSendSeq[s] - mHighestAckedSeq[s] < W - 2
  <2>1. mLastSendSeq \in [Side -> Nat]
    BY DEF TypeOK
  <2> QED BY <2>1, <1>1, <1>2, <1>3, PeerFacts DEF WindowFull
<1>8. CountersInv'
  <2> SUFFICES ASSUME NEW t \in Side
               PROVE  /\ mHighestAckedSeq[t] <= mLastSeqRecvd[Peer(t)]
                      /\ mLastSeqRecvd[Peer(t)] <= mLastSendSeq'[t]
                      /\ mLastSendSeq'[t] <= MaxSeq[t]
                      /\ mLastSendSeq'[t] - mHighestAckedSeq[t] <= W - 2
                      /\ mLastRecvAckAck[t] <= mHighestAckedSeq[Peer(t)]
                      /\ mLastSeqRecvd[t] - mLastRecvAckAck[t] <= W
    BY <1>2 DEF CountersInv
  <2>1. /\ mHighestAckedSeq[t] <= mLastSeqRecvd[Peer(t)]
        /\ mLastSeqRecvd[Peer(t)] <= mLastSendSeq[t]
        /\ mLastSendSeq[t] <= MaxSeq[t]
        /\ mLastSendSeq[t] - mHighestAckedSeq[t] <= W - 2
        /\ mLastRecvAckAck[t] <= mHighestAckedSeq[Peer(t)]
        /\ mLastSeqRecvd[t] - mLastRecvAckAck[t] <= W
    BY DEF CountersInv
  <2>2. CASE t = s
    <3>1. mLastSeqRecvd[Peer(s)] \in Nat
      BY PeerFacts, TypeFacts
    <3> QED BY <2>1, <2>2, <3>1, <1>2, <1>3, <1>7
  <2>3. CASE t = Peer(s)
    BY <2>1, <2>3, <1>7, PeerFacts
  <2> QED BY <2>2, <2>3, PeerFacts
<1>9. \A n \in mHighestAckedSeq[s] + 1 .. mLastSendSeq[s] : AtSend(s, n)' = AtSend(s, n)
  <2> SUFFICES ASSUME NEW n \in mHighestAckedSeq[s] + 1 .. mLastSendSeq[s]
               PROVE  AtSend(s, n)' = AtSend(s, n)
    OBVIOUS
  <2>1. n \in Nat /\ n < seq /\ seq - n < W
    BY <1>1, <1>3, <1>7
  <2>2. n % W # seq % W
    BY <1>3, <2>1, ModDistinct
  <2> QED BY <1>2, <1>3, <2>2 DEF AtSend, TypeOK
<1>10. \A n : AtSend(Peer(s), n)' = AtSend(Peer(s), n)
  BY <1>2, PeerFacts DEF AtSend, TypeOK
<1>11. AtSend(s, seq)' = mLastSeqRecvd[s]
  BY <1>2, <1>3 DEF AtSend, TypeOK
<1>12. \A t \in Side : \A p \in net[t] : PacketOK(t, p)'
  <2> SUFFICES ASSUME NEW t \in Side, NEW p \in net[t] PROVE PacketOK(t, p)'
    OBVIOUS
  <2>1. PacketOK(t, p)
    BY DEF PacketsInv
  <2>2. mLastSendSeq[Peer(t)] <= mLastSendSeq'[Peer(t)]
    <3>1. CASE t = s BY <3>1, <1>7, PeerFacts, TypeFacts
    <3>2. CASE t = Peer(s) BY <3>2, <1>3, <1>7, PeerFacts
    <3> QED BY <3>1, <3>2, PeerFacts
  <2>3. p.seq \in Nat /\ mLastSendSeq[Peer(t)] \in Nat /\ mLastSendSeq'[Peer(t)] \in Nat
    BY <1>6, TypeFacts, PeerFacts DEF TypeOK
  <2> QED BY <1>2, <2>1, <2>2, <2>3 DEF PacketOK
<1>13. \A t \in Side : \A p \in net[t] : RingOK(t, p)'
  <2> SUFFICES ASSUME NEW t \in Side, NEW p \in net[t], p.type = "DataPacket",
                      p.seq > mHighestAckedSeq[Peer(t)]
               PROVE  p.ack = AtSend(Peer(t), p.seq)'
    BY <1>2 DEF RingOK
  <2>1. p.ack = AtSend(Peer(t), p.seq)
    BY DEF RingInv, RingOK
  <2>2. p.seq <= mLastSendSeq[Peer(t)] /\ p.seq \in Nat
    BY TypeFacts DEF PacketsInv, PacketOK
  <2>3. CASE t = Peer(s)
    BY <1>3, <1>9, <2>1, <2>2, <2>3, PeerFacts
  <2>4. CASE t = s
    BY <1>10, <2>1, <2>4
  <2> QED BY <2>3, <2>4, PeerFacts
<1>14. ASSUME NEW t \in Side, NEW last \in Nat, NEW mask,
              last <= mLastSendSeq[t], MaskOK(t, last, mask)
       PROVE  MaskOK(t, last, mask)'
  <2> SUFFICES ASSUME NEW n \in mHighestAckedSeq[t] + 1 .. last, last - n \in mask
               PROVE  AtSend(t, n)' <= mHighestAckedSeq[Peer(t)]
    BY <1>2 DEF MaskOK
  <2>1. AtSend(t, n) <= mHighestAckedSeq[Peer(t)]
    BY <1>14 DEF MaskOK
  <2>2. n \in mHighestAckedSeq[t] + 1 .. mLastSendSeq[t]
    BY <1>14, TypeFacts
  <2> QED BY <1>9, <1>10, <2>1, <2>2, PeerFacts
<1>15. \A t \in Side : MaskOK(t, mLastSeqRecvd[Peer(t)], mAckMask[Peer(t)])'
  <2> SUFFICES ASSUME NEW t \in Side
               PROVE  MaskOK(t, mLastSeqRecvd[Peer(t)], mAckMask[Peer(t)])'
    OBVIOUS
  <2>1. /\ mLastSeqRecvd[Peer(t)] \in Nat
        /\ mLastSeqRecvd[Peer(t)] <= mLastSendSeq[t]
        /\ MaskOK(t, mLastSeqRecvd[Peer(t)], mAckMask[Peer(t)])
    BY TypeFacts, PeerFacts DEF CountersInv, AckAckInv
  <2>2. /\ mLastSeqRecvd'[Peer(t)] = mLastSeqRecvd[Peer(t)]
        /\ mAckMask'[Peer(t)] = mAckMask[Peer(t)]
    BY <1>2
  <2> QED BY <1>14, <2>1, <2>2
<1>16. \A t \in Side : \A p \in net[t] : MaskOK(t, p.ack, p.mask)'
  <2> SUFFICES ASSUME NEW t \in Side, NEW p \in net[t] PROVE MaskOK(t, p.ack, p.mask)'
    OBVIOUS
  <2>1. p.ack \in Nat /\ p.ack <= mLastSeqRecvd[Peer(t)]
    BY TypeFacts DEF PacketsInv, PacketOK
  <2>2. p.ack <= mLastSendSeq[t]
    BY <2>1, TypeFacts, PeerFacts DEF CountersInv
  <2>3. MaskOK(t, p.ack, p.mask)
    BY DEF AckAckInv
  <2> QED BY <1>14, <2>1, <2>2, <2>3
<1>17. \A q \in net[Peer(s)] : /\ h.seq > q.seq => h.ack >= q.ack
                               /\ q.seq <= h.seq
  BY <1>1, <1>3, <1>4, PeerFacts, TypeFacts DEF PacketsInv, PacketOK
<1>18. RingOK(Peer(s), h)'
  BY <1>4, <1>11, PeerFacts DEF RingOK
<1>19. PacketsInv' /\ RingInv' /\ AckAckInv'
  <2>1. /\ h.seq = mLastSendSeq'[s] /\ h.ack = mLastSeqRecvd'[s]
        /\ h.bits >= mLastSeqRecvd'[s] - mLastRecvAckAck'[s]
        /\ h.mask \subseteq mAckMask'[s]
    BY <1>1, <1>2, <1>4, <1>7
  <2> QED
    BY <2>1, <1>4, <1>5, <1>6, <1>8, <1>12, <1>13, <1>15, <1>16, <1>17, <1>18,
       HeaderAdded
<1> QED BY <1>6, <1>8, <1>19

-----------------------------------------------------------------------------
(* The packets that a datagram confirms to its receiver.                   *)
Confirmed(s, p) ==
  {n \in mHighestAckedSeq[s] + 1 .. p.ack : p.ack - n \in p.mask}

(* A datagram that is received, with its numbers known to be right.        *)
LEMMA ReceiveFacts ==
  ASSUME WindowInv, NoWordWrap, ShortLived, NEW s \in Side, NEW p \in net[s],
         p \in Arriving(s), AcceptPacket(s, p)
  PROVE  /\ mLastSeqRecvd[s] <= p.seq
         /\ mHighestAckedSeq[s] <= p.ack
         /\ p.seq - mLastSeqRecvd[s] <= W - 1
         /\ HandleNotifies(s, p.ack, Confirmed(s, p))
         /\ mLastSeqRecvd' = [mLastSeqRecvd EXCEPT ![s] = p.seq]
         /\ mAckMask' = [mAckMask EXCEPT ![s] =
                           ShiftedMask(@, p.seq - mLastSeqRecvd[s], p.type)]
         /\ processed' = IF p.seq # mLastSeqRecvd[s] /\ p.type = "DataPacket"
                         THEN [processed EXCEPT ![Peer(s)] = @ \union {p.seq}]
                         ELSE processed
         /\ mPingSendCount' = [mPingSendCount EXCEPT ![s] = 0]
         /\ UNCHANGED <<connected, sendVars>>
         /\ \E confirmedAck \in AckAckOf(s, Confirmed(s, p)) :
              LET ackAck == WithinWindow(p.seq, confirmedAck)
                  h == Header("AckPacket", mLastSendSeq[s], p.seq, ackAck,
                              ShiftedMask(mAckMask[s], p.seq - mLastSeqRecvd[s],
                                          p.type))
              IN
              /\ mLastRecvAckAck' = [mLastRecvAckAck EXCEPT ![s] = ackAck]
              /\ \E answers \in Transmit(net[Peer(s)], h) \union {net[Peer(s)]} :
                   net' = [net EXCEPT ![s] = @ \ Overtaken(s, p),
                                      ![Peer(s)] = answers]
<1>1. /\ RebuiltSeq(s, p) = p.seq
      /\ RebuiltAck(s, p) = p.ack
      /\ mLastSeqRecvd[s] <= p.seq
      /\ mHighestAckedSeq[s] <= p.ack
      /\ p.seq - mLastSeqRecvd[s] <= W - 1
      /\ AckMaskRead(s, p) = {p.mask}
  BY AcceptedIsRight DEF AcceptPacket, WindowInv
<1>2. p.seq \in Nat /\ mLastSeqRecvd[s] \in Nat
  BY TypeFacts DEF WindowInv
<1>3. (p.seq - mLastSeqRecvd[s] # 0) <=> (p.seq # mLastSeqRecvd[s])
  BY <1>2
<1>4. PICK confirmedAck \in AckAckOf(s, Confirmed(s, p)) :
        LET ackAck == WithinWindow(p.seq, confirmedAck)
            mask == ShiftedMask(mAckMask[s], p.seq - mLastSeqRecvd[s], p.type)
        IN
        /\ HandleNotifies(s, p.ack, Confirmed(s, p))
        /\ mLastRecvAckAck' = [mLastRecvAckAck EXCEPT ![s] = ackAck]
        /\ mAckMask' = [mAckMask EXCEPT ![s] = mask]
        /\ mLastSeqRecvd' = [mLastSeqRecvd EXCEPT ![s] = p.seq]
        /\ processed' = IF p.seq - mLastSeqRecvd[s] # 0 /\ p.type = "DataPacket"
                        THEN [processed EXCEPT ![Peer(s)] = @ \union {p.seq}]
                        ELSE processed
        /\ mPingSendCount' = [mPingSendCount EXCEPT ![s] = 0]
        /\ \E answers \in
               IF Answers(s, p, p.seq, ackAck)
                 THEN Transmit(net[Peer(s)], Header("AckPacket", mLastSendSeq[s],
                                                    p.seq, ackAck, mask))
                 ELSE {net[Peer(s)]} :
             net' = [net EXCEPT ![s] = @ \ Overtaken(s, p), ![Peer(s)] = answers]
  <2> DEFINE
        A(pkSeq, pkAck, ok, confirmedAck) ==
          LET ackAck == WithinWindow(pkSeq, confirmedAck)
              mask == ShiftedMask(mAckMask[s], pkSeq - mLastSeqRecvd[s], p.type)
          IN
          /\ HandleNotifies(s, pkAck, ok)
          /\ mLastRecvAckAck' = [mLastRecvAckAck EXCEPT ![s] = ackAck]
          /\ mAckMask' = [mAckMask EXCEPT ![s] = mask]
          /\ mLastSeqRecvd' = [mLastSeqRecvd EXCEPT ![s] = pkSeq]
          /\ processed' = IF pkSeq - mLastSeqRecvd[s] # 0 /\ p.type = "DataPacket"
                          THEN [processed EXCEPT ![Peer(s)] = @ \union {p.seq}]
                          ELSE processed
          /\ mPingSendCount' = [mPingSendCount EXCEPT ![s] = 0]
          /\ \E answers \in
                 IF Answers(s, p, pkSeq, ackAck)
                   THEN Transmit(net[Peer(s)], Header("AckPacket", mLastSendSeq[s],
                                                      pkSeq, ackAck, mask))
                   ELSE {net[Peer(s)]} :
               net' = [net EXCEPT ![s] = @ \ Overtaken(s, p), ![Peer(s)] = answers]
        Ok(pkAck, mask) == {n \in mHighestAckedSeq[s] + 1 .. pkAck : pkAck - n \in mask}
  <2>1. \E pkAckMask \in AckMaskRead(s, p) :
          \E confirmedAck \in AckAckOf(s, Ok(RebuiltAck(s, p), pkAckMask)) :
            A(RebuiltSeq(s, p), RebuiltAck(s, p), Ok(RebuiltAck(s, p), pkAckMask),
              confirmedAck)
    BY Zenon DEF AcceptPacket
  <2> HIDE DEF A, Ok
  <2>2. \E confirmedAck \in AckAckOf(s, Ok(p.ack, p.mask)) :
          A(p.seq, p.ack, Ok(p.ack, p.mask), confirmedAck)
    BY <1>1, <2>1, Zenon
  <2>3. Ok(p.ack, p.mask) = Confirmed(s, p)
    BY Zenon DEF Ok, Confirmed
  <2>4. PICK confirmedAck \in AckAckOf(s, Confirmed(s, p)) :
          A(p.seq, p.ack, Confirmed(s, p), confirmedAck)
    BY <2>2, <2>3, Zenon
  <2> QED BY <2>4, Zenon DEF A
<1>5. UNCHANGED <<connected, sendVars>>
  BY DEF AcceptPacket
<1> DEFINE ackAck == WithinWindow(p.seq, confirmedAck)
           mask == ShiftedMask(mAckMask[s], p.seq - mLastSeqRecvd[s], p.type)
           h == Header("AckPacket", mLastSendSeq[s], p.seq, ackAck, mask)
<1>6. PICK answers \in Transmit(net[Peer(s)], h) \union {net[Peer(s)]} :
        net' = [net EXCEPT ![s] = @ \ Overtaken(s, p), ![Peer(s)] = answers]
  BY <1>4, Zenon
<1> QED BY <1>1, <1>3, <1>4, <1>5, <1>6, Zenon

(* What a side takes the peer to know, it does know.                       *)
LEMMA AckAckFacts ==
  ASSUME WindowInv, NEW s \in Side, NEW p \in net[s],
         mLastSeqRecvd[s] <= p.seq, mHighestAckedSeq[s] <= p.ack,
         p.seq - mLastSeqRecvd[s] <= W - 1,
         NEW confirmedAck \in AckAckOf(s, Confirmed(s, p))
  PROVE  LET ackAck == WithinWindow(p.seq, confirmedAck) IN
         /\ ackAck \in Int
         /\ ackAck <= mHighestAckedSeq[Peer(s)]
         /\ p.seq - ackAck <= W
<1>1. /\ p.seq \in Nat /\ p.ack \in Nat
      /\ mHighestAckedSeq[s] \in Nat /\ mLastRecvAckAck[s] \in Int
      /\ mHighestAckedSeq[Peer(s)] \in Nat /\ mLastSendSeq[Peer(s)] \in Nat
      /\ W \in Nat /\ W > 2
  BY TypeFacts, PeerFacts, NotifyAssumption DEF WindowInv, ConstantsAssumption
<1>2. confirmedAck \in Int /\ confirmedAck <= mHighestAckedSeq[Peer(s)]
  <2>1. CASE Confirmed(s, p) = {}
    BY <2>1, PeerFacts, TypeFacts DEF AckAckOf, WindowInv, CountersInv
  <2>2. CASE Confirmed(s, p) # {}
    <3>1. PICK n \in Latest(Confirmed(s, p)) : confirmedAck = AtSend(s, n)
      BY <2>2 DEF AckAckOf, AtSend
    <3>2. n \in mHighestAckedSeq[s] + 1 .. p.ack /\ p.ack - n \in p.mask
      BY DEF Latest, Confirmed
    <3>3. MaskOK(s, p.ack, p.mask)
      BY DEF WindowInv, AckAckInv
    <3>4. AtSend(s, n) <= mHighestAckedSeq[Peer(s)]
      BY <3>2, <3>3 DEF MaskOK
    <3>5. AtSend(s, n) \in Nat
      BY <3>2, <1>1, TypeFacts DEF WindowInv
    <3> QED BY <3>1, <3>4, <3>5
  <2> QED BY <2>1, <2>2
<1>3. /\ p.seq <= mLastSendSeq[Peer(s)]
      /\ mLastSendSeq[Peer(s)] - mHighestAckedSeq[Peer(s)] <= W - 2
  BY PeerFacts DEF WindowInv, PacketsInv, PacketOK, CountersInv
<1> QED BY <1>1, <1>2, <1>3 DEF WithinWindow

(* The mask of a side that has just received p answers for what it had     *)
(* answered before, and for p.                                             *)
LEMMA ShiftedMaskOK ==
  ASSUME WindowInv, NEW s \in Side, NEW p \in net[s],
         mLastSeqRecvd[s] <= p.seq, mHighestAckedSeq[s] <= p.ack,
         NEW n \in mHighestAckedSeq[Peer(s)] + 1 .. p.seq,
         p.seq - n \in ShiftedMask(mAckMask[s], p.seq - mLastSeqRecvd[s], p.type)
  PROVE  AtSend(Peer(s), n) <= p.ack
<1>1. /\ p.seq \in Nat /\ p.ack \in Nat /\ mLastSeqRecvd[s] \in Nat
      /\ mHighestAckedSeq[Peer(s)] \in Nat /\ mHighestAckedSeq[s] \in Nat
      /\ mAckMask[s] \subseteq Bits /\ n \in Nat
  BY TypeFacts, PeerFacts DEF WindowInv
<1>2. AtSend(Peer(s), n) \in Nat
  BY <1>1, TypeFacts, PeerFacts DEF WindowInv
<1>3. \/ p.seq - n - (p.seq - mLastSeqRecvd[s]) \in mAckMask[s]
      \/ p.seq - n = 0 /\ p.type = "DataPacket"
  BY DEF ShiftedMask
<1>4. CASE p.seq - n = 0 /\ p.type = "DataPacket"
  <2>1. n = p.seq /\ p.seq > mHighestAckedSeq[Peer(s)]
    BY <1>1, <1>4
  <2>2. p.ack = AtSend(Peer(s), p.seq)
    BY <2>1, <1>4 DEF WindowInv, RingInv, RingOK
  <2> QED BY <2>1, <2>2, <1>1
<1>5. CASE p.seq - n - (p.seq - mLastSeqRecvd[s]) \in mAckMask[s]
  <2>1. p.seq - n - (p.seq - mLastSeqRecvd[s]) = mLastSeqRecvd[s] - n
    BY <1>1
  <2>2. mLastSeqRecvd[s] - n \in mAckMask[s] /\ n <= mLastSeqRecvd[s]
    BY <2>1, <1>1, <1>5 DEF Bits
  <2>3. MaskOK(Peer(s), mLastSeqRecvd[s], mAckMask[s])
    BY PeerFacts DEF WindowInv, AckAckInv
  <2>4. n \in mHighestAckedSeq[Peer(s)] + 1 .. mLastSeqRecvd[s]
    BY <2>2, <1>1
  <2>5. AtSend(Peer(s), n) <= mHighestAckedSeq[s]
    BY <2>2, <2>3, <2>4, PeerFacts DEF MaskOK
  <2> QED BY <2>5, <1>1, <1>2
<1> QED BY <1>3, <1>4, <1>5

LEMMA ReceiveStep ==
  ASSUME WindowInv, NoWordWrap, ShortLived, NEW s \in Side, NEW p \in net[s],
         p \in Arriving(s), AcceptPacket(s, p)
  PROVE  WindowInv'
<1> DEFINE u == Peer(s)
           mask == ShiftedMask(mAckMask[s], p.seq - mLastSeqRecvd[s], p.type)
<1>1. /\ mLastSeqRecvd[s] <= p.seq /\ mHighestAckedSeq[s] <= p.ack
      /\ p.seq - mLastSeqRecvd[s] <= W - 1
      /\ received' = [received EXCEPT ![s] = @ \union Confirmed(s, p)]
      /\ mHighestAckedSeq' = [mHighestAckedSeq EXCEPT ![s] = p.ack]
      /\ mNotifyQueue' = [mNotifyQueue EXCEPT ![s] =
                            SubSeq(@, p.ack - mHighestAckedSeq[s] + 1, Len(@))]
      /\ mLastSeqRecvd' = [mLastSeqRecvd EXCEPT ![s] = p.seq]
      /\ mAckMask' = [mAckMask EXCEPT ![s] = mask]
      /\ \/ processed' = processed
         \/ processed' = [processed EXCEPT ![u] = @ \union {p.seq}]
      /\ mPingSendCount' = [mPingSendCount EXCEPT ![s] = 0]
      /\ connected' = connected
      /\ mLastSendSeq' = mLastSendSeq
      /\ mLastSeqRecvdAtSend' = mLastSeqRecvdAtSend
  BY ReceiveFacts DEF HandleNotifies, sendVars
<1>2. PICK confirmedAck \in AckAckOf(s, Confirmed(s, p)) :
        LET ackAck == WithinWindow(p.seq, confirmedAck)
            h == Header("AckPacket", mLastSendSeq[s], p.seq, ackAck, mask)
        IN
        /\ mLastRecvAckAck' = [mLastRecvAckAck EXCEPT ![s] = ackAck]
        /\ \E answers \in Transmit(net[u], h) \union {net[u]} :
             net' = [net EXCEPT ![s] = @ \ Overtaken(s, p), ![u] = answers]
  BY ReceiveFacts
<1>3. PICK ackAck : ackAck = WithinWindow(p.seq, confirmedAck)
  OBVIOUS
<1>4. /\ ackAck \in Int /\ ackAck <= mHighestAckedSeq[u]
      /\ p.seq - ackAck <= W
  BY <1>1, <1>3, AckAckFacts
<1>5. /\ p.seq \in Nat /\ p.ack \in Nat /\ p.mask \subseteq Bits
      /\ mLastSendSeq[s] \in Nat /\ mLastSeqRecvd[s] \in Nat
      /\ mHighestAckedSeq[s] \in Nat
      /\ mask \subseteq Bits
      /\ mLastSendSeq[u] \in Nat /\ mLastSeqRecvd[u] \in Nat
      /\ mHighestAckedSeq[u] \in Nat /\ mLastRecvAckAck[u] \in Int
      /\ MaxSeq[s] \in Nat /\ W \in Nat /\ W > 2
  BY TypeFacts, PeerFacts, NotifyAssumption
     DEF WindowInv, ShiftedMask, ConstantsAssumption
<1>6. mHighestAckedSeq[u] <= p.seq
  BY <1>1, <1>5, PeerFacts DEF WindowInv, CountersInv
<1> HIDE DEF mask, u
<1>7. PICK h \in Packet(Nat, Nat) :
        /\ h = Header("AckPacket", mLastSendSeq[s], p.seq, ackAck, mask)
        /\ h.type = "AckPacket" /\ h.seq = mLastSendSeq[s] /\ h.ack = p.seq
        /\ h.bits >= p.seq - ackAck
        /\ h.mask \subseteq mask
  <2>1. ackAck <= p.seq
    BY <1>4, <1>5, <1>6
  <2>2. "AckPacket" \in PacketType
    BY DEF PacketType
  <2> QED BY <2>1, <2>2, <1>4, <1>5, HeaderFacts
<1>8. PICK answers \in Transmit(net[u], h) \union {net[u]} :
        /\ mLastRecvAckAck' = [mLastRecvAckAck EXCEPT ![s] = ackAck]
        /\ net' = [net EXCEPT ![s] = @ \ Overtaken(s, p), ![u] = answers]
  BY <1>2, <1>3, <1>7
<1>9. answers \subseteq net[u] \union {h}
  BY <1>8, TransmitAdds
<1>10. u \in Side /\ u # s /\ Peer(u) = s /\ Peer(s) = u /\ Side = {s, u}
  BY PeerFacts DEF u
<1>11. /\ net' \in [Side -> SUBSET Packet(Nat, Nat)]
       /\ net'[s] \subseteq net[s]
       /\ net'[u] \subseteq net[u] \union {h}
  BY <1>8, <1>9, <1>10 DEF WindowInv, TypeOK
<1>12. TypeOK'
  <2>1. mNotifyQueue' \in [Side -> Seq(Nat)]
    <3>1. mNotifyQueue[s] \in Seq(Nat) /\ mNotifyQueue \in [Side -> Seq(Nat)]
      BY DEF WindowInv, TypeOK
    <3>2. p.ack - mHighestAckedSeq[s] + 1 \in Nat \ {0}
      BY <1>1, <1>5
    <3>3. SubSeq(mNotifyQueue[s], p.ack - mHighestAckedSeq[s] + 1,
                 Len(mNotifyQueue[s])) \in Seq(Nat)
      BY <3>1, <3>2
    <3> QED BY <1>1, <3>1, <3>3
  <2>2. /\ received' \in [Side -> SUBSET Nat]
        /\ processed' \in [Side -> SUBSET Nat]
    <3>1. Confirmed(s, p) \subseteq Nat
      BY <1>5 DEF Confirmed
    <3>2. /\ received \in [Side -> SUBSET Nat]
          /\ processed \in [Side -> SUBSET Nat]
      BY DEF WindowInv, TypeOK
    <3>3. received' \in [Side -> SUBSET Nat]
      BY <1>1, <3>1, <3>2
    <3>4. processed' \in [Side -> SUBSET Nat]
      BY <1>1, <1>5, <1>10, <3>2
    <3> QED BY <3>3, <3>4
  <2>3. mPingSendCount' \in [Side -> 0 .. PingRetryCount]
    BY <1>1, NotifyAssumption DEF WindowInv, TypeOK, ConstantsAssumption
  <2>4. mAckMask' \in [Side -> SUBSET Bits]
    BY <1>1, <1>5 DEF WindowInv, TypeOK
  <2>5. /\ mHighestAckedSeq' \in [Side -> Nat]
        /\ mLastSeqRecvd' \in [Side -> Nat]
        /\ mLastRecvAckAck' \in [Side -> Int]
    BY <1>1, <1>4, <1>5, <1>8 DEF WindowInv, TypeOK
  <2>6. /\ connected' \in [Side -> BOOLEAN]
        /\ mLastSendSeq' \in [Side -> Nat]
        /\ mLastSeqRecvdAtSend' \in [Side -> [Bits -> Nat]]
    BY <1>1 DEF WindowInv, TypeOK
  <2> QED BY <1>11, <2>1, <2>2, <2>3, <2>4, <2>5, <2>6 DEF TypeOK
<1>13. /\ mLastSendSeq' = mLastSendSeq
       /\ mHighestAckedSeq'[s] = p.ack
       /\ mHighestAckedSeq'[u] = mHighestAckedSeq[u]
       /\ mLastSeqRecvd'[s] = p.seq
       /\ mLastSeqRecvd'[u] = mLastSeqRecvd[u]
       /\ mLastRecvAckAck'[s] = ackAck
       /\ mLastRecvAckAck'[u] = mLastRecvAckAck[u]
       /\ mAckMask'[s] = mask
       /\ mAckMask'[u] = mAckMask[u]
       /\ \A t, n : AtSend(t, n)' = AtSend(t, n)
  BY <1>1, <1>8, <1>10 DEF WindowInv, TypeOK, AtSend
<1>14. PacketOK(s, p) /\ RingOK(s, p)
  BY DEF WindowInv, PacketsInv, RingInv
<1>15. CountersInv'
  <2> SUFFICES ASSUME NEW t \in Side
               PROVE  /\ mHighestAckedSeq'[t] <= mLastSeqRecvd'[Peer(t)]
                      /\ mLastSeqRecvd'[Peer(t)] <= mLastSendSeq[t]
                      /\ mLastSendSeq[t] <= MaxSeq[t]
                      /\ mLastSendSeq[t] - mHighestAckedSeq'[t] <= W - 2
                      /\ mLastRecvAckAck'[t] <= mHighestAckedSeq'[Peer(t)]
                      /\ mLastSeqRecvd'[t] - mLastRecvAckAck'[t] <= W
    BY <1>13 DEF CountersInv
  <2>1. /\ mHighestAckedSeq[t] <= mLastSeqRecvd[Peer(t)]
        /\ mLastSeqRecvd[Peer(t)] <= mLastSendSeq[t]
        /\ mLastSendSeq[t] <= MaxSeq[t]
        /\ mLastSendSeq[t] - mHighestAckedSeq[t] <= W - 2
        /\ mLastRecvAckAck[t] <= mHighestAckedSeq[Peer(t)]
        /\ mLastSeqRecvd[t] - mLastRecvAckAck[t] <= W
    BY DEF WindowInv, CountersInv
  <2>2. CASE t = s
    <3>1. Peer(t) = u
      BY <2>2, <1>10
    <3>2. /\ mHighestAckedSeq'[t] = p.ack
          /\ mHighestAckedSeq'[Peer(t)] = mHighestAckedSeq[u]
          /\ mLastSeqRecvd'[t] = p.seq
          /\ mLastSeqRecvd'[Peer(t)] = mLastSeqRecvd[u]
          /\ mLastRecvAckAck'[t] = ackAck
      BY <2>2, <3>1, <1>13
    <3>3. p.ack <= mLastSeqRecvd[u]
      BY <1>10, <1>14 DEF PacketOK
    <3>4. /\ mLastSendSeq[s] - mHighestAckedSeq[s] <= W - 2
          /\ mLastSeqRecvd[u] <= mLastSendSeq[s]
          /\ mLastSendSeq[s] <= MaxSeq[s]
      BY <2>1, <2>2, <3>1
    <3>5. mLastSendSeq[s] - p.ack <= W - 2
      BY <3>4, <1>1, <1>5
    <3> QED BY <2>2, <3>2, <3>3, <3>4, <3>5, <1>4
  <2>3. CASE t = u
    <3>1. Peer(t) = s
      BY <2>3, <1>10
    <3>2. /\ mHighestAckedSeq'[t] = mHighestAckedSeq[u]
          /\ mHighestAckedSeq'[Peer(t)] = p.ack
          /\ mLastSeqRecvd'[t] = mLastSeqRecvd[u]
          /\ mLastSeqRecvd'[Peer(t)] = p.seq
          /\ mLastRecvAckAck'[t] = mLastRecvAckAck[u]
      BY <2>3, <3>1, <1>13
    <3>3. p.seq <= mLastSendSeq[u]
      BY <1>10, <1>14 DEF PacketOK
    <3>4. /\ mLastSendSeq[u] <= MaxSeq[u]
          /\ mLastSendSeq[u] - mHighestAckedSeq[u] <= W - 2
          /\ mLastRecvAckAck[u] <= mHighestAckedSeq[s]
          /\ mLastSeqRecvd[u] - mLastRecvAckAck[u] <= W
      BY <2>1, <2>3, <3>1
    <3>5. mLastRecvAckAck[u] <= p.ack
      BY <3>4, <1>1, <1>5
    <3> QED BY <2>3, <3>2, <3>3, <3>4, <3>5, <1>6
  <2> QED BY <2>2, <2>3, <1>10
<1>16. \A t \in Side : \A q \in net[t] : PacketOK(t, q)'
  <2> SUFFICES ASSUME NEW t \in Side, NEW q \in net[t] PROVE PacketOK(t, q)'
    OBVIOUS
  <2>1. /\ PacketOK(t, q)
        /\ q.seq \in Nat /\ q.ack \in Nat /\ q.bits \in Nat
    BY TypeFacts DEF WindowInv, PacketsInv
  <2>2. CASE t = s
    <3>1. q.seq > p.seq => q.ack >= p.ack
      BY <2>2 DEF WindowInv, PacketsInv
    <3>2. /\ q.seq <= mLastSendSeq[u] /\ q.ack <= mLastSeqRecvd[u]
          /\ q.ack - q.bits <= mHighestAckedSeq[s]
      BY <2>1, <2>2, <1>10 DEF PacketOK
    <3>3. q.ack - q.bits <= p.ack
      <4>1. /\ mHighestAckedSeq[s] <= p.ack
            /\ mHighestAckedSeq[s] \in Nat /\ p.ack \in Nat
        BY <1>1, <1>5
      <4> QED BY <3>2, <2>1, <4>1
    <3> QED BY <2>2, <3>1, <3>2, <3>3, <1>10, <1>13 DEF PacketOK
  <2>3. CASE t = u
    BY <2>1, <2>3, <1>1, <1>5, <1>10, <1>13 DEF PacketOK
  <2> QED BY <2>2, <2>3, <1>10
<1>17. \A t \in Side : \A q \in net[t] : RingOK(t, q)'
  <2> SUFFICES ASSUME NEW t \in Side, NEW q \in net[t] PROVE RingOK(t, q)'
    OBVIOUS
  <2>1. RingOK(t, q) /\ q.seq \in Nat
    BY TypeFacts DEF WindowInv, RingInv
  <2>2. mHighestAckedSeq[Peer(t)] <= mHighestAckedSeq'[Peer(t)]
    BY <1>1, <1>5, <1>10, <1>13
  <2>3. /\ mHighestAckedSeq[Peer(t)] \in Nat
        /\ mHighestAckedSeq'[Peer(t)] \in Nat
    BY <1>5, <1>10, <1>13
  <2> QED BY <2>1, <2>2, <2>3, <1>13 DEF RingOK
<1>18. ASSUME NEW t \in Side, NEW last \in Nat, NEW m, MaskOK(t, last, m)
       PROVE  MaskOK(t, last, m)'
  <2> SUFFICES ASSUME NEW n \in mHighestAckedSeq'[t] + 1 .. last, last - n \in m
               PROVE  AtSend(t, n) <= mHighestAckedSeq'[Peer(t)]
    BY <1>13 DEF MaskOK
  <2>1. /\ mHighestAckedSeq[t] <= mHighestAckedSeq'[t]
        /\ mHighestAckedSeq[Peer(t)] <= mHighestAckedSeq'[Peer(t)]
        /\ mHighestAckedSeq[t] \in Nat /\ mHighestAckedSeq'[t] \in Nat
        /\ mHighestAckedSeq[Peer(t)] \in Nat /\ mHighestAckedSeq'[Peer(t)] \in Nat
    BY <1>1, <1>5, <1>10, <1>13
  <2>2. n \in mHighestAckedSeq[t] + 1 .. last
    BY <2>1
  <2>3. AtSend(t, n) <= mHighestAckedSeq[Peer(t)]
    BY <2>2, <1>18 DEF MaskOK
  <2>4. AtSend(t, n) \in Nat
    BY <2>1, TypeFacts DEF WindowInv
  <2> QED BY <2>1, <2>3, <2>4
<1>19. \A t \in Side : \A q \in net[t] : MaskOK(t, q.ack, q.mask)'
  BY <1>18, TypeFacts DEF WindowInv, AckAckInv
<1>20. \A t \in Side : MaskOK(t, mLastSeqRecvd[Peer(t)], mAckMask[Peer(t)])'
  <2>1. MaskOK(s, mLastSeqRecvd[u], mAckMask[u])'
    BY <1>5, <1>10, <1>13, <1>18 DEF WindowInv, AckAckInv
  <2>2. MaskOK(u, mLastSeqRecvd[s], mAckMask[s])'
    BY <1>1, <1>10, <1>13, ShiftedMaskOK DEF MaskOK, mask, u
  <2> QED BY <2>1, <2>2, <1>10
<1>21. \A q \in net[u] : /\ h.seq > q.seq => h.ack >= q.ack
                         /\ q.seq <= h.seq
  <2> SUFFICES ASSUME NEW q \in net[u]
               PROVE  q.seq <= h.seq /\ q.ack <= h.ack
    BY <1>7, <1>5, <1>10, TypeFacts DEF WindowInv
  <2>1. q.seq <= mLastSendSeq[s] /\ q.ack <= mLastSeqRecvd[s]
    BY <1>10 DEF WindowInv, PacketsInv, PacketOK
  <2>2. q.ack \in Nat
    BY <1>10, TypeFacts DEF WindowInv
  <2> QED BY <2>1, <2>2, <1>1, <1>5, <1>7
<1>22. RingOK(u, h)'
  BY <1>7 DEF RingOK
<1>23. PacketsInv' /\ RingInv' /\ AckAckInv'
  <2>1. /\ h.seq = mLastSendSeq'[s] /\ h.ack = mLastSeqRecvd'[s]
        /\ h.bits >= mLastSeqRecvd'[s] - mLastRecvAckAck'[s]
        /\ h.mask \subseteq mAckMask'[s]
    BY <1>7, <1>13
  <2> QED
    BY <2>1, <1>11, <1>12, <1>15, <1>16, <1>17, <1>19, <1>20, <1>21, <1>22, <1>10,
       HeaderAdded DEF WindowInv
<1> QED BY <1>12, <1>15, <1>23 DEF WindowInv

(* Giving a connection up touches no counter and no datagram.              *)
LEMMA TimeOutStep ==
  ASSUME WindowInv, NEW s \in Side, TimeOut(s)
  PROVE  WindowInv'
<1>1. TypeOK'
  <2>1. /\ connected' \in [Side -> BOOLEAN]
        /\ mNotifyQueue' \in [Side -> Seq(Nat)]
    BY DEF TimeOut, WindowInv, TypeOK
  <2> QED BY <2>1 DEF TimeOut, WindowInv, TypeOK, sendVars, recvVars
<1>2. CountersInv'
  BY DEF TimeOut, WindowInv, CountersInv, sendVars, recvVars
<1>3. PacketsInv' /\ RingInv' /\ AckAckInv'
  BY DEF TimeOut, WindowInv, PacketsInv, PacketOK, RingInv, RingOK, AckAckInv,
         MaskOK, AtSend, sendVars, recvVars
<1> QED BY <1>1, <1>2, <1>3 DEF WindowInv

LEMMA WindowStep ==
  ASSUME WindowInv, NoWordWrap, ShortLived, [Next]_vars
  PROVE  WindowInv'
<1>1. ASSUME NEW s \in Side, SendData(s) PROVE WindowInv'
  BY <1>1, SendDataStep
<1>2. ASSUME NEW s \in Side, SendAck(s) PROVE WindowInv'
  <2>1. /\ SendTo(Peer(s), HeaderOf(s, "AckPacket", mLastSendSeq[s]))
        /\ UNCHANGED <<connected, sendVars, ackVars, recvVars, mPingSendCount>>
    BY <1>2 DEF SendAck
  <2>2. mPingSendCount' \in [Side -> 0 .. PingRetryCount]
    BY <2>1 DEF WindowInv, TypeOK
  <2> QED BY <2>1, <2>2, ControlStep DEF PacketType
<1>3. ASSUME NEW s \in Side, SendPing(s) PROVE WindowInv'
  <2>1. /\ mPingSendCount[s] < PingRetryCount
        /\ mPingSendCount' = [mPingSendCount EXCEPT ![s] = @ + 1]
        /\ SendTo(Peer(s), HeaderOf(s, "PingPacket", mLastSendSeq[s]))
        /\ UNCHANGED <<connected, sendVars, ackVars, recvVars>>
    BY <1>3 DEF SendPing
  <2>2. mPingSendCount' \in [Side -> 0 .. PingRetryCount]
    BY <2>1, NotifyAssumption DEF WindowInv, TypeOK, ConstantsAssumption
  <2> QED BY <2>1, <2>2, ControlStep DEF PacketType
<1>4. ASSUME NEW s \in Side, TimeOut(s) PROVE WindowInv'
  BY <1>4, TimeOutStep
<1>5. ASSUME NEW s \in Side, ReceivePacket(s) PROVE WindowInv'
  BY <1>5, ReceiveStep DEF ReceivePacket, Arriving
<1>6. CASE UNCHANGED vars
  BY <1>6 DEF vars, sendVars, ackVars, recvVars, WindowInv, TypeOK, CountersInv,
              PacketsInv, PacketOK, RingInv, RingOK, AckAckInv, MaskOK, AtSend
<1> QED BY <1>1, <1>2, <1>3, <1>4, <1>5, <1>6 DEF Next

(* Whatever the network loses, repeats or reorders, as long as nothing     *)
(* arrives a lap of its numbers late, the counters, the ring buffer and    *)
(* the ack masks of the two ends stay in step.                             *)
THEOREM WindowInvariant ==
  ASSUME NoWordWrap, ShortLived
  PROVE  Spec => []WindowInv
<1>1. Init => WindowInv
  BY InitInv DEF IInv
<1>2. WindowInv /\ [Next]_vars => WindowInv'
  BY WindowStep
<1> QED BY <1>1, <1>2, PTL DEF Spec

(* TypeOK: every variable keeps its type.                                  *)
THEOREM TypeCorrect ==
  ASSUME NoWordWrap, ShortLived
  PROVE  Spec => []TypeOK
<1>1. WindowInv => TypeOK
  BY DEF WindowInv
<1> QED BY <1>1, WindowInvariant, PTL

LEMMA CountersBound ==
  ASSUME WindowInv
  PROVE  WindowBounds /\ AckAckSafe
<1> SUFFICES ASSUME NEW s \in Side
             PROVE  /\ mHighestAckedSeq[s] <= mLastSeqRecvd[Peer(s)]
                    /\ mLastSeqRecvd[Peer(s)] <= mLastSendSeq[s]
                    /\ mLastSendSeq[s] - mHighestAckedSeq[s] <= W - 2
                    /\ mLastSeqRecvd[s] - mLastRecvAckAck[s] \in 0 .. W
                    /\ mLastRecvAckAck[s] <= mHighestAckedSeq[Peer(s)]
  BY DEF WindowBounds, AckAckSafe
<1>1. /\ mHighestAckedSeq[s] <= mLastSeqRecvd[Peer(s)]
      /\ mLastSeqRecvd[Peer(s)] <= mLastSendSeq[s]
      /\ mLastSendSeq[s] - mHighestAckedSeq[s] <= W - 2
      /\ mLastSeqRecvd[s] - mLastRecvAckAck[s] <= W
      /\ mLastRecvAckAck[s] <= mHighestAckedSeq[Peer(s)]
      /\ mHighestAckedSeq[Peer(s)] <= mLastSeqRecvd[s]
  BY PeerFacts DEF WindowInv, CountersInv
<1>2. /\ mLastSeqRecvd[s] \in Nat /\ mLastRecvAckAck[s] \in Int
      /\ mHighestAckedSeq[Peer(s)] \in Nat /\ W \in Nat
  BY TypeFacts, PeerFacts, NotifyAssumption DEF WindowInv, ConstantsAssumption
<1> QED BY <1>1, <1>2

(* WindowBounds: a sender never has more than W - 2 unanswered packets,    *)
(* and writePacketHeader never has more than W ack bits to write.          *)
THEOREM WindowsBounded ==
  ASSUME NoWordWrap, ShortLived
  PROVE  Spec => []WindowBounds
<1>1. WindowInv => WindowBounds
  BY CountersBound
<1> QED BY <1>1, WindowInvariant, PTL

(* AckAckSafe: a side stops repeating an ack bit only when the peer has    *)
(* had it; mLastSeqRecvdAtSend, indexed by the sequence number modulo W,   *)
(* never yields what another packet stored there.                          *)
THEOREM AckAcksSafe ==
  ASSUME NoWordWrap, ShortLived
  PROVE  Spec => []AckAckSafe
<1>1. WindowInv => AckAckSafe
  BY CountersBound
<1> QED BY <1>1, WindowInvariant, PTL

(* RebuiltRight: readPacketHeader reads every datagram that it accepts     *)
(* with its true numbers, as long as none arrives a lap of them late.      *)
THEOREM NumbersRebuiltRight ==
  ASSUME NoWordWrap, ShortLived
  PROVE  Spec => []RebuiltRight
<1>1. WindowInv => RebuiltRight
  BY AcceptedIsRight DEF WindowInv, RebuiltRight, Arriving
<1> QED BY <1>1, WindowInvariant, PTL

(* AckBitsCovered: readPacketHeader never consults an ack bit that the     *)
(* peer did not write.                                                     *)
THEOREM AckBitsAllWritten ==
  ASSUME NoWordWrap, ShortLived
  PROVE  Spec => []AckBitsCovered
<1>1. WindowInv => AckBitsCovered
  <2> SUFFICES ASSUME WindowInv, NEW s \in Side, NEW p \in net[s],
                      p \in Arriving(s), Accepts(s, p)
               PROVE  RebuiltAck(s, p) - mHighestAckedSeq[s] <= p.bits
    BY DEF AckBitsCovered, Arriving
  <2>1. RebuiltAck(s, p) = p.ack
    BY AcceptedIsRight DEF WindowInv
  <2>2. p.ack - p.bits <= mHighestAckedSeq[s]
    BY DEF WindowInv, PacketsInv, PacketOK
  <2>3. /\ p.ack \in Nat /\ p.bits \in Nat /\ mHighestAckedSeq[s] \in Nat
    BY TypeFacts DEF WindowInv
  <2> QED BY <2>1, <2>2, <2>3
<1> QED BY <1>1, WindowInvariant, PTL

-----------------------------------------------------------------------------
(* The queue of notes.                                                     *)

(* The notes of one side: those of the packets after acked up to sent.     *)
Notes(queue, acked, sent) ==
  /\ Len(queue) = sent - acked
  /\ \A i \in 1 .. Len(queue) : queue[i] = acked + i

LEMMA NotesAppend ==
  ASSUME NEW queue \in Seq(Nat), NEW acked \in Nat, NEW sent \in Nat,
         Notes(queue, acked, sent)
  PROVE  Notes(Append(queue, sent + 1), acked, sent + 1)
<1>1. Len(Append(queue, sent + 1)) = sent + 1 - acked
  BY DEF Notes
<1>2. ASSUME NEW i \in 1 .. Len(Append(queue, sent + 1))
      PROVE  Append(queue, sent + 1)[i] = acked + i
  <2>1. CASE i = Len(queue) + 1
    BY <2>1 DEF Notes
  <2>2. CASE i \in 1 .. Len(queue)
    BY <2>2 DEF Notes
  <2> QED BY <2>1, <2>2
<1> QED BY <1>1, <1>2 DEF Notes

LEMMA NotesPop ==
  ASSUME NEW queue \in Seq(Nat), NEW acked \in Nat, NEW sent \in Nat,
         Notes(queue, acked, sent), NEW now \in acked .. sent
  PROVE  Notes(SubSeq(queue, now - acked + 1, Len(queue)), now, sent)
<1> DEFINE rest == SubSeq(queue, now - acked + 1, Len(queue))
<1>1. /\ Len(queue) = sent - acked
      /\ now - acked + 1 \in 1 .. Len(queue) + 1
  BY DEF Notes
<1>2. /\ Len(rest) = sent - now
      /\ \A i \in 1 .. Len(rest) : rest[i] = queue[now - acked + i]
  BY <1>1
<1>3. \A i \in 1 .. Len(rest) : rest[i] = now + i
  BY <1>1, <1>2 DEF Notes
<1> QED BY <1>2, <1>3 DEF Notes

LEMMA NotesStep ==
  ASSUME WindowInv, NoWordWrap, ShortLived, NotesMatch, [Next]_vars
  PROVE  NotesMatch'
<1>1. ASSUME NEW t \in Side
      PROVE  /\ mNotifyQueue[t] \in Seq(Nat)
             /\ mLastSendSeq[t] \in Nat /\ mHighestAckedSeq[t] \in Nat
             /\ connected[t]
                  => Notes(mNotifyQueue[t], mHighestAckedSeq[t], mLastSendSeq[t])
  BY DEF WindowInv, TypeOK, NotesMatch, Notes
<1> SUFFICES ASSUME NEW t \in Side, connected'[t]
             PROVE  Notes(mNotifyQueue'[t], mHighestAckedSeq'[t], mLastSendSeq'[t])
  BY DEF NotesMatch, Notes
<1>2. ASSUME connected' = connected, mNotifyQueue'[t] = mNotifyQueue[t],
             mHighestAckedSeq'[t] = mHighestAckedSeq[t],
             mLastSendSeq'[t] = mLastSendSeq[t]
      PROVE  Notes(mNotifyQueue'[t], mHighestAckedSeq'[t], mLastSendSeq'[t])
  BY <1>1, <1>2
<1>3. ASSUME NEW s \in Side, SendData(s)
      PROVE  Notes(mNotifyQueue'[t], mHighestAckedSeq'[t], mLastSendSeq'[t])
  <2>1. /\ mLastSendSeq' = [mLastSendSeq EXCEPT ![s] = @ + 1]
        /\ mNotifyQueue' = [mNotifyQueue EXCEPT ![s] =
                              Append(@, mLastSendSeq[s] + 1)]
        /\ connected' = connected /\ mHighestAckedSeq' = mHighestAckedSeq
    BY <1>3 DEF SendData
  <2>2. CASE t = s
    <3>1. /\ mLastSendSeq'[t] = mLastSendSeq[t] + 1
          /\ mNotifyQueue'[t] = Append(mNotifyQueue[t], mLastSendSeq[t] + 1)
      BY <2>1, <2>2 DEF WindowInv, TypeOK
    <3> QED BY <2>1, <3>1, <1>1, NotesAppend
  <2>3. CASE t # s
    BY <1>2, <2>1, <2>3 DEF WindowInv, TypeOK
  <2> QED BY <2>2, <2>3
<1>4. ASSUME NEW s \in Side, SendAck(s) \/ SendPing(s)
      PROVE  Notes(mNotifyQueue'[t], mHighestAckedSeq'[t], mLastSendSeq'[t])
  BY <1>2, <1>4 DEF SendAck, SendPing, sendVars, ackVars
<1>5. ASSUME NEW s \in Side, TimeOut(s)
      PROVE  Notes(mNotifyQueue'[t], mHighestAckedSeq'[t], mLastSendSeq'[t])
  <2>1. /\ connected' = [connected EXCEPT ![s] = FALSE]
        /\ mNotifyQueue' = [mNotifyQueue EXCEPT ![s] = << >>]
        /\ mHighestAckedSeq' = mHighestAckedSeq /\ mLastSendSeq' = mLastSendSeq
    BY <1>5 DEF TimeOut, sendVars
  <2>2. t # s /\ connected[t] /\ mNotifyQueue'[t] = mNotifyQueue[t]
    BY <2>1 DEF WindowInv, TypeOK
  <2> QED BY <1>1, <2>1, <2>2
<1>6. ASSUME NEW s \in Side, ReceivePacket(s)
      PROVE  Notes(mNotifyQueue'[t], mHighestAckedSeq'[t], mLastSendSeq'[t])
  <2>1. PICK p \in net[s] : p \in Arriving(s) /\ AcceptPacket(s, p)
    BY <1>6 DEF ReceivePacket, Arriving
  <2>2. /\ mHighestAckedSeq[s] <= p.ack
        /\ mHighestAckedSeq' = [mHighestAckedSeq EXCEPT ![s] = p.ack]
        /\ mNotifyQueue' = [mNotifyQueue EXCEPT ![s] =
                              SubSeq(@, p.ack - mHighestAckedSeq[s] + 1, Len(@))]
        /\ connected' = connected /\ mLastSendSeq' = mLastSendSeq
    BY <2>1, ReceiveFacts DEF HandleNotifies, sendVars
  <2>3. p.ack \in mHighestAckedSeq[s] .. mLastSendSeq[s]
    <3>1. p.ack <= mLastSeqRecvd[Peer(s)] /\ mLastSeqRecvd[Peer(s)] <= mLastSendSeq[s]
      BY DEF WindowInv, PacketsInv, PacketOK, CountersInv
    <3>2. /\ p.ack \in Nat /\ mLastSeqRecvd[Peer(s)] \in Nat
          /\ mLastSendSeq[s] \in Nat /\ mHighestAckedSeq[s] \in Nat
      BY TypeFacts, PeerFacts DEF WindowInv
    <3> QED BY <2>2, <3>1, <3>2
  <2>4. CASE t = s
    <3>1. /\ mHighestAckedSeq'[t] = p.ack
          /\ mNotifyQueue'[t] = SubSeq(mNotifyQueue[t],
                                       p.ack - mHighestAckedSeq[t] + 1,
                                       Len(mNotifyQueue[t]))
      BY <2>2, <2>4 DEF WindowInv, TypeOK
    <3>2. Notes(mNotifyQueue[t], mHighestAckedSeq[t], mLastSendSeq[t])
      BY <1>1, <2>2
    <3>3. Notes(SubSeq(mNotifyQueue[t], p.ack - mHighestAckedSeq[t] + 1,
                       Len(mNotifyQueue[t])), p.ack, mLastSendSeq[t])
      BY <1>1, <2>3, <2>4, <3>2, NotesPop
    <3> QED BY <2>2, <3>1, <3>3
  <2>5. CASE t # s
    BY <1>2, <2>2, <2>5 DEF WindowInv, TypeOK
  <2> QED BY <2>4, <2>5
<1>7. CASE UNCHANGED vars
  BY <1>2, <1>7 DEF vars, sendVars, ackVars
<1> QED BY <1>3, <1>4, <1>5, <1>6, <1>7 DEF Next

(* NotesMatch: handleNotify finds the note of the packet it is called for. *)
THEOREM NotesAlwaysMatch ==
  ASSUME NoWordWrap, ShortLived
  PROVE  Spec => []NotesMatch
<1>1. Init => WindowInv /\ NotesMatch
  BY InitInv DEF IInv
<1>2. WindowInv /\ NotesMatch /\ [Next]_vars => WindowInv' /\ NotesMatch'
  BY WindowStep, NotesStep
<1> QED BY <1>1, <1>2, PTL DEF Spec

LEMMA NoteForEachNotify ==
  ASSUME WindowInv, NoWordWrap, ShortLived, NotesMatch, Next, NEW t \in Side
  PROVE  mHighestAckedSeq'[t] - mHighestAckedSeq[t] <= Len(mNotifyQueue[t])
<1>1. /\ mNotifyQueue[t] \in Seq(Nat)
      /\ mLastSendSeq[t] \in Nat /\ mHighestAckedSeq[t] \in Nat
  BY DEF WindowInv, TypeOK
<1>2. ASSUME mHighestAckedSeq'[t] = mHighestAckedSeq[t]
      PROVE  mHighestAckedSeq'[t] - mHighestAckedSeq[t] <= Len(mNotifyQueue[t])
  BY <1>1, <1>2
<1>3. ASSUME NEW s \in Side, ReceivePacket(s)
      PROVE  mHighestAckedSeq'[t] - mHighestAckedSeq[t] <= Len(mNotifyQueue[t])
  <2>1. PICK p \in net[s] : p \in Arriving(s) /\ AcceptPacket(s, p)
    BY <1>3 DEF ReceivePacket, Arriving
  <2>2. mHighestAckedSeq' = [mHighestAckedSeq EXCEPT ![s] = p.ack]
    BY <2>1, ReceiveFacts DEF HandleNotifies
  <2>3. CASE t = s
    <3>1. p.ack <= mLastSeqRecvd[Peer(s)] /\ mLastSeqRecvd[Peer(s)] <= mLastSendSeq[s]
      BY DEF WindowInv, PacketsInv, PacketOK, CountersInv
    <3>2. p.ack \in Nat /\ mLastSeqRecvd[Peer(s)] \in Nat
      BY TypeFacts, PeerFacts DEF WindowInv
    <3>3. Len(mNotifyQueue[t]) = mLastSendSeq[t] - mHighestAckedSeq[t]
      BY <1>3, <2>3 DEF NotesMatch, ReceivePacket
    <3>4. mHighestAckedSeq'[t] = p.ack
      BY <2>2, <2>3 DEF WindowInv, TypeOK
    <3> QED BY <1>1, <2>3, <3>1, <3>2, <3>3, <3>4
  <2>4. CASE t # s
    BY <1>2, <2>2, <2>4 DEF WindowInv, TypeOK
  <2> QED BY <2>3, <2>4
<1> QED
  BY <1>2, <1>3 DEF Next, SendData, SendAck, SendPing, TimeOut, ackVars

(* NotifyHasNote: no call of handleNotify finds the queue empty.           *)
THEOREM NotifiesHaveNotes ==
  ASSUME NoWordWrap, ShortLived
  PROVE  Spec => NotifyHasNote
<1>1. WindowInv /\ NotesMatch /\ [Next]_vars
        => [\A s \in Side : mHighestAckedSeq'[s] - mHighestAckedSeq[s]
                              <= Len(mNotifyQueue[s])]_vars
  BY NoteForEachNotify
<1> QED BY <1>1, WindowInvariant, NotesAlwaysMatch, PTL DEF Spec, NotifyHasNote

-----------------------------------------------------------------------------
(* What the answers mean.                                                  *)

(* A header answers truly if the mask it was made from does: the bits left *)
(* out of it are of packets whose sender has already been told.            *)
LEMMA HeaderTrue ==
  ASSUME TypeOK, CountersInv, NEW s \in Side, NEW h \in Packet(Nat, Nat),
         h.ack = mLastSeqRecvd[s],
         h.bits >= mLastSeqRecvd[s] - mLastRecvAckAck[s],
         h.mask = {i \in mAckMask[s] : i < h.bits},
         MaskTrue(Peer(s), mLastSeqRecvd[s], mAckMask[s])
  PROVE  MaskTrue(Peer(s), h.ack, h.mask)
<1> SUFFICES ASSUME NEW n \in mHighestAckedSeq[Peer(s)] + 1 .. mLastSeqRecvd[s]
             PROVE  mLastSeqRecvd[s] - n < h.bits
  BY DEF MaskTrue
<1>1. mLastRecvAckAck[s] <= mHighestAckedSeq[Peer(s)]
  BY DEF CountersInv
<1>2. /\ mLastSeqRecvd[s] \in Nat /\ mLastRecvAckAck[s] \in Int
      /\ mHighestAckedSeq[Peer(s)] \in Nat /\ h.bits \in Nat
  BY TypeFacts, PeerFacts DEF Packet
<1> QED BY <1>1, <1>2

(* Sending a header keeps the answers true.                                *)
LEMMA SendTruth ==
  ASSUME WindowInv, TruthInv, WindowInv', NEW s \in Side,
         NEW h \in Packet(Nat, Nat),
         h.ack = mLastSeqRecvd[s],
         h.bits >= mLastSeqRecvd[s] - mLastRecvAckAck[s],
         h.mask = {i \in mAckMask[s] : i < h.bits},
         h.type = "DataPacket" => h.seq > mLastSeqRecvd[Peer(s)],
         net'[Peer(s)] \subseteq net[Peer(s)] \union {h},
         net'[s] = net[s],
         UNCHANGED <<mHighestAckedSeq, received, recvVars>>
  PROVE  TruthInv'
<1> USE DEF recvVars
<1>1. \A t, last, m : MaskTrue(t, last, m)' <=> MaskTrue(t, last, m)
  BY DEF MaskTrue
<1>2. MaskTrue(Peer(s), h.ack, h.mask)
  BY PeerFacts, HeaderTrue DEF TruthInv, WindowInv
<1>3. \A t \in Side : \A p \in net'[t] : MaskTrue(t, p.ack, p.mask)
  <2>1. \A t \in Side : \A p \in net[t] : MaskTrue(t, p.ack, p.mask)
    BY DEF TruthInv
  <2>2. \A p \in net'[s] : MaskTrue(s, p.ack, p.mask)
    BY <2>1
  <2>3. \A p \in net'[Peer(s)] : MaskTrue(Peer(s), p.ack, p.mask)
    BY <2>1, <1>2, PeerFacts
  <2> QED BY <2>2, <2>3, PeerFacts
<1>4. \A t \in Side : \A p \in net'[Peer(t)] :
         p.type = "DataPacket" /\ p.seq = mLastSeqRecvd[Peer(t)]
           => p.seq \in processed[t]
  <2> SUFFICES ASSUME NEW t \in Side, NEW p \in net'[Peer(t)], p.type = "DataPacket",
                      p.seq = mLastSeqRecvd[Peer(t)]
               PROVE  p.seq \in processed[t]
    OBVIOUS
  <2>1. CASE p \in net[Peer(t)]
    BY <2>1 DEF TruthInv
  <2>2. CASE p = h /\ t = s
    BY <2>2, PeerFacts, TypeFacts DEF WindowInv
  <2> QED BY <2>1, <2>2, PeerFacts
<1> QED BY <1>1, <1>3, <1>4 DEF TruthInv

LEMMA ReceiveTruth ==
  ASSUME WindowInv, TruthInv, NoWordWrap, ShortLived, ~Overtaking, WindowInv',
         NEW s \in Side, NEW p \in net[s], p \in Arriving(s), AcceptPacket(s, p)
  PROVE  TruthInv'
<1> DEFINE u == Peer(s)
           L == mLastSeqRecvd[s]
           mask == ShiftedMask(mAckMask[s], p.seq - mLastSeqRecvd[s], p.type)
           isNew == p.seq # mLastSeqRecvd[s] /\ p.type = "DataPacket"
<1>1. /\ L <= p.seq /\ mHighestAckedSeq[s] <= p.ack
      /\ received' = [received EXCEPT ![s] = @ \union Confirmed(s, p)]
      /\ mHighestAckedSeq' = [mHighestAckedSeq EXCEPT ![s] = p.ack]
      /\ mLastSeqRecvd' = [mLastSeqRecvd EXCEPT ![s] = p.seq]
      /\ mAckMask' = [mAckMask EXCEPT ![s] = mask]
      /\ processed' = IF isNew
                      THEN [processed EXCEPT ![u] = @ \union {p.seq}] ELSE processed
      /\ mLastSendSeq' = mLastSendSeq
  BY ReceiveFacts DEF HandleNotifies, sendVars
<1>2. PICK confirmedAck \in AckAckOf(s, Confirmed(s, p)) :
        LET ackAck == WithinWindow(p.seq, confirmedAck)
            h == Header("AckPacket", mLastSendSeq[s], p.seq, ackAck, mask)
        IN
        /\ mLastRecvAckAck' = [mLastRecvAckAck EXCEPT ![s] = ackAck]
        /\ \E answers \in Transmit(net[u], h) \union {net[u]} :
             net' = [net EXCEPT ![s] = @ \ Overtaken(s, p), ![u] = answers]
  BY ReceiveFacts
<1>3. /\ p.seq \in Nat /\ p.ack \in Nat /\ p.mask \subseteq Bits
      /\ L \in Nat /\ mHighestAckedSeq[s] \in Nat
      /\ mHighestAckedSeq[u] \in Nat /\ mLastSendSeq[u] \in Nat
      /\ mLastSeqRecvd[u] \in Nat
      /\ mLastSendSeq[s] \in Nat
      /\ mAckMask[s] \subseteq Bits /\ mask \subseteq Bits
      /\ W \in Nat
      /\ processed[s] \subseteq Nat /\ processed[u] \subseteq Nat
  BY TypeFacts, PeerFacts, NotifyAssumption
     DEF WindowInv, TypeOK, ShiftedMask, ConstantsAssumption
<1>4. u \in Side /\ u # s /\ Peer(u) = s /\ Peer(s) = u /\ Side = {s, u}
  BY PeerFacts
<1>5. /\ p.seq <= mLastSendSeq[u]
      /\ mLastSendSeq[u] - mHighestAckedSeq[u] <= W - 2
      /\ mHighestAckedSeq[u] <= L
  BY <1>4 DEF WindowInv, PacketsInv, PacketOK, CountersInv
<1>6. /\ mHighestAckedSeq'[s] = p.ack
      /\ mHighestAckedSeq'[u] = mHighestAckedSeq[u]
      /\ mLastSeqRecvd'[s] = p.seq /\ mLastSeqRecvd'[u] = mLastSeqRecvd[u]
      /\ mAckMask'[s] = mask /\ mAckMask'[u] = mAckMask[u]
      /\ received'[s] = received[s] \union Confirmed(s, p)
      /\ received'[u] = received[u]
      /\ processed'[s] = processed[s]
      /\ processed'[u] = processed[u] \union (IF isNew THEN {p.seq} ELSE {})
  BY <1>1, <1>4 DEF WindowInv, TypeOK
<1>7. PICK ackAck, h, answers :
        /\ mLastRecvAckAck'[s] = ackAck
        /\ h = Header("AckPacket", mLastSendSeq[s], p.seq, ackAck, mask)
        /\ answers \subseteq net[u] \union {h}
        /\ net' = [net EXCEPT ![s] = @ \ Overtaken(s, p), ![u] = answers]
  <2> HIDE DEF mask, u
  <2>1. PICK ackAck : /\ ackAck = WithinWindow(p.seq, confirmedAck)
                      /\ mLastRecvAckAck' = [mLastRecvAckAck EXCEPT ![s] = ackAck]
    BY <1>2
  <2>2. PICK h : h = Header("AckPacket", mLastSendSeq[s], p.seq, ackAck, mask)
    OBVIOUS
  <2>3. PICK answers \in Transmit(net[u], h) \union {net[u]} :
          net' = [net EXCEPT ![s] = @ \ Overtaken(s, p), ![u] = answers]
    BY <1>2, <2>1, <2>2
  <2>4. answers \subseteq net[u] \union {h}
    BY TransmitAdds
  <2>5. mLastRecvAckAck'[s] = ackAck
    BY <2>1 DEF WindowInv, TypeOK
  <2> QED BY <2>2, <2>3, <2>4, <2>5
<1>8. /\ h \in Packet(Nat, Nat) /\ h.type = "AckPacket"
      /\ h.ack = p.seq /\ h.bits >= p.seq - ackAck
      /\ h.mask = {i \in mask : i < h.bits}
  <2>1. ackAck \in Int
    BY <1>7 DEF WindowInv, TypeOK
  <2>2. mHighestAckedSeq'[u] <= p.seq /\ ackAck <= mHighestAckedSeq'[u]
    BY <1>4, <1>6, <1>7 DEF WindowInv, CountersInv
  <2>3. ackAck <= p.seq
    BY <2>1, <2>2, <1>3, <1>6
  <2>4. "AckPacket" \in PacketType
    BY DEF PacketType
  <2> HIDE DEF mask
  <2> QED BY <2>1, <2>3, <2>4, <1>3, <1>7, HeaderFacts
<1>9. /\ net'[s] = net[s] \ Overtaken(s, p)
      /\ net'[u] \subseteq net[u] \union {h}
  BY <1>4, <1>7 DEF WindowInv, TypeOK
<1> HIDE DEF u
\* What u has been told, and what is on its way to s, still holds.
<1>10. /\ \A n \in processed'[s] : n <= mLastSeqRecvd'[u]
       /\ MaskTrue(s, mLastSeqRecvd[u], mAckMask[u])'
       /\ \A q \in net'[s] : MaskTrue(s, q.ack, q.mask)'
       /\ \A q \in net'[u] : q.type = "DataPacket" /\ q.seq = mLastSeqRecvd'[u]
                               => q.seq \in processed'[s]
  <2>1. ASSUME NEW last \in Nat, NEW m, MaskTrue(s, last, m)
        PROVE  MaskTrue(s, last, m)'
    BY <2>1, <1>1, <1>3, <1>6 DEF MaskTrue
  <2>2. /\ \A n \in processed[s] : n <= mLastSeqRecvd[u]
        /\ MaskTrue(s, mLastSeqRecvd[u], mAckMask[u])
        /\ \A q \in net[s] : MaskTrue(s, q.ack, q.mask)
        /\ \A q \in net[u] : q.type = "DataPacket" /\ q.seq = mLastSeqRecvd[u]
                               => q.seq \in processed[s]
    BY <1>4 DEF TruthInv
  <2>3. \A q \in net[s] : q.ack \in Nat
    BY TypeFacts DEF WindowInv
  <2>4. MaskTrue(s, mLastSeqRecvd[u], mAckMask[u])'
    BY <2>1, <2>2, <1>3, <1>6
  <2>5. \A q \in net'[s] : MaskTrue(s, q.ack, q.mask)'
    BY <2>1, <2>2, <2>3, <1>9
  <2> QED BY <2>2, <2>4, <2>5, <1>6, <1>8, <1>9
\* What s is told is what u had read.
<1>11. received'[s] = {n \in processed'[s] : n <= mHighestAckedSeq'[s]}
  <2>1. received[s] = {n \in processed[s] : n <= mHighestAckedSeq[s]}
    BY DEF TruthInv
  <2>2. MaskTrue(s, p.ack, p.mask)
    BY DEF TruthInv
  <2>3. Confirmed(s, p) = {n \in mHighestAckedSeq[s] + 1 .. p.ack : n \in processed[s]}
    BY <2>2 DEF MaskTrue, Confirmed
  <2> QED BY <2>1, <2>3, <1>1, <1>3, <1>6
\* What s now answers to u.
<1>12. \A n : n <= L => (n \in processed'[u] <=> n \in processed[u])
  BY <1>1, <1>3, <1>6
<1>13. MaskTrue(u, mLastSeqRecvd[s], mAckMask[s])'
  <2> SUFFICES ASSUME NEW n \in mHighestAckedSeq[u] + 1 .. p.seq
               PROVE  p.seq - n \in mask <=> n \in processed'[u]
    BY <1>4, <1>6 DEF MaskTrue
  <2>1. p.seq - n \in Bits /\ n \in Nat
    BY <1>3, <1>5 DEF Bits
  <2>2. p.seq - n - (p.seq - L) = L - n
    BY <2>1, <1>3
  <2>3. p.seq - n \in mask
          <=> L - n \in mAckMask[s] \/ (n = p.seq /\ p.type = "DataPacket")
    BY <2>1, <2>2, <1>3 DEF ShiftedMask
  <2>4. CASE n <= L
    <3>1. n \in mHighestAckedSeq[u] + 1 .. L
      BY <2>4, <2>1, <1>3
    <3>2. L - n \in mAckMask[s] <=> n \in processed[u]
      BY <3>1, <1>4 DEF TruthInv, MaskTrue
    <3>3. n = p.seq /\ p.type = "DataPacket" => n \in processed[u]
      <4> SUFFICES ASSUME n = p.seq, p.type = "DataPacket" PROVE p.seq \in processed[u]
        OBVIOUS
      <4>1. p.seq = mLastSeqRecvd[s]
        BY <2>4, <1>1, <1>3
      <4> QED BY <4>1, <1>4 DEF TruthInv
    <3> QED BY <2>3, <2>4, <3>2, <3>3, <1>12
  <2>5. CASE n > L
    <3>1. L - n \notin mAckMask[s]
      BY <2>5, <2>1, <1>3 DEF Bits
    <3>2. n \notin processed[u]
      BY <2>5, <2>1, <1>3, <1>4 DEF TruthInv
    <3>3. n = p.seq => p.seq # L
      BY <2>5, <1>3
    <3> QED BY <2>3, <3>1, <3>2, <3>3, <1>6
  <2> QED BY <2>4, <2>5, <2>1, <1>3
<1>14. MaskTrue(u, h.ack, h.mask)'
  <2>1. TypeOK' /\ CountersInv'
    BY DEF WindowInv
  <2> SUFFICES ASSUME NEW n \in mHighestAckedSeq[u] + 1 .. p.seq
               PROVE  p.seq - n < h.bits
    BY <1>13, <1>6, <1>8 DEF MaskTrue
  <2>2. ackAck \in Int /\ h.bits \in Nat /\ ackAck <= mHighestAckedSeq[u]
    BY <2>1, <1>4, <1>6, <1>7, <1>8 DEF TypeOK, CountersInv, Packet
  <2> QED BY <2>2, <1>3, <1>8
<1>15. \A q \in net'[u] : MaskTrue(u, q.ack, q.mask)'
  <2> SUFFICES ASSUME NEW q \in net[u] PROVE MaskTrue(u, q.ack, q.mask)'
    BY <1>9, <1>14
  <2>1. MaskTrue(u, q.ack, q.mask)
    BY <1>4 DEF TruthInv
  <2>2. q.ack <= L /\ q.ack \in Nat
    BY <1>4, TypeFacts DEF WindowInv, PacketsInv, PacketOK
  <2> QED BY <2>1, <2>2, <1>3, <1>6, <1>12 DEF MaskTrue
<1>16. \A n \in processed'[u] : n <= mLastSeqRecvd'[s]
  <2>1. \A n \in processed[u] : n <= L
    BY <1>4 DEF TruthInv
  <2> QED BY <2>1, <1>1, <1>3, <1>6
<1>17. received'[u] = {n \in processed'[u] : n <= mHighestAckedSeq'[u]}
  <2>1. received[u] = {n \in processed[u] : n <= mHighestAckedSeq[u]}
    BY <1>4 DEF TruthInv
  <2>2. isNew => ~(p.seq <= mHighestAckedSeq[u])
    BY <1>1, <1>3, <1>5
  <2> QED BY <2>1, <2>2, <1>6
\* A packet that s has moved up to is read or lost.
<1>18. \A q \in net'[s] : q.type = "DataPacket" /\ q.seq = mLastSeqRecvd'[s]
                            => q.seq \in processed'[u]
  <2> SUFFICES ASSUME NEW q \in net'[s], q.type = "DataPacket", q.seq = p.seq
               PROVE  p.seq \in processed'[u]
    BY <1>6
  <2>1. CASE p.seq = L
    BY <2>1, <1>4, <1>6, <1>9 DEF TruthInv
  <2>2. CASE p.seq # L /\ p.type = "DataPacket"
    BY <2>2, <1>6
  <2>3. CASE p.seq # L /\ p.type # "DataPacket"
    BY <2>3, <1>9 DEF Overtaken
  <2> QED BY <2>1, <2>2, <2>3
<1> QED
  BY <1>4, <1>10, <1>11, <1>13, <1>15, <1>16, <1>17, <1>18 DEF TruthInv

LEMMA TruthStep ==
  ASSUME WindowInv, TruthInv, NoWordWrap, ShortLived, ~Overtaking, [Next]_vars
  PROVE  TruthInv'
<1>1. WindowInv'
  BY WindowStep
<1>2. ASSUME NEW s \in Side, NEW type \in PacketType, NEW seq \in Nat,
             SendTo(Peer(s), HeaderOf(s, type, seq)),
             type = "DataPacket" => seq > mLastSeqRecvd[Peer(s)],
             UNCHANGED <<mHighestAckedSeq, received, recvVars>>
      PROVE  TruthInv'
  <2>1. PICK h \in Packet(Nat, Nat) :
          /\ h = HeaderOf(s, type, seq)
          /\ h.type = type /\ h.seq = seq /\ h.ack = mLastSeqRecvd[s]
          /\ h.bits >= mLastSeqRecvd[s] - mLastRecvAckAck[s]
          /\ h.mask = {i \in mAckMask[s] : i < h.bits}
    BY HeaderOfFacts DEF WindowInv
  <2>2. /\ net'[Peer(s)] \subseteq net[Peer(s)] \union {h}
        /\ net'[s] = net[s]
    BY <1>2, <2>1, PeerFacts, SendToAdds DEF WindowInv
  <2> QED BY <1>1, <1>2, <2>1, <2>2, SendTruth
<1>3. ASSUME NEW s \in Side
      PROVE  /\ mLastSendSeq[s] \in Nat /\ mLastSendSeq[s] + 1 \in Nat
             /\ mLastSendSeq[s] + 1 > mLastSeqRecvd[Peer(s)]
  BY TypeFacts, PeerFacts DEF WindowInv, CountersInv
<1>4. ASSUME NEW s \in Side, SendData(s) PROVE TruthInv'
  <2>1. /\ SendTo(Peer(s), HeaderOf(s, "DataPacket", mLastSendSeq[s] + 1))
        /\ UNCHANGED <<mHighestAckedSeq, received, recvVars>>
    BY <1>4 DEF SendData
  <2> QED BY <1>2, <1>3, <2>1 DEF PacketType
<1>5. ASSUME NEW s \in Side, SendAck(s) PROVE TruthInv'
  <2>1. /\ SendTo(Peer(s), HeaderOf(s, "AckPacket", mLastSendSeq[s]))
        /\ UNCHANGED <<mHighestAckedSeq, received, recvVars>>
    BY <1>5 DEF SendAck, ackVars
  <2> QED BY <1>2, <1>3, <2>1 DEF PacketType
<1>6. ASSUME NEW s \in Side, SendPing(s) PROVE TruthInv'
  <2>1. /\ SendTo(Peer(s), HeaderOf(s, "PingPacket", mLastSendSeq[s]))
        /\ UNCHANGED <<mHighestAckedSeq, received, recvVars>>
    BY <1>6 DEF SendPing, ackVars
  <2> QED BY <1>2, <1>3, <2>1 DEF PacketType
<1>7. ASSUME NEW s \in Side, TimeOut(s) PROVE TruthInv'
  BY <1>7 DEF TimeOut, recvVars, TruthInv, MaskTrue
<1>8. ASSUME NEW s \in Side, ReceivePacket(s) PROVE TruthInv'
  BY <1>1, <1>8, ReceiveTruth DEF ReceivePacket, Arriving
<1>9. CASE UNCHANGED vars
  BY <1>9 DEF vars, ackVars, recvVars, TruthInv, MaskTrue
<1> QED BY <1>4, <1>5, <1>6, <1>7, <1>8, <1>9 DEF Next

(* IInv is inductive, when no ping or ack overtakes the data packet it     *)
(* follows.                                                                *)
THEOREM Inductive ==
  ASSUME NoWordWrap, ShortLived, ~Overtaking
  PROVE  Spec => []IInv
<1>1. Init => IInv
  BY InitInv
<1>2. IInv /\ [Next]_vars => IInv'
  BY WindowStep, NotesStep, TruthStep DEF IInv
<1> QED BY <1>1, <1>2, PTL DEF Spec

(* NotifiedOnlyIfRead: packetReceived() is only called for a packet that   *)
(* the remote readPacket() has read.                                       *)
THEOREM NotificationsAreTrue ==
  ASSUME NoWordWrap, ShortLived, ~Overtaking
  PROVE  Spec => []NotifiedOnlyIfRead
<1>1. IInv => NotifiedOnlyIfRead
  BY DEF IInv, TruthInv, NotifiedOnlyIfRead
<1> QED BY <1>1, Inductive, PTL

(* DroppedNeverRead: packetDropped() is only called, while the connection  *)
(* is up, for a packet that the remote has not read and never will.        *)
THEOREM DropsAreTrue ==
  ASSUME NoWordWrap, ShortLived, ~Overtaking
  PROVE  Spec => []DroppedNeverRead
<1>1. IInv => DroppedNeverRead
  BY DEF IInv, TruthInv, DroppedNeverRead
<1> QED BY <1>1, Inductive, PTL

-----------------------------------------------------------------------------
(* The protocol implements NotifyChannel.                                  *)

LEMMA ChannelSides ==
  /\ Channel!Side = Side
  /\ \A s : Channel!Peer(s) = Peer(s)
  BY DEF Channel!Side, Side, Channel!Peer, Peer

LEMMA ReceiveImplements ==
  ASSUME WindowInv, TruthInv, NoWordWrap, ShortLived, NEW s \in Side, ReceivePacket(s)
  PROVE  Channel!Receive(s)
<1>1. PICK p \in net[s] : p \in Arriving(s) /\ AcceptPacket(s, p) /\ connected[s]
  BY DEF ReceivePacket, Arriving
<1>2. /\ mLastSeqRecvd[s] <= p.seq /\ mHighestAckedSeq[s] <= p.ack
      /\ received' = [received EXCEPT ![s] = @ \union Confirmed(s, p)]
      /\ mHighestAckedSeq' = [mHighestAckedSeq EXCEPT ![s] = p.ack]
      /\ processed' = IF p.seq # mLastSeqRecvd[s] /\ p.type = "DataPacket"
                      THEN [processed EXCEPT ![Peer(s)] = @ \union {p.seq}]
                      ELSE processed
      /\ connected' = connected /\ mLastSendSeq' = mLastSendSeq
  BY <1>1, ReceiveFacts DEF HandleNotifies, sendVars
<1>3. /\ p.seq <= mLastSendSeq[Peer(s)]
      /\ p.ack <= mLastSeqRecvd[Peer(s)]
      /\ mLastSeqRecvd[Peer(s)] <= mLastSendSeq[s]
      /\ mHighestAckedSeq[Peer(s)] <= mLastSeqRecvd[s]
  BY PeerFacts DEF WindowInv, PacketsInv, PacketOK, CountersInv
<1>4. /\ p.seq \in Nat /\ p.ack \in Nat
      /\ mLastSendSeq[s] \in Nat /\ mHighestAckedSeq[s] \in Nat
      /\ mLastSeqRecvd[s] \in Nat
      /\ mLastSendSeq[Peer(s)] \in Nat /\ mHighestAckedSeq[Peer(s)] \in Nat
      /\ mLastSeqRecvd[Peer(s)] \in Nat
      /\ processed[s] \subseteq Nat /\ processed[Peer(s)] \subseteq Nat
  BY TypeFacts, PeerFacts DEF WindowInv, TypeOK
<1>5. p.ack \in mHighestAckedSeq[s] .. mLastSendSeq[s]
  BY <1>2, <1>3, <1>4
<1>6. Confirmed(s, p) = {m \in processed[s] : mHighestAckedSeq[s] < m /\ m <= p.ack}
  <2>1. \A n \in mHighestAckedSeq[s] + 1 .. p.ack :
          p.ack - n \in p.mask <=> n \in processed[s]
    BY DEF TruthInv, MaskTrue
  <2> QED BY <2>1, <1>4 DEF Confirmed
<1>7. Channel!NotifyUpTo(s, p.ack)
  BY <1>2, <1>6 DEF Channel!NotifyUpTo
<1>8. ASSUME p.seq # mLastSeqRecvd[s]
      PROVE  p.seq \in Channel!Unnotified(Peer(s)) /\ Channel!Readable(s, p.seq)
  <2>1. p.seq \in Channel!Unnotified(Peer(s))
    BY <1>2, <1>3, <1>4, <1>8 DEF Channel!Unnotified
  <2>2. \A m \in processed[Peer(s)] : m < p.seq
    <3>1. \A m \in processed[Peer(s)] : m <= mLastSeqRecvd[s]
      BY PeerFacts DEF TruthInv
    <3> QED BY <3>1, <1>2, <1>4, <1>8
  <2> QED BY <2>1, <2>2, ChannelSides DEF Channel!Readable
<1>9. \/ processed' = processed
      \/ \E n \in Channel!Unnotified(Channel!Peer(s)) :
           /\ Channel!Readable(s, n)
           /\ processed' = [processed EXCEPT ![Channel!Peer(s)] = @ \union {n}]
  BY <1>2, <1>8, ChannelSides
<1> QED BY <1>1, <1>2, <1>5, <1>7, <1>9 DEF Channel!Receive

LEMMA StepImplements ==
  ASSUME WindowInv, TruthInv, NoWordWrap, ShortLived, [Next]_vars
  PROVE  [Channel!ChanNext]_(Channel!chanVars)
<1> USE DEF Channel!chanVars
<1>1. ASSUME NEW s \in Side, SendData(s) PROVE Channel!Send(s)
  <2>1. mLastSendSeq[s] - mHighestAckedSeq[s] < W - 2
    <3>1. mLastSendSeq[s] \in Nat /\ mHighestAckedSeq[s] \in Nat /\ W \in Nat
      BY TypeFacts, NotifyAssumption DEF WindowInv, ConstantsAssumption
    <3> QED BY <3>1, <1>1 DEF SendData, WindowFull
  <2> QED BY <1>1, <2>1 DEF Channel!Send, SendData, recvVars
<1>2. ASSUME NEW s \in Side, SendAck(s) \/ SendPing(s) PROVE UNCHANGED Channel!chanVars
  BY <1>2 DEF SendAck, SendPing, sendVars, ackVars, recvVars
<1>3. ASSUME NEW s \in Side, TimeOut(s) PROVE Channel!Close(s)
  BY <1>3 DEF Channel!Close, TimeOut, sendVars, recvVars
<1>4. ASSUME NEW s \in Side, ReceivePacket(s) PROVE Channel!Receive(s)
  BY <1>4, ReceiveImplements
<1>5. ASSUME UNCHANGED vars PROVE UNCHANGED Channel!chanVars
  BY <1>5 DEF vars, sendVars, ackVars, recvVars
<1> QED
  BY <1>1, <1>2, <1>3, <1>4, <1>5, ChannelSides DEF Next, Channel!ChanNext

(* ImplementsChannel: without overtaking, the class keeps its promise to   *)
(* the classes derived from it (PacketNotify, packetReceived and           *)
(* packetDropped).                                                         *)
THEOREM ProtocolImplementsChannel ==
  ASSUME NoWordWrap, ShortLived, ~Overtaking
  PROVE  Spec => ImplementsChannel
<1>1. Init => Channel!ChanInit
  BY ChannelSides DEF Init, Channel!ChanInit
<1>2. IInv /\ [Next]_vars => [Channel!ChanNext]_(Channel!chanVars)
  BY StepImplements DEF IInv
<1> QED BY <1>1, <1>2, Inductive, PTL DEF Spec, ImplementsChannel, Channel!ChanSpec

=============================================================================
