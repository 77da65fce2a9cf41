---------------------------- MODULE NotifyInvariant ----------------------------
(***************************************************************************)
(* Why NotifyProtocol keeps its promises: an inductive invariant, in named *)
(* parts.  TLC checks it on small instances, and NotifyProtocol_proofs     *)
(* proves it for every value of the constants, under three hypotheses:     *)
(* that no ping or ack overtakes a data packet (MCNotifyOvertaking shows   *)
(* it to be needed), that no datagram is under way for so long that its    *)
(* truncated numbers come round, and that the numbers stay away from the   *)
(* end of the word.                                                        *)
(***************************************************************************)
EXTENDS NotifyProtocol

\* The connection ends before its numbers reach the last AckSpace values of
\* the 32 bit word.
NoWordWrap == \A s \in Side : MaxSeq[s] + AckSpace <= WordSpace

\* A datagram is lost before its truncated numbers come round.
ShortLived == SeqLife + W <= SeqSpace /\ AckLife < AckSpace

(* The counters of the two ends, in the order in which they follow each    *)
(* other.                                                                  *)
CountersInv ==
  \A s \in Side :
    /\ mHighestAckedSeq[s] <= mLastSeqRecvd[Peer(s)]
    /\ mLastSeqRecvd[Peer(s)] <= mLastSendSeq[s]
    /\ mLastSendSeq[s] <= MaxSeq[s]
    /\ mLastSendSeq[s] - mHighestAckedSeq[s] <= W - 2
    /\ mLastRecvAckAck[s] <= mHighestAckedSeq[Peer(s)]
    /\ mLastSeqRecvd[s] - mLastRecvAckAck[s] <= W

(* A datagram on its way to s carries numbers its sender has reached, and  *)
(* its ack bits go back to what s has been told.                           *)
PacketOK(s, p) ==
  /\ p.seq <= mLastSendSeq[Peer(s)]
  /\ p.ack <= mLastSeqRecvd[Peer(s)]
  /\ p.ack - p.bits <= mHighestAckedSeq[s]
  /\ p.seq > mLastSeqRecvd[s] => p.ack >= mHighestAckedSeq[s]

(* Later datagrams carry later numbers.                                    *)
PacketsInv ==
  \A s \in Side : \A p \in net[s] :
    /\ PacketOK(s, p)
    /\ \A q \in net[s] : p.seq > q.seq => p.ack >= q.ack

(* What the ring buffer of s holds for its packet n, not yet answered.     *)
AtSend(s, n) == mLastSeqRecvdAtSend[s][n % W]

(* The ring buffer still holds what each unanswered data packet carried.   *)
RingOK(s, p) ==
  p.type = "DataPacket" /\ p.seq > mHighestAckedSeq[Peer(s)]
    => p.ack = AtSend(Peer(s), p.seq)

RingInv == \A s \in Side : \A p \in net[s] : RingOK(s, p)

(* A bit of a mask that answers the packets of s up to last says that the  *)
(* peer has had the header of that packet, and so the answers in it.       *)
MaskOK(s, last, mask) ==
  \A n \in mHighestAckedSeq[s] + 1 .. last :
    last - n \in mask => AtSend(s, n) <= mHighestAckedSeq[Peer(s)]

(* So it is with the mask the peer keeps and with those on their way.      *)
AckAckInv ==
  \A s \in Side : /\ MaskOK(s, mLastSeqRecvd[Peer(s)], mAckMask[Peer(s)])
                  /\ \A p \in net[s] : MaskOK(s, p.ack, p.mask)

(* Without overtaking a bit also says, no more and no less, that the peer  *)
(* has read the packet ...                                                 *)
MaskTrue(s, last, mask) ==
  \A n \in mHighestAckedSeq[s] + 1 .. last :
    last - n \in mask <=> n \in processed[s]

(* ... since the packet that the counter of the peer stands at is never    *)
(* still to come.                                                          *)
TruthInv ==
  \A s \in Side :
    /\ \A n \in processed[s] : n <= mLastSeqRecvd[Peer(s)]
    /\ MaskTrue(s, mLastSeqRecvd[Peer(s)], mAckMask[Peer(s)])
    /\ \A p \in net[s] : MaskTrue(s, p.ack, p.mask)
    /\ received[s] = {n \in processed[s] : n <= mHighestAckedSeq[s]}
    /\ \A p \in net[Peer(s)] :
         p.type = "DataPacket" /\ p.seq = mLastSeqRecvd[Peer(s)]
           => p.seq \in processed[s]

WindowInv == TypeOK /\ CountersInv /\ PacketsInv /\ RingInv /\ AckAckInv
IInv == WindowInv /\ NotesMatch /\ TruthInv
=============================================================================
