---------------------------- MODULE NotifyChannel ----------------------------
(***************************************************************************)
(* What NetConnection promises to the classes derived from it.             *)
(*                                                                         *)
(* The two ends of a connection exchange data packets over UDP.  A packet  *)
(* may be lost, and the connection never resends it; but the sender is     *)
(* told of the fate of every packet, once, in the order in which it sent   *)
(* them, and what it is told is true: packetReceived(note) means that the  *)
(* remote readPacket() has read the packet, packetDropped(note) means that *)
(* it never will.  When a connection is torn down the notes that are left  *)
(* are flushed as drops, and these say nothing.                            *)
(*                                                                         *)
(* Every packet is named by its sequence number at its sender.             *)
(***************************************************************************)
EXTENDS Integers, FiniteSets

CONSTANTS
  Window,      \* data packets a side may have without a notification
  InitSeq      \* [Side -> Nat]: mInitialSendSeq, drawn at random by each side

Side == {"initiator", "host"}
Peer(s) == IF s = "initiator" THEN "host" ELSE "initiator"

ASSUME WindowAssumption == Window \in Nat \ {0}
ASSUME InitSeqAssumption == InitSeq \in [Side -> Nat]

VARIABLES
  open,        \* [Side -> BOOLEAN]: the connection object of this side exists
  sent,        \* the last data packet the side has sent
  notified,    \* the last data packet whose fate the side has been told
  confirmed,   \* the packets it was told had been received
  arrived      \* the packets of this side that the peer has read

chanVars == <<open, sent, notified, confirmed, arrived>>

ChanTypeOK ==
  /\ open \in [Side -> BOOLEAN]
  /\ sent \in [Side -> Nat]
  /\ notified \in [Side -> Nat]
  /\ confirmed \in [Side -> SUBSET Nat]
  /\ arrived \in [Side -> SUBSET Nat]

ChanInit ==
  /\ open = [s \in Side |-> TRUE]
  /\ sent = InitSeq
  /\ notified = InitSeq
  /\ confirmed = [s \in Side |-> {}]
  /\ arrived = [s \in Side |-> {}]

Unnotified(s) == notified[s] + 1 .. sent[s]

-----------------------------------------------------------------------------
\* writePacket() is called for the next packet.
Send(s) ==
  /\ open[s]
  /\ sent[s] - notified[s] < Window
  /\ sent' = [sent EXCEPT ![s] = @ + 1]
  /\ UNCHANGED <<open, notified, confirmed, arrived>>

\* The fate of the packets up to n is told: those that have been read are
\* confirmed, the others are reported lost.
NotifyUpTo(s, n) ==
  /\ notified' = [notified EXCEPT ![s] = n]
  /\ confirmed' = [confirmed EXCEPT ![s] =
                     @ \union {m \in arrived[s] : notified[s] < m /\ m <= n}]

\* readPacket() is called for packet n of the peer, which must be later than
\* all it has read and than all whose fate the peer was told.
Readable(s, n) ==
  /\ n \in Unnotified(Peer(s))
  /\ \A m \in arrived[Peer(s)] : m < n

\* One datagram comes in at s: first its acknowledgements are turned into
\* notifications, then, when it is a data packet, it is read.
Receive(s) ==
  /\ open[s]
  /\ \E n \in notified[s] .. sent[s] : NotifyUpTo(s, n)
  /\ \/ arrived' = arrived
     \/ \E n \in Unnotified(Peer(s)) :
          /\ Readable(s, n)
          /\ arrived' = [arrived EXCEPT ![Peer(s)] = @ \union {n}]
  /\ UNCHANGED <<open, sent>>

\* The side gives the connection up; what was in flight is flushed.
Close(s) ==
  /\ open[s]
  /\ open' = [open EXCEPT ![s] = FALSE]
  /\ UNCHANGED <<sent, notified, confirmed, arrived>>

ChanNext == \E s \in Side : Send(s) \/ Receive(s) \/ Close(s)

ChanSpec == ChanInit /\ [][ChanNext]_chanVars

-----------------------------------------------------------------------------
(* Every packet the sender was told had been received has been read.       *)
ConfirmedArrived == \A s \in Side : confirmed[s] \subseteq arrived[s]

(* Nothing is left unsaid: among the packets whose fate has been told,     *)
(* those that were not confirmed have not been read.                       *)
LostNeverArrived ==
  \A s \in Side : \A n \in arrived[s] : n <= notified[s] => n \in confirmed[s]
=============================================================================
