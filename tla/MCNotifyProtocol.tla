--------------------------- MODULE MCNotifyProtocol ---------------------------
(* Instances of NotifyProtocol for TLC.                                    *)
EXTENDS NotifyInvariant

Seqs(initiator, host) ==
  [s \in Side |-> IF s = "initiator" THEN initiator ELSE host]

\* The initiator starts just below a multiple of SeqSpace and of AckSpace,
\* so that the truncated numbers wrap in the middle of the run.
MCInitSeq == Seqs(13, 3)

\* The initiator sends until its first numbers could be taken for later ones.
MCLongMaxSeq == Seqs(16, 4)

\* Both sides send: for the liveness property, and for what happens when a
\* ping or ack overtakes a data packet.
MCFairMaxSeq == Seqs(16, 4)
=============================================================================
