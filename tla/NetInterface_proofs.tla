-------------------------- MODULE NetInterface_proofs --------------------------
(***************************************************************************)
(* The safety properties of NetInterface, for any number of connections,   *)
(* retries and renewals of the puzzle.                                     *)
(***************************************************************************)
EXTENDS NetInterface, SequenceTheorems, TLAPS

Tales ==
  {<< >>, <<"onConnectTerminated">>, <<"onConnectionEstablished">>,
   <<"onConnectionEstablished", "onConnectionTerminated">>}

AnyNonce == Int \X {0, 1}

Connection ==
  [owner : Host, addr : Host \union {NoAddress}, state : State, nonce : AnyNonce,
   serverNonce : Nat, initiator : BOOLEAN, arranged : BOOLEAN, retried : BOOLEAN,
   sends : Nat, recvSeq : Nat, told : Tales]

Puzzles ==
  [mCurrentNonce : Nat, mLastNonce : Nat,
   mCurrentNonceTable : SUBSET AnyNonce, mLastNonceTable : SUBSET AnyNonce]

PacketType ==
  {"ConnectChallengeRequest", "ConnectChallengeResponse", "ConnectRequest",
   "ConnectAccept", "ConnectReject", "Punch", "ArrangedConnectRequest", "Disconnect"}

PacketSet ==
  [type : PacketType, from : Host, to : Host \union {NoAddress}, nonce : AnyNonce,
   serverNonce : Nat, seq : Nat, reason : {"", "Puzzle", "Refused"}]

Types ==
  /\ scenario \in Scenarios
  /\ conns \in Seq(Connection)
  /\ mPendingConnections \in [Host -> SUBSET ConnId]
  /\ mConnectionList \in [Host -> SUBSET ConnId]
  /\ puzzles \in [Host -> Puzzles]
  /\ net \subseteq PacketSet
  /\ rejected \in [Host -> SUBSET (AnyNonce \X Nat)]

-----------------------------------------------------------------------------
(* The parts of the invariant are about connections cs, puzzle managers pz *)
(* and the pending connections pend of all hosts.                          *)

Ids(cs) == 1 .. Len(cs)

IsDirect(cs, c, h) ==
  c \in Ids(cs) /\ cs[c].owner = h /\ cs[c].initiator /\ ~cs[c].arranged

IsArranged(cs, c, h) == c \in Ids(cs) /\ cs[c].owner = h /\ cs[c].arranged

IsAccepted(cs, c) == c \in Ids(cs) /\ ~cs[c].initiator /\ ~cs[c].arranged

(* A pair of nonces for which m lets no connection be made (any more).     *)
IsUsed(m, nonce, serverNonce) ==
  /\ serverNonce <= m.mCurrentNonce
  /\ ~checkSolution(m, nonce, serverNonce)

(* What a connection can wait for.                                         *)
PendingRight(cp) ==
  /\ cp.told = << >>
  /\ \/ /\ ~cp.arranged /\ cp.initiator
        /\ cp.state \in {"AwaitingChallengeResponse", "ComputingPuzzleSolution",
                         "AwaitingConnectResponse"}
     \/ cp.arranged /\ cp.state = "SendingPunchPackets"
     \/ cp.arranged /\ cp.initiator /\ cp.state = "AwaitingConnectResponse"

(* The lists hold the connections that their states say.                   *)
ListsRight(cs, pend, list) ==
  \A h \in Host :
    /\ \A c \in pend[h] : cs[c].owner = h /\ PendingRight(cs[c])
    /\ list[h] = {c \in Ids(cs) : cs[c].owner = h /\ cs[c].state = "Connected"}

(* The renewed nonce is a new one.                                         *)
PuzzlesRight ==
  \A h \in Host :
    /\ puzzles[h].mCurrentNonce = puzzles[h].mLastNonce + 1
    /\ puzzles[h].mLastNonce <= scenario.ticks

(* Where the nonces of a connection come from ...                          *)
NoncesRight(cs, pz, c) ==
  /\ ~cs[c].arranged /\ cs[c].initiator =>
       /\ cs[c].owner \in Starters
       /\ cs[c].nonce \in {OwnNonce(c, 0), OwnNonce(c, 1)}
       /\ cs[c].serverNonce <= pz[Peer(cs[c].owner)].mCurrentNonce
  /\ ~cs[c].arranged /\ ~cs[c].initiator =>
       /\ IsDirect(cs, cs[c].recvSeq, Peer(cs[c].owner))
       /\ cs[c].nonce \in {OwnNonce(cs[c].recvSeq, 0), OwnNonce(cs[c].recvSeq, 1)}
       /\ IsUsed(pz[cs[c].owner], cs[c].nonce, cs[c].serverNonce)
  /\ cs[c].arranged =>
       /\ cs[c].initiator <=> cs[c].owner \in Starters
       /\ cs[c].serverNonce \in Nat \ {0}
       /\ cs[c].nonce = ArrangedNonce(cs[c].serverNonce)

(* ... and with whom it agrees when it is connected.                       *)
EndRight(cs, c) ==
  /\ cs[c].state = "Connected" /\ cs[c].initiator =>
       /\ cs[c].recvSeq \in Ids(cs)
       /\ cs[cs[c].recvSeq].owner = Peer(cs[c].owner)
       /\ ~cs[cs[c].recvSeq].initiator
       /\ SameRequest(cs[cs[c].recvSeq], cs[c])
  /\ cs[c].state = "Connected" /\ ~cs[c].initiator /\ cs[c].arranged =>
       /\ IsArranged(cs, cs[c].recvSeq, Peer(cs[c].owner))
       /\ cs[cs[c].recvSeq].nonce = cs[c].nonce

AddressRight(cp) ==
  /\ cp.addr \in {NoAddress, Peer(cp.owner)}
  /\ ~cp.arranged \/ cp.state = "Connected" => cp.addr = Peer(cp.owner)

ToldRight(cp) ==
  cp.state = "Connected" <=> cp.told = <<"onConnectionEstablished">>

ConnectionRight(cs, pz, c) ==
  /\ NoncesRight(cs, pz, c) /\ EndRight(cs, c)
  /\ AddressRight(cs[c]) /\ ToldRight(cs[c])
  /\ cs[c].recvSeq \in Ids(cs) \union {0}

(* Requests that are the same come from the same connection.               *)
RequestsDiffer(cs) ==
  \A c, d \in Ids(cs) : c # d /\ cs[c].owner = cs[d].owner =>
    /\ cs[c].arranged /\ cs[d].arranged => cs[c].nonce # cs[d].nonce
    /\ IsAccepted(cs, c) /\ IsAccepted(cs, d) => ~SameRequest(cs[c], cs[d])

(* What a packet says is true of the connection that sent it.              *)
PacketRight(cs, pz, p) ==
  /\ p.to \in Host => p.from = Peer(p.to)
  /\ p.type = "ConnectChallengeResponse" =>
       p.serverNonce <= pz[p.from].mCurrentNonce
  /\ p.type = "ConnectRequest" =>
       /\ IsDirect(cs, p.seq, p.from)
       /\ p.nonce \in {OwnNonce(p.seq, 0), OwnNonce(p.seq, 1)}
       /\ p.serverNonce <= pz[Peer(p.from)].mCurrentNonce
  /\ p.type = "ArrangedConnectRequest" =>
       /\ IsArranged(cs, p.seq, p.from)
       /\ cs[p.seq].initiator
       /\ cs[p.seq].nonce = p.nonce
  /\ p.type = "ConnectAccept" =>
       /\ p.seq \in Ids(cs)
       /\ cs[p.seq].owner = p.from
       /\ ~cs[p.seq].initiator
       /\ SameRequest(cs[p.seq], p)
  /\ p.type = "ConnectReject" /\ p.reason = "Puzzle" =>
       \E c \in Nat \ {0} : p.nonce \in {OwnNonce(c, 0), OwnNonce(c, 1)}

(* What has been refused is used up, or was arranged and is gone.          *)
IsGone(cs, C, h, nonce) ==
  \E c \in Ids(cs) :
    /\ IsArranged(cs, c, h)
    /\ cs[c].nonce = nonce
    /\ cs[c].state # "Connected" /\ c \notin C

RefusalRight(cs, pz, C, h, nonce, serverNonce) ==
  \/ IsGone(cs, C, h, nonce)
  \/ /\ IsUsed(pz[h], nonce, serverNonce)
     /\ \E c \in Ids(cs) : /\ IsDirect(cs, c, Peer(h))
                           /\ nonce \in {OwnNonce(c, 0), OwnNonce(c, 1)}

(* No connection of h is there that h has refused.                         *)
NotRefused(cs, h, R) ==
  \A c \in Ids(cs) : cs[c].owner = h /\ cs[c].state = "Connected" =>
    <<cs[c].nonce, cs[c].serverNonce>> \notin R

ConnectionsRight == \A c \in ConnId : ConnectionRight(conns, puzzles, c)

PacketsRight == \A p \in net : PacketRight(conns, puzzles, p)

RefusalsRight ==
  \A h \in Host :
    /\ \A r \in rejected[h] :
         RefusalRight(conns, puzzles, mPendingConnections[h], h, r[1], r[2])
    /\ NotRefused(conns, h, rejected[h])

(* As many are arranged as the bound of the model says, and with direct    *)
(* connections only a host has at most one at a time.                      *)
FewArranged ==
  \A c \in ConnId : conns[c].arranged => conns[c].serverNonce <= scenario.arranged

OneAtATime ==
  scenario.arranged = 0 =>
    \A h \in Host : \A c, d \in mPendingConnections[h] \union mConnectionList[h] : c = d

IInv ==
  /\ Types /\ ListsRight(conns, mPendingConnections, mConnectionList)
  /\ PuzzlesRight /\ ConnectionsRight /\ RequestsDiffer(conns)
  /\ PacketsRight /\ RefusalsRight /\ FewArranged /\ OneAtATime

-----------------------------------------------------------------------------
(* There are two hosts, one of which starts connections.                   *)
LEMMA PeerFacts ==
  /\ \A h \in Host : Peer(h) \in Host /\ Peer(h) # h /\ Peer(Peer(h)) = h
  /\ \A g, h \in Host : g # h => g = Peer(h)
  /\ \A h \in Host : h \in Starters <=> Peer(h) \notin Starters
  /\ NoAddress \notin Host
<1>1. PICK g, h \in Host : g # h /\ Host = {g, h} /\ Starters = {h}
  BY NetInterfaceAssumption
<1>2. Peer(g) = h /\ Peer(h) = g
  BY <1>1 DEF Peer
<1>. QED
  BY <1>1, <1>2, NetInterfaceAssumption

(* checkSolution, table by table.                                          *)
LEMMA UsedFacts ==
  ASSUME NEW m \in Puzzles, NEW n, NEW s \in Nat, m.mCurrentNonce = m.mLastNonce + 1
  PROVE  /\ IsUsed(m, n, s) <=>
              /\ s <= m.mCurrentNonce
              /\ s = m.mCurrentNonce => n \in m.mCurrentNonceTable
              /\ s = m.mLastNonce => n \in m.mLastNonceTable
         /\ checkSolution(m, n, s) => s <= m.mCurrentNonce
BY DEF IsUsed, checkSolution, TableFor, Puzzles

LEMMA AddedFacts ==
  ASSUME NEW m \in Puzzles, NEW n \in AnyNonce, NEW s \in Nat,
         m.mCurrentNonce = m.mLastNonce + 1
  PROVE  /\ NonceAdded(m, n, s) \in Puzzles
         /\ NonceAdded(m, n, s).mCurrentNonce = m.mCurrentNonce
         /\ NonceAdded(m, n, s).mLastNonce = m.mLastNonce
         /\ m.mCurrentNonceTable \subseteq NonceAdded(m, n, s).mCurrentNonceTable
         /\ m.mLastNonceTable \subseteq NonceAdded(m, n, s).mLastNonceTable
         /\ s = m.mCurrentNonce => n \in NonceAdded(m, n, s).mCurrentNonceTable
         /\ s = m.mLastNonce => n \in NonceAdded(m, n, s).mLastNonceTable
<1>. DEFINE k == NonceAdded(m, n, s)
<1>1. DOMAIN m = {"mCurrentNonce", "mLastNonce", "mCurrentNonceTable", "mLastNonceTable"}
  BY DEF Puzzles
<1>2. k = [field \in {"mCurrentNonce", "mLastNonce", "mCurrentNonceTable",
                      "mLastNonceTable"} |->
             IF field \in TableFor(m, s) THEN m[field] \union {n} ELSE m[field]]
  BY <1>1 DEF NonceAdded
<1>3. /\ "mCurrentNonceTable" \in TableFor(m, s) <=> s = m.mCurrentNonce
      /\ "mLastNonceTable" \in TableFor(m, s) <=> s = m.mLastNonce
      /\ "mCurrentNonce" \notin TableFor(m, s)
      /\ "mLastNonce" \notin TableFor(m, s)
  BY DEF TableFor, Puzzles
<1>4. /\ k.mCurrentNonce = m.mCurrentNonce /\ k.mLastNonce = m.mLastNonce
      /\ k.mCurrentNonceTable =
              IF s = m.mCurrentNonce THEN m.mCurrentNonceTable \union {n}
                                     ELSE m.mCurrentNonceTable
      /\ k.mLastNonceTable =
              IF s = m.mLastNonce THEN m.mLastNonceTable \union {n}
                                  ELSE m.mLastNonceTable
  BY <1>2, <1>3
<1>5. k = [mCurrentNonce |-> k.mCurrentNonce, mLastNonce |-> k.mLastNonce,
           mCurrentNonceTable |-> k.mCurrentNonceTable,
           mLastNonceTable |-> k.mLastNonceTable]
  BY <1>2
<1>6. /\ m.mCurrentNonce \in Nat /\ m.mLastNonce \in Nat
      /\ m.mCurrentNonceTable \subseteq AnyNonce /\ m.mLastNonceTable \subseteq AnyNonce
  BY DEF Puzzles
<1>7. /\ k.mCurrentNonceTable \in SUBSET AnyNonce /\ k.mLastNonceTable \in SUBSET AnyNonce
  BY <1>4, <1>6
<1>8. [mCurrentNonce |-> k.mCurrentNonce, mLastNonce |-> k.mLastNonce,
           mCurrentNonceTable |-> k.mCurrentNonceTable,
           mLastNonceTable |-> k.mLastNonceTable] \in Puzzles
  BY <1>4, <1>6, <1>7 DEF Puzzles
<1>. QED
  BY <1>4, <1>5, <1>6, <1>8

(* What is used stays used when a nonce is added and when the server nonce  *)
(* is renewed.                                                             *)
LEMMA UsedWhenAdded ==
  ASSUME NEW m \in Puzzles, NEW n \in AnyNonce, NEW s \in Nat,
         m.mCurrentNonce = m.mLastNonce + 1
  PROVE  /\ s <= m.mCurrentNonce => IsUsed(NonceAdded(m, n, s), n, s)
         /\ \A j \in AnyNonce, t \in Nat :
              IsUsed(m, j, t) => IsUsed(NonceAdded(m, n, s), j, t)
<1>. DEFINE k == NonceAdded(m, n, s)
<1>1. /\ k \in Puzzles /\ k.mCurrentNonce = k.mLastNonce + 1
      /\ k.mCurrentNonce = m.mCurrentNonce /\ k.mLastNonce = m.mLastNonce
      /\ m.mCurrentNonceTable \subseteq k.mCurrentNonceTable
      /\ m.mLastNonceTable \subseteq k.mLastNonceTable
      /\ s = m.mCurrentNonce => n \in k.mCurrentNonceTable
      /\ s = m.mLastNonce => n \in k.mLastNonceTable
  BY AddedFacts
<1>2. s <= m.mCurrentNonce => IsUsed(k, n, s)
  BY <1>1, UsedFacts
<1>. SUFFICES ASSUME NEW j \in AnyNonce, NEW t \in Nat, IsUsed(m, j, t)
              PROVE  IsUsed(k, j, t)
  BY <1>2
<1>3. /\ t <= m.mCurrentNonce
      /\ t = m.mCurrentNonce => j \in m.mCurrentNonceTable
      /\ t = m.mLastNonce => j \in m.mLastNonceTable
  BY UsedFacts
<1>. QED
  BY <1>1, <1>3, UsedFacts

LEMMA UsedWhenRenewed ==
  ASSUME NEW m \in Puzzles, m.mCurrentNonce = m.mLastNonce + 1,
         NEW k, k = Renewed(m)
  PROVE  /\ k \in Puzzles /\ k.mCurrentNonce = k.mLastNonce + 1
         /\ k.mLastNonce = m.mLastNonce + 1
         /\ \A j \in AnyNonce, t \in Nat : IsUsed(m, j, t) => IsUsed(k, j, t)
<1>1. /\ k \in Puzzles /\ k.mCurrentNonce = k.mLastNonce + 1
      /\ k.mLastNonce = m.mLastNonce + 1
      /\ k.mLastNonceTable = m.mCurrentNonceTable
  BY DEF Puzzles, Renewed
<1>. SUFFICES ASSUME NEW j \in AnyNonce, NEW t \in Nat, IsUsed(m, j, t)
              PROVE  IsUsed(k, j, t)
  BY <1>1
<1>2. /\ t <= m.mCurrentNonce /\ m.mCurrentNonce \in Nat /\ k.mLastNonce \in Nat
      /\ t = m.mCurrentNonce => j \in m.mCurrentNonceTable
  BY <1>1, UsedFacts DEF Puzzles
<1>3. t <= k.mCurrentNonce /\ t # k.mCurrentNonce /\ (t = k.mLastNonce => t = m.mCurrentNonce)
  BY <1>1, <1>2
<1>. QED
  BY <1>1, <1>2, <1>3, UsedFacts

(* The puzzle managers of a later state.                                   *)
Monotone(pz, qz) ==
  \A h \in Host :
    /\ pz[h].mCurrentNonce <= qz[h].mCurrentNonce
    /\ \A n \in AnyNonce, s \in Nat : IsUsed(pz[h], n, s) => IsUsed(qz[h], n, s)

PuzzlesLater ==
  /\ Monotone(puzzles, puzzles')
  /\ puzzles' \in [Host -> Puzzles]
  /\ PuzzlesRight'

LEMMA PuzzleTypes ==
  ASSUME Types, PuzzlesRight
  PROVE  /\ puzzles \in [Host -> Puzzles]
         /\ \A g \in Host : /\ puzzles[g] \in Puzzles
                            /\ puzzles[g].mCurrentNonce \in Nat
                            /\ puzzles[g].mLastNonce \in Nat
                            /\ puzzles[g].mCurrentNonce = puzzles[g].mLastNonce + 1
         /\ scenario.ticks \in Nat
BY NetInterfaceAssumption DEF Types, PuzzlesRight, Puzzles

LEMMA LaterWhenSame ==
  ASSUME Types, PuzzlesRight, UNCHANGED <<puzzles, scenario>>
  PROVE  PuzzlesLater
BY PuzzleTypes DEF PuzzlesLater, Monotone, PuzzlesRight

LEMMA LaterWhenAdded ==
  ASSUME Types, PuzzlesRight, NEW h \in Host, NEW n \in AnyNonce, NEW s \in Nat,
         checkSolution(puzzles[h], n, s), scenario' = scenario,
         puzzles' = [puzzles EXCEPT ![h] = NonceAdded(@, n, s)]
  PROVE  PuzzlesLater /\ IsUsed(puzzles'[h], n, s)
<1>1. \A g \in Host : /\ g # h => puzzles'[g] = puzzles[g]
                      /\ puzzles'[h] = NonceAdded(puzzles[h], n, s)
  BY PuzzleTypes
<1>2. /\ puzzles'[h] \in Puzzles
      /\ puzzles'[h].mCurrentNonce = puzzles[h].mCurrentNonce
      /\ puzzles'[h].mLastNonce = puzzles[h].mLastNonce
  BY <1>1, PuzzleTypes, AddedFacts
<1>3. s <= puzzles[h].mCurrentNonce
  BY PuzzleTypes, UsedFacts
<1>4. IsUsed(puzzles'[h], n, s)
  BY <1>1, <1>3, PuzzleTypes, UsedWhenAdded
<1>5. \A j \in AnyNonce, t \in Nat : IsUsed(puzzles[h], j, t) => IsUsed(puzzles'[h], j, t)
  BY <1>1, PuzzleTypes, UsedWhenAdded
<1>6. Monotone(puzzles, puzzles')
  BY <1>1, <1>2, <1>5, PuzzleTypes DEF Monotone
<1>7. puzzles' \in [Host -> Puzzles]
  BY <1>1, <1>2, PuzzleTypes
<1>8. PuzzlesRight'
  BY <1>1, <1>2, PuzzleTypes DEF PuzzlesRight
<1>. QED
  BY <1>4, <1>6, <1>7, <1>8 DEF PuzzlesLater

LEMMA LaterWhenRenewed ==
  ASSUME Types, PuzzlesRight, NEW h \in Host,
         puzzles[h].mLastNonce < scenario.ticks, scenario' = scenario,
         puzzles' = [puzzles EXCEPT ![h] = Renewed(@)]
  PROVE  PuzzlesLater
<1>1. \A g \in Host : /\ g # h => puzzles'[g] = puzzles[g]
                      /\ puzzles'[h] = Renewed(puzzles[h])
  BY PuzzleTypes
<1>2. /\ puzzles'[h] \in Puzzles
      /\ puzzles'[h].mCurrentNonce = puzzles'[h].mLastNonce + 1
      /\ puzzles'[h].mLastNonce = puzzles[h].mLastNonce + 1
      /\ \A j \in AnyNonce, t \in Nat : IsUsed(puzzles[h], j, t) => IsUsed(puzzles'[h], j, t)
  BY <1>1, PuzzleTypes, UsedWhenRenewed
<1>3. Monotone(puzzles, puzzles')
  BY <1>1, <1>2, PuzzleTypes DEF Monotone
<1>4. puzzles' \in [Host -> Puzzles]
  BY <1>1, <1>2, PuzzleTypes
<1>5. PuzzlesRight'
  BY <1>1, <1>2, PuzzleTypes DEF PuzzlesRight
<1>. QED
  BY <1>3, <1>4, <1>5 DEF PuzzlesLater

-----------------------------------------------------------------------------
(* In a later state connections may have been added and others may have    *)
(* changed, but not whose they are, nor the nonces of those that wait for  *)
(* no challenge.                                                           *)
Evolves(cs, ds) ==
  /\ Ids(cs) \subseteq Ids(ds)
  /\ \A c \in Ids(cs) :
       /\ ds[c].owner = cs[c].owner
       /\ ds[c].initiator = cs[c].initiator
       /\ ds[c].arranged = cs[c].arranged
       /\ cs[c].arranged \/ ~cs[c].initiator => SameRequest(ds[c], cs[c])

(* An established connection is closed.                                    *)
Ended(cp) == Becomes(cp, "Disconnected", "onConnectionTerminated")

LEMMA AppendSecond ==
  ASSUME NEW e, NEW f
  PROVE  Append(<<e>>, f) = <<e, f>>
<1>. DEFINE a == Append(<<e>>, f)  b == <<e, f>>
<1>1. /\ <<e>> \in Seq({e, f}) /\ Len(<<e>>) = 1 /\ <<e>>[1] = e
      /\ b \in Seq({e, f}) /\ Len(b) = 2 /\ b[1] = e /\ b[2] = f
  OBVIOUS
<1>2. a \in Seq({e, f}) /\ Len(a) = 2 /\ a[1] = e /\ a[2] = f
  BY <1>1, AppendProperties
<1>3. \A i \in 1 .. Len(a) : a[i] = b[i]
  BY <1>1, <1>2
<1>. HIDE DEF a, b
<1>4. a = b
  BY <1>1, <1>2, <1>3, SeqEqual
<1>. QED
  BY <1>4 DEF a, b

LEMMA TaleFacts ==
  /\ Append(<< >>, "onConnectTerminated") = <<"onConnectTerminated">>
  /\ Append(<< >>, "onConnectionEstablished") = <<"onConnectionEstablished">>
  /\ Append(<<"onConnectionEstablished">>, "onConnectionTerminated")
       = <<"onConnectionEstablished", "onConnectionTerminated">>
  /\ <<"onConnectionEstablished", "onConnectionTerminated">> # <<"onConnectionEstablished">>
  /\ << >> # <<"onConnectionEstablished">>
  /\ <<"onConnectTerminated">> # <<"onConnectionEstablished">>
<1>1. Append(<< >>, "onConnectTerminated") = <<"onConnectTerminated">>
  OBVIOUS
<1>2. Append(<< >>, "onConnectionEstablished") = <<"onConnectionEstablished">>
  OBVIOUS
<1>3. /\ Len(<<"onConnectionEstablished", "onConnectionTerminated">>) = 2
      /\ Len(<<"onConnectionEstablished">>) = 1
  OBVIOUS
<1>4. << >> # <<"onConnectionEstablished">>
  OBVIOUS
<1>5. <<"onConnectTerminated">> # <<"onConnectionEstablished">>
  OBVIOUS
<1>. QED
  BY <1>1, <1>2, <1>3, <1>4, <1>5, AppendSecond

(* A connection changes its state and says so.                             *)
SameParameters(b, cp) ==
  /\ b.owner = cp.owner /\ b.addr = cp.addr
  /\ b.nonce = cp.nonce /\ b.serverNonce = cp.serverNonce
  /\ b.initiator = cp.initiator /\ b.arranged = cp.arranged
  /\ b.recvSeq = cp.recvSeq

LEMMA BecomesFacts ==
  ASSUME NEW cp \in Connection, NEW st \in State, NEW callback,
         Append(cp.told, callback) \in Tales
  PROVE  /\ Becomes(cp, st, callback) \in Connection
         /\ Becomes(cp, st, callback).state = st
         /\ Becomes(cp, st, callback).told = Append(cp.told, callback)
         /\ SameParameters(Becomes(cp, st, callback), cp)
BY DEF Connection, Becomes, SameParameters

LEMMA EndedFacts ==
  ASSUME NEW cp \in Connection, ToldRight(cp), cp.state = "Connected"
  PROVE  /\ Ended(cp) \in Connection
         /\ Ended(cp).state = "Disconnected"
         /\ Ended(cp).told = <<"onConnectionEstablished", "onConnectionTerminated">>
         /\ SameParameters(Ended(cp), cp)
<1>1. Append(cp.told, "onConnectionTerminated")
        = <<"onConnectionEstablished", "onConnectionTerminated">>
  BY TaleFacts DEF ToldRight
<1>2. "Disconnected" \in State /\ Append(cp.told, "onConnectionTerminated") \in Tales
  BY <1>1 DEF State, Tales
<1>. QED
  BY <1>1, <1>2, BecomesFacts DEF Ended

(* What a packet says stays true.                                          *)
LEMMA PacketKept ==
  ASSUME NEW cs, NEW ds, NEW pz \in [Host -> Puzzles], NEW qz \in [Host -> Puzzles],
         NEW p \in PacketSet, Evolves(cs, ds), Monotone(pz, qz), PacketRight(cs, pz, p)
  PROVE  PacketRight(ds, qz, p)
<1>1. /\ p.from \in Host /\ p.serverNonce \in Nat
      /\ Peer(p.from) \in Host
      /\ \A h \in Host : /\ pz[h].mCurrentNonce \in Nat
                         /\ qz[h].mCurrentNonce \in Nat
                         /\ pz[h].mCurrentNonce <= qz[h].mCurrentNonce
  BY PeerFacts DEF PacketSet, Puzzles, Monotone
<1>2. p.to \in Host => p.from = Peer(p.to)
  BY DEF PacketRight
<1>3. p.type = "ConnectChallengeResponse" =>
        p.serverNonce <= qz[p.from].mCurrentNonce
  BY <1>1 DEF PacketRight
<1>4. p.type = "ConnectRequest" =>
       /\ IsDirect(ds, p.seq, p.from)
       /\ p.nonce \in {OwnNonce(p.seq, 0), OwnNonce(p.seq, 1)}
       /\ p.serverNonce <= qz[Peer(p.from)].mCurrentNonce
  BY <1>1 DEF PacketRight, IsDirect, Evolves
<1>5. p.type = "ArrangedConnectRequest" =>
       /\ IsArranged(ds, p.seq, p.from)
       /\ ds[p.seq].initiator
       /\ ds[p.seq].nonce = p.nonce
  BY <1>1 DEF PacketRight, IsArranged, Evolves, SameRequest
<1>6. p.type = "ConnectAccept" =>
       /\ p.seq \in Ids(ds)
       /\ ds[p.seq].owner = p.from
       /\ ~ds[p.seq].initiator
       /\ SameRequest(ds[p.seq], p)
  BY <1>1 DEF PacketRight, Evolves, SameRequest
<1>7. p.type = "ConnectReject" /\ p.reason = "Puzzle" =>
       \E c \in Nat \ {0} : p.nonce \in {OwnNonce(c, 0), OwnNonce(c, 1)}
  BY DEF PacketRight
<1>. QED
  BY <1>2, <1>3, <1>4, <1>5, <1>6, <1>7 DEF PacketRight

(* So does what is known of a connection, if it is not closed.             *)
LEMMA ConnectionKept ==
  ASSUME NEW cs, NEW ds, NEW pz \in [Host -> Puzzles], NEW qz \in [Host -> Puzzles],
         Evolves(cs, ds), Monotone(pz, qz), NEW c \in Ids(cs), cs[c] \in Connection,
         ConnectionRight(cs, pz, c),
         ds[c] = cs[c] \/ (cs[c].state = "Connected" /\ ds[c] = Ended(cs[c]))
  PROVE  ConnectionRight(ds, qz, c)
<1>1. /\ cs[c].owner \in Host /\ Peer(cs[c].owner) \in Host
      /\ cs[c].nonce \in AnyNonce /\ cs[c].serverNonce \in Nat
      /\ \A h \in Host : /\ pz[h].mCurrentNonce \in Nat
                         /\ qz[h].mCurrentNonce \in Nat
                         /\ pz[h].mCurrentNonce <= qz[h].mCurrentNonce
  BY PeerFacts DEF Connection, Puzzles, Monotone
<1>2. /\ ds[c].owner = cs[c].owner /\ ds[c].addr = cs[c].addr
      /\ ds[c].nonce = cs[c].nonce /\ ds[c].serverNonce = cs[c].serverNonce
      /\ ds[c].initiator = cs[c].initiator /\ ds[c].arranged = cs[c].arranged
      /\ ds[c].recvSeq = cs[c].recvSeq
      /\ ds[c].state = "Connected" => cs[c].state = "Connected"
  BY EndedFacts DEF ConnectionRight, SameParameters
<1>3. NoncesRight(ds, qz, c)
  <2>1. ~cs[c].arranged /\ cs[c].initiator =>
          /\ cs[c].owner \in Starters
          /\ cs[c].nonce \in {OwnNonce(c, 0), OwnNonce(c, 1)}
          /\ cs[c].serverNonce <= qz[Peer(cs[c].owner)].mCurrentNonce
    BY <1>1 DEF ConnectionRight, NoncesRight
  <2>2. ~cs[c].arranged /\ ~cs[c].initiator =>
          /\ IsDirect(ds, cs[c].recvSeq, Peer(cs[c].owner))
          /\ cs[c].nonce \in {OwnNonce(cs[c].recvSeq, 0), OwnNonce(cs[c].recvSeq, 1)}
          /\ IsUsed(qz[cs[c].owner], cs[c].nonce, cs[c].serverNonce)
    BY <1>1 DEF ConnectionRight, NoncesRight, IsDirect, Evolves, Monotone
  <2>3. cs[c].arranged =>
          /\ cs[c].initiator <=> cs[c].owner \in Starters
          /\ cs[c].serverNonce \in Nat \ {0}
          /\ cs[c].nonce = ArrangedNonce(cs[c].serverNonce)
    BY DEF ConnectionRight, NoncesRight
  <2>. QED
    BY <1>2, <2>1, <2>2, <2>3 DEF NoncesRight
<1>4. EndRight(ds, c)
  <2>1. cs[c].state = "Connected" /\ cs[c].initiator =>
          /\ cs[c].recvSeq \in Ids(ds)
          /\ ds[cs[c].recvSeq].owner = Peer(cs[c].owner)
          /\ ~ds[cs[c].recvSeq].initiator
          /\ SameRequest(ds[cs[c].recvSeq], cs[c])
    BY DEF ConnectionRight, EndRight, Evolves, SameRequest
  <2>2. cs[c].state = "Connected" /\ ~cs[c].initiator /\ cs[c].arranged =>
          /\ IsArranged(ds, cs[c].recvSeq, Peer(cs[c].owner))
          /\ ds[cs[c].recvSeq].nonce = cs[c].nonce
    BY DEF ConnectionRight, EndRight, Evolves, SameRequest, IsArranged
  <2>. QED
    BY <1>2, <2>1, <2>2 DEF EndRight, SameRequest
<1>5. AddressRight(ds[c])
  BY <1>2 DEF ConnectionRight, AddressRight
<1>6. ToldRight(ds[c])
  BY EndedFacts, TaleFacts DEF ConnectionRight, ToldRight
<1>7. ds[c].recvSeq \in Ids(ds) \union {0}
  BY <1>2 DEF ConnectionRight, Evolves
<1>. QED
  BY <1>3, <1>4, <1>5, <1>6, <1>7 DEF ConnectionRight

(* And what is known of a refusal, if no connection that is gone returns.  *)
LEMMA RefusalKept ==
  ASSUME NEW cs, NEW ds, NEW pz \in [Host -> Puzzles], NEW qz \in [Host -> Puzzles],
         Evolves(cs, ds), Monotone(pz, qz), NEW h \in Host, NEW C, NEW D,
         NEW n \in AnyNonce, NEW s \in Nat, RefusalRight(cs, pz, C, h, n, s),
         \A c \in Ids(cs) : cs[c].owner = h /\ cs[c].state # "Connected" /\ c \notin C
                              => ds[c].state # "Connected" /\ c \notin D
  PROVE  RefusalRight(ds, qz, D, h, n, s)
<1>1. CASE IsGone(cs, C, h, n)
  BY <1>1 DEF IsGone, RefusalRight, IsArranged, Evolves, SameRequest
<1>2. CASE /\ IsUsed(pz[h], n, s)
           /\ \E c \in Ids(cs) : /\ IsDirect(cs, c, Peer(h))
                                 /\ n \in {OwnNonce(c, 0), OwnNonce(c, 1)}
  <2>1. IsUsed(qz[h], n, s)
    BY <1>2 DEF Monotone
  <2>. QED
    BY <1>2, <2>1 DEF RefusalRight, IsDirect, Evolves
<1>. QED
  BY <1>1, <1>2 DEF RefusalRight

-----------------------------------------------------------------------------
(* What a step of host h does: it closes the connections old, and the one  *)
(* connection of N, if any, is cp now; P are pending now.                  *)
Changes(h, N, cp, old, P) ==
  /\ scenario' = scenario
  /\ \E n : N \subseteq {n}
  /\ old \subseteq mConnectionList[h]
  /\ conns' \in Seq(Connection)
  /\ Ids(conns') = ConnId \union N
  /\ \A c \in N : conns'[c] = cp
  /\ \A c \in ConnId \ N : conns'[c] = IF c \in old THEN Ended(conns[c]) ELSE conns[c]
  /\ mPendingConnections' = [mPendingConnections EXCEPT ![h] = P]
  /\ mConnectionList' =
       [mConnectionList EXCEPT
          ![h] = (@ \ (old \union N)) \union {c \in N : cp.state = "Connected"}]

(* A connection does not change what it is, and comes to be established    *)
(* only from pending.                                                      *)
OldConnectionMay(h, c, cp, P) ==
  /\ conns[c].owner = h
  /\ cp.initiator = conns[c].initiator
  /\ cp.arranged = conns[c].arranged
  /\ cp.arranged \/ ~cp.initiator \/ cp.state = "Connected" => SameRequest(cp, conns[c])
  /\ cp.state = "Connected" \/ c \in P => c \in mPendingConnections[h]

(* One that is accepted is for a solution that was not used.               *)
NewConnectionMay(h, cp) ==
  /\ cp.arranged =>
       /\ cp.state # "Connected"
       /\ \A d \in ConnId : conns[d].owner = h => conns[d].nonce # cp.nonce
  /\ ~cp.arranged /\ cp.initiator => cp.state # "Connected"
  /\ ~cp.arranged /\ ~cp.initiator => ~IsUsed(puzzles[h], cp.nonce, cp.serverNonce)

Allowed(h, N, cp, P) ==
  /\ P \subseteq mPendingConnections[h] \union N
  /\ \A c \in N :
       /\ cp \in Connection
       /\ cp.owner = h
       /\ c \in P => PendingRight(cp)
       /\ IF c \in ConnId THEN OldConnectionMay(h, c, cp, P) ELSE NewConnectionMay(h, cp)
       /\ cp.arranged => cp.serverNonce <= scenario.arranged

LEMMA TypeFacts ==
  ASSUME IInv
  PROVE  /\ ConnId = Ids(conns)
         /\ \A c \in ConnId :
              /\ conns[c] \in Connection
              /\ ConnectionRight(conns, puzzles, c)
              /\ conns[c].owner \in Host
              /\ conns[c].nonce \in AnyNonce /\ conns[c].serverNonce \in Nat
         /\ \A h \in Host :
              /\ mPendingConnections[h] \subseteq ConnId
              /\ \A c \in mPendingConnections[h] :
                   conns[c].owner = h /\ PendingRight(conns[c])
              /\ mConnectionList[h] \subseteq ConnId
              /\ \A c \in ConnId : c \in mConnectionList[h] <=>
                   conns[c].owner = h /\ conns[c].state = "Connected"
<1>1. ConnId = Ids(conns) /\ Len(conns) \in Nat
  BY DEF IInv, Types, ConnId, Ids
<1>2. \A c \in ConnId : conns[c] \in Connection
  BY <1>1, ElementOfSeq DEF IInv, Types, Ids
<1>3. \A c \in ConnId : /\ conns[c].owner \in Host
                        /\ conns[c].nonce \in AnyNonce /\ conns[c].serverNonce \in Nat
  BY <1>2 DEF Connection
<1>4. \A c \in ConnId : ConnectionRight(conns, puzzles, c)
  BY DEF IInv, ConnectionsRight
<1>5. \A h \in Host :
        /\ mPendingConnections[h] \subseteq ConnId
        /\ \A c \in mPendingConnections[h] :
             conns[c].owner = h /\ PendingRight(conns[c])
        /\ mConnectionList[h] \subseteq ConnId
        /\ \A c \in ConnId : c \in mConnectionList[h] <=>
             conns[c].owner = h /\ conns[c].state = "Connected"
  BY <1>1 DEF IInv, Types, ListsRight
<1>. QED
  BY <1>1, <1>2, <1>3, <1>4, <1>5

LEMMA NumberFacts ==
  ASSUME IInv
  PROVE  Len(conns) \in Nat /\ Len(conns) + 1 \notin ConnId /\ 0 \notin ConnId
BY DEF IInv, Types, ConnId

(* The connections in a step.                                              *)
LEMMA StepFacts ==
  ASSUME IInv, NEW h \in Host, NEW N, NEW cp, NEW old, NEW P,
         Changes(h, N, cp, old, P), Allowed(h, N, cp, P)
  PROVE  /\ Evolves(conns, conns')
         /\ \A c \in ConnId \ N :
              \/ conns'[c] = conns[c]
              \/ /\ conns[c].state = "Connected" /\ conns[c].owner = h
                 /\ conns'[c] = Ended(conns[c]) /\ conns'[c].state = "Disconnected"
         /\ \A c \in ConnId \ N :
              /\ SameParameters(conns'[c], conns[c])
              /\ conns'[c].state = "Connected" <=>
                   conns[c].state = "Connected" /\ c \notin old
<1>1. \A c \in ConnId \ N :
        \/ conns'[c] = conns[c] /\ c \notin old
        \/ /\ conns[c].state = "Connected" /\ conns[c].owner = h /\ c \in old
           /\ conns'[c] = Ended(conns[c]) /\ conns'[c].state = "Disconnected"
           /\ SameParameters(conns'[c], conns[c])
  BY TypeFacts, EndedFacts DEF Changes, ConnectionRight
<1>2. \A c \in ConnId \ N :
        /\ SameParameters(conns'[c], conns[c])
        /\ conns'[c].state = "Connected" <=> conns[c].state = "Connected" /\ c \notin old
  BY <1>1 DEF SameParameters
<1>3. Evolves(conns, conns')
  <2>1. Ids(conns) \subseteq Ids(conns')
    BY TypeFacts DEF Changes
  <2>2. ASSUME NEW c \in ConnId
        PROVE  /\ conns'[c].owner = conns[c].owner
               /\ conns'[c].initiator = conns[c].initiator
               /\ conns'[c].arranged = conns[c].arranged
               /\ conns[c].arranged \/ ~conns[c].initiator => SameRequest(conns'[c], conns[c])
    <3>1. CASE c \in N
      BY <3>1 DEF Changes, Allowed, OldConnectionMay
    <3>2. CASE c \notin N
      BY <3>2, <1>2 DEF SameParameters, SameRequest
    <3>. QED
      BY <3>1, <3>2
  <2>. QED
    BY <2>1, <2>2, TypeFacts DEF Evolves
<1>. QED
  BY <1>1, <1>2, <1>3

LEMMA ListsKept ==
  ASSUME IInv, NEW h \in Host, NEW N, NEW cp, NEW old, NEW P,
         Changes(h, N, cp, old, P), Allowed(h, N, cp, P)
  PROVE  /\ scenario' \in Scenarios
         /\ mPendingConnections' \in [Host -> SUBSET Ids(conns')]
         /\ mConnectionList' \in [Host -> SUBSET Ids(conns')]
         /\ ListsRight(conns', mPendingConnections', mConnectionList')
<1>1. /\ mPendingConnections \in [Host -> SUBSET ConnId]
      /\ mConnectionList \in [Host -> SUBSET ConnId]
  BY DEF IInv, Types
<1>2. Ids(conns') = ConnId \union N /\ \A c \in N : conns'[c] = cp
  BY DEF Changes
<1>3. /\ P \subseteq Ids(conns')
      /\ mPendingConnections'[h] = P
      /\ mConnectionList'[h] = (mConnectionList[h] \ (old \union N))
                                 \union {c \in N : cp.state = "Connected"}
      /\ \A g \in Host : g # h => /\ mPendingConnections'[g] = mPendingConnections[g]
                                  /\ mConnectionList'[g] = mConnectionList[g]
  BY <1>1, <1>2 DEF Changes, Allowed
<1>4. /\ mPendingConnections' \in [Host -> SUBSET Ids(conns')]
      /\ mConnectionList' \in [Host -> SUBSET Ids(conns')]
  BY <1>1, <1>2, <1>3 DEF Changes
<1>5. ASSUME NEW g \in Host, NEW c \in mPendingConnections'[g]
      PROVE  conns'[c].owner = g /\ PendingRight(conns'[c])
  <2>1. CASE c \in N
    <3>1. g = h
      BY <2>1, <1>3, TypeFacts DEF Allowed, OldConnectionMay
    <3>. QED
      BY <2>1, <3>1, <1>2, <1>3 DEF Allowed
  <2>2. CASE c \notin N
    <3>1. c \in mPendingConnections[g]
      BY <2>2, <1>3 DEF Allowed
    <3>2. conns'[c] = conns[c]
      BY <2>2, <3>1, StepFacts, TypeFacts DEF PendingRight
    <3>. QED
      BY <3>1, <3>2, TypeFacts
  <2>. QED
    BY <2>1, <2>2
<1>6. ASSUME NEW g \in Host, NEW c \in Ids(conns')
      PROVE  c \in mConnectionList'[g] <=> conns'[c].owner = g /\ conns'[c].state = "Connected"
  <2>1. CASE c \in N
    <3>1. g # h => c \notin mConnectionList[g]
      BY <2>1, TypeFacts DEF Allowed, OldConnectionMay
    <3>. QED
      BY <2>1, <3>1, <1>2, <1>3 DEF Allowed
  <2>2. CASE c \notin N
    <3>1. /\ c \in ConnId
          /\ conns'[c].owner = conns[c].owner
          /\ conns'[c].state = "Connected" <=> conns[c].state = "Connected" /\ c \notin old
      BY <2>2, <1>2, StepFacts DEF SameParameters
    <3>2. c \in old => conns[c].owner = h
      BY TypeFacts DEF Changes
    <3>. QED
      BY <2>2, <3>1, <3>2, <1>3, TypeFacts
  <2>. QED
    BY <2>1, <2>2
<1>7. ListsRight(conns', mPendingConnections', mConnectionList')
  BY <1>4, <1>5, <1>6 DEF ListsRight
<1>. QED
  BY <1>4, <1>7 DEF Changes, IInv, Types

LEMMA ConnectionsKept ==
  ASSUME IInv, NEW h \in Host, NEW N, NEW cp, NEW old, NEW P,
         Changes(h, N, cp, old, P), Allowed(h, N, cp, P), PuzzlesLater,
         \A c \in N : ConnectionRight(conns', puzzles', c)
  PROVE  ConnectionsRight' /\ FewArranged'
<1>. SUFFICES ASSUME NEW c \in Ids(conns')
              PROVE  /\ ConnectionRight(conns', puzzles', c)
                     /\ conns'[c].arranged => conns'[c].serverNonce <= scenario.arranged
  BY DEF ConnectionsRight, FewArranged, Ids, ConnId, Changes
<1>1. CASE c \in N
  BY <1>1 DEF Changes, Allowed
<1>2. CASE c \notin N
  <2>1. c \in ConnId /\ c \in Ids(conns)
    BY <1>2, TypeFacts DEF Changes
  <2>2. ConnectionRight(conns', puzzles', c)
    <3>1. conns'[c] = conns[c] \/ (conns[c].state = "Connected" /\ conns'[c] = Ended(conns[c]))
      BY <1>2, <2>1, StepFacts
    <3>. QED
      BY <2>1, <3>1, StepFacts, TypeFacts, ConnectionKept DEF PuzzlesLater, IInv, Types
  <2>3. conns[c].arranged => conns[c].serverNonce <= scenario.arranged
    BY <2>1 DEF IInv, FewArranged
  <2>. QED
    BY <1>2, <2>1, <2>2, <2>3, StepFacts DEF SameParameters
<1>. QED
  BY <1>1, <1>2

(* No other connection has the nonce of an arranged one, and no other that *)
(* is accepted the request of one that is.                                 *)
LEMMA RequestsKept ==
  ASSUME IInv, NEW h \in Host, NEW N, NEW cp, NEW old, NEW P,
         Changes(h, N, cp, old, P), Allowed(h, N, cp, P)
  PROVE  RequestsDiffer(conns')
<1>1. ASSUME NEW c \in ConnId, NEW d \in ConnId, c # d, conns'[c].owner = conns'[d].owner
      PROVE  /\ conns'[c].arranged /\ conns'[d].arranged => conns'[c].nonce # conns'[d].nonce
             /\ IsAccepted(conns', c) /\ IsAccepted(conns', d)
                  => ~SameRequest(conns'[c], conns'[d])
  BY <1>1, TypeFacts, StepFacts
     DEF IInv, RequestsDiffer, Evolves, IsAccepted, SameRequest
<1>2. ASSUME NEW c \in N, c \notin ConnId, NEW d \in ConnId, conns[d].owner = cp.owner
      PROVE  /\ cp.arranged /\ conns'[d].arranged => cp.nonce # conns'[d].nonce
             /\ IsAccepted(conns', c) /\ IsAccepted(conns', d)
                  => ~SameRequest(cp, conns'[d])
  <2>1. NewConnectionMay(h, cp) /\ conns'[c] = cp /\ cp.owner = h /\ conns'[d].owner = h
    <3>1. NewConnectionMay(h, cp) /\ cp.owner = h
      BY <1>2 DEF Allowed
    <3>2. conns'[c] = cp
      BY <1>2 DEF Changes
    <3>3. conns'[d].owner = h
      BY <1>2, <3>1, StepFacts, TypeFacts DEF Evolves
    <3>. QED
      BY <3>1, <3>2, <3>3
  <2>2. cp.arranged /\ conns'[d].arranged => cp.nonce # conns'[d].nonce
    BY <1>2, <2>1, StepFacts, TypeFacts DEF NewConnectionMay, Evolves, SameRequest
  <2>3. ASSUME IsAccepted(conns', c), IsAccepted(conns', d) PROVE ~SameRequest(cp, conns'[d])
    <3>1. ~IsUsed(puzzles[h], cp.nonce, cp.serverNonce)
      BY <2>1, <2>3 DEF NewConnectionMay, IsAccepted
    <3>2. ~conns[d].arranged /\ ~conns[d].initiator /\ SameRequest(conns'[d], conns[d])
      BY <2>3, StepFacts, TypeFacts DEF Evolves, IsAccepted
    <3>3. IsUsed(puzzles[h], conns[d].nonce, conns[d].serverNonce)
      BY <1>2, <2>1, <3>2, TypeFacts DEF ConnectionRight, NoncesRight
    <3>. QED
      BY <3>1, <3>2, <3>3 DEF SameRequest
  <2>. QED
    BY <2>2, <2>3
<1>3. ASSUME NEW c \in Ids(conns'), NEW d \in Ids(conns'), c # d,
             conns'[c].owner = conns'[d].owner
      PROVE  /\ conns'[c].arranged /\ conns'[d].arranged => conns'[c].nonce # conns'[d].nonce
             /\ IsAccepted(conns', c) /\ IsAccepted(conns', d)
                  => ~SameRequest(conns'[c], conns'[d])
  <2>1. CASE c \in ConnId /\ d \in ConnId
    BY <1>1, <1>3, <2>1
  <2>2. CASE c \notin ConnId
    <3>1. c \in N /\ d \in ConnId /\ conns'[c] = cp
      BY <1>3, <2>2 DEF Changes
    <3>2. conns[d].owner = cp.owner
      BY <1>3, <3>1, StepFacts, TypeFacts DEF Evolves
    <3>. QED
      BY <1>2, <2>2, <3>1, <3>2
  <2>3. CASE d \notin ConnId
    <3>1. d \in N /\ c \in ConnId /\ conns'[d] = cp
      BY <1>3, <2>3 DEF Changes
    <3>2. conns[c].owner = cp.owner
      BY <1>3, <3>1, StepFacts, TypeFacts DEF Evolves
    <3>3. /\ cp.arranged /\ conns'[c].arranged => cp.nonce # conns'[c].nonce
          /\ IsAccepted(conns', d) /\ IsAccepted(conns', c) => ~SameRequest(cp, conns'[c])
      BY <1>2, <2>3, <3>1, <3>2
    <3>. QED
      BY <3>1, <3>3 DEF SameRequest
  <2>. QED
    BY <2>1, <2>2, <2>3
<1>. QED
  BY <1>3 DEF RequestsDiffer

(* The packets sent in a step say what is true.                            *)
SendsTruth ==
  \A p \in net' : p \in net \/ (p \in PacketSet /\ PacketRight(conns', puzzles', p))

LEMMA PacketsKept ==
  ASSUME IInv, NEW h \in Host, NEW N, NEW cp, NEW old, NEW P,
         Changes(h, N, cp, old, P), Allowed(h, N, cp, P), PuzzlesLater, SendsTruth
  PROVE  net' \subseteq PacketSet /\ PacketsRight'
<1>1. \A p \in net : p \in PacketSet /\ PacketRight(conns, puzzles, p)
  BY DEF IInv, Types, PacketsRight
<1>2. \A p \in net : PacketRight(conns', puzzles', p)
  BY <1>1, StepFacts, PacketKept DEF PuzzlesLater, IInv, Types
<1>. QED
  BY <1>1, <1>2 DEF SendsTruth, PacketsRight

(* What h refuses in a step is refused for good.                           *)
Refuses(h) ==
  /\ rejected' \in [Host -> SUBSET (AnyNonce \X Nat)]
  /\ \A g \in Host : g # h => rejected'[g] = rejected[g]
  /\ \A r \in rejected'[h] :
       \/ r \in rejected[h]
       \/ /\ RefusalRight(conns', puzzles', mPendingConnections'[h], h, r[1], r[2])
          /\ NotRefused(conns', h, {r})

(* A connection that is pending, or that is accepted for a solution that   *)
(* was not used, was not refused.                                          *)
LEMMA NonceFacts ==
  /\ \A c, d \in Nat \ {0}, i, j \in {0, 1} : OwnNonce(c, i) = OwnNonce(d, j) => c = d
  /\ \A c, k \in Nat \ {0}, i \in {0, 1} : OwnNonce(c, i) # ArrangedNonce(k)
  /\ \A c \in Nat \ {0}, i \in {0, 1} : OwnNonce(c, i) \in AnyNonce
  /\ \A k \in Nat \ {0} : ArrangedNonce(k) \in AnyNonce
BY DEF OwnNonce, ArrangedNonce, AnyNonce

LEMMA PendingNotRefused ==
  ASSUME IInv, NEW h \in Host, NEW c \in mPendingConnections[h]
  PROVE  <<conns[c].nonce, conns[c].serverNonce>> \notin rejected[h]
<1>. SUFFICES ASSUME <<conns[c].nonce, conns[c].serverNonce>> \in rejected[h]
              PROVE  FALSE
  OBVIOUS
<1>1. RefusalRight(conns, puzzles, mPendingConnections[h], h,
                   conns[c].nonce, conns[c].serverNonce)
  BY DEF IInv, RefusalsRight
<1>2. /\ c \in ConnId /\ c \in Ids(conns) /\ c \in Nat \ {0} /\ conns[c].owner = h
      /\ PendingRight(conns[c]) /\ ConnectionRight(conns, puzzles, c)
      /\ \A d \in Ids(conns) : d \in Nat \ {0} /\ ConnectionRight(conns, puzzles, d)
  BY TypeFacts, NumberFacts DEF ConnId
<1>3. conns[c].arranged =>
        conns[c].serverNonce \in Nat \ {0} /\ conns[c].nonce = ArrangedNonce(conns[c].serverNonce)
  BY <1>2 DEF ConnectionRight, NoncesRight
<1>4. ~conns[c].arranged => conns[c].nonce \in {OwnNonce(c, 0), OwnNonce(c, 1)}
  BY <1>2 DEF ConnectionRight, NoncesRight, PendingRight
<1>5. CASE IsGone(conns, mPendingConnections[h], h, conns[c].nonce)
  <2>1. PICK d \in Ids(conns) :
          /\ IsArranged(conns, d, h)
          /\ conns[d].nonce = conns[c].nonce
          /\ conns[d].state # "Connected" /\ d \notin mPendingConnections[h]
    BY <1>5 DEF IsGone
  <2>2. conns[d].nonce = ArrangedNonce(conns[d].serverNonce) /\ conns[d].serverNonce \in Nat \ {0}
    BY <1>2, <2>1 DEF ConnectionRight, NoncesRight, IsArranged
  <2>3. conns[c].arranged
    BY <1>2, <1>4, <2>1, <2>2, NonceFacts
  <2>. QED
    BY <1>2, <2>1, <2>3 DEF IInv, RequestsDiffer, IsArranged
<1>6. ASSUME NEW d \in Ids(conns), IsDirect(conns, d, Peer(h)),
             conns[c].nonce \in {OwnNonce(d, 0), OwnNonce(d, 1)}
      PROVE  FALSE
  <2>1. ~conns[c].arranged
    BY <1>2, <1>3, <1>6, NonceFacts
  <2>2. c = d
    BY <1>2, <1>4, <1>6, <2>1, NonceFacts
  <2>. QED
    BY <1>2, <1>6, <2>2, PeerFacts DEF IsDirect
<1>. QED
  BY <1>1, <1>5, <1>6 DEF RefusalRight

LEMMA AcceptedNotRefused ==
  ASSUME IInv, NEW h \in Host, NEW i \in Nat \ {0}, NEW n \in {OwnNonce(i, 0), OwnNonce(i, 1)},
         NEW s \in Nat, ~IsUsed(puzzles[h], n, s)
  PROVE  <<n, s>> \notin rejected[h]
<1>. SUFFICES ASSUME <<n, s>> \in rejected[h]
              PROVE  FALSE
  OBVIOUS
<1>1. RefusalRight(conns, puzzles, mPendingConnections[h], h, n, s)
  BY DEF IInv, RefusalsRight
<1>2. PICK d \in ConnId : IsArranged(conns, d, h) /\ conns[d].nonce = n
  BY <1>1, TypeFacts DEF RefusalRight, IsGone
<1>3. conns[d].nonce = ArrangedNonce(conns[d].serverNonce) /\ conns[d].serverNonce \in Nat \ {0}
  BY <1>2, TypeFacts DEF ConnectionRight, NoncesRight, IsArranged
<1>. QED
  BY <1>2, <1>3, NonceFacts

LEMMA RefusalsKept ==
  ASSUME IInv, NEW h \in Host, NEW N, NEW cp, NEW old, NEW P,
         Changes(h, N, cp, old, P), Allowed(h, N, cp, P), PuzzlesLater,
         \A c \in N : ConnectionRight(conns', puzzles', c), Refuses(h)
  PROVE  RefusalsRight'
<1>1. /\ \A g \in Host : rejected[g] \subseteq AnyNonce \X Nat
      /\ puzzles \in [Host -> Puzzles] /\ puzzles' \in [Host -> Puzzles]
  BY DEF IInv, Types, PuzzlesLater
<1>2. /\ mPendingConnections'[h] = P
      /\ \A g \in Host : g # h => mPendingConnections'[g] = mPendingConnections[g]
  BY DEF IInv, Types, Changes
<1>3. ASSUME NEW g \in Host, NEW c \in Ids(conns), conns[c].owner = g,
             conns[c].state # "Connected", c \notin mPendingConnections[g]
      PROVE  conns'[c].state # "Connected" /\ c \notin mPendingConnections'[g]
  <2>1. CASE c \in N
    <3>1. g = h /\ conns'[c] = cp /\ OldConnectionMay(h, c, cp, P)
      BY <1>3, <2>1, TypeFacts DEF Changes, Allowed, OldConnectionMay
    <3>. QED
      BY <1>2, <1>3, <3>1 DEF OldConnectionMay
  <2>2. CASE c \notin N
    BY <1>2, <1>3, <2>2, StepFacts, TypeFacts DEF Allowed
  <2>. QED
    BY <2>1, <2>2
<1>4. ASSUME NEW g \in Host, NEW r \in rejected[g]
      PROVE  RefusalRight(conns', puzzles', mPendingConnections'[g], g, r[1], r[2])
  <2>1. /\ RefusalRight(conns, puzzles, mPendingConnections[g], g, r[1], r[2])
        /\ r[1] \in AnyNonce /\ r[2] \in Nat
    BY <1>1, <1>4 DEF IInv, RefusalsRight
  <2>. QED
    BY <1>1, <1>3, <2>1, StepFacts, RefusalKept DEF PuzzlesLater
<1>5. ASSUME NEW g \in Host, NEW c \in Ids(conns'), conns'[c].owner = g,
             conns'[c].state = "Connected"
      PROVE  <<conns'[c].nonce, conns'[c].serverNonce>> \notin rejected[g]
  <2>1. CASE c \notin N
    <3>1. /\ c \in ConnId /\ SameParameters(conns'[c], conns[c])
          /\ conns[c].state = "Connected"
      <4>1. c \in ConnId
        BY <2>1 DEF Changes
      <4>. QED
        BY <1>5, <2>1, <4>1, StepFacts
    <3>2. c \in Ids(conns) /\ NotRefused(conns, g, rejected[g])
      BY <3>1, TypeFacts DEF IInv, RefusalsRight
    <3>. QED
      BY <1>5, <3>1, <3>2 DEF NotRefused, SameParameters
  <2>2. CASE c \in N
    <3>1. conns'[c] = cp /\ g = h /\ cp.state = "Connected"
      BY <1>5, <2>2 DEF Changes, Allowed
    <3>2. CASE c \in ConnId
      <4>1. OldConnectionMay(h, c, cp, P)
        BY <2>2, <3>2 DEF Allowed
      <4>2. c \in mPendingConnections[h] /\ SameRequest(cp, conns[c])
        BY <3>1, <4>1 DEF OldConnectionMay
      <4>. QED
        BY <3>1, <4>2, PendingNotRefused DEF SameRequest
    <3>3. CASE c \notin ConnId
      <4>1. NewConnectionMay(h, cp) /\ ConnectionRight(conns', puzzles', c) /\ cp \in Connection
        BY <2>2, <3>3 DEF Allowed
      <4>2. ~cp.arranged /\ ~cp.initiator /\ ~IsUsed(puzzles[h], cp.nonce, cp.serverNonce)
        BY <3>1, <4>1 DEF NewConnectionMay
      <4>3. /\ cp.recvSeq \in Ids(conns')
            /\ cp.nonce \in {OwnNonce(cp.recvSeq, 0), OwnNonce(cp.recvSeq, 1)}
        BY <3>1, <4>1, <4>2 DEF ConnectionRight, NoncesRight, IsDirect
      <4>4. cp.recvSeq \in Nat \ {0} /\ cp.serverNonce \in Nat
        BY <4>1, <4>3 DEF Ids, Connection
      <4>. QED
        BY <3>1, <4>2, <4>3, <4>4, AcceptedNotRefused
    <3>. QED
      BY <3>2, <3>3
  <2>. QED
    BY <2>1, <2>2
<1>6. ASSUME NEW g \in Host, NEW r \in rejected'[g]
      PROVE  RefusalRight(conns', puzzles', mPendingConnections'[g], g, r[1], r[2])
  BY <1>4, <1>6 DEF Refuses
<1>7. ASSUME NEW g \in Host
      PROVE  NotRefused(conns', g, rejected'[g])
  BY <1>5, <1>7 DEF NotRefused, Refuses
<1>. QED
  BY <1>6, <1>7 DEF RefusalsRight

(* With direct connections only, what is pending or there has been so, or  *)
(* is alone.                                                               *)
StaysOne(h, P) ==
  scenario.arranged = 0 =>
    \A c, d \in P \union mConnectionList'[h] : c = d

LEMMA OneKept ==
  ASSUME IInv, NEW h \in Host, NEW N, NEW cp, NEW old, NEW P,
         Changes(h, N, cp, old, P),
         \/ StaysOne(h, P)
         \/ /\ P \subseteq mPendingConnections[h] \union mConnectionList[h]
            /\ cp.state = "Connected" =>
                 N \subseteq mPendingConnections[h] \union mConnectionList[h]
  PROVE  OneAtATime'
<1>1. /\ mPendingConnections'[h] = P
      /\ mConnectionList'[h] = (mConnectionList[h] \ (old \union N))
                                 \union {c \in N : cp.state = "Connected"}
      /\ \A g \in Host : g # h => /\ mPendingConnections'[g] = mPendingConnections[g]
                                  /\ mConnectionList'[g] = mConnectionList[g]
      /\ scenario' = scenario
  BY DEF Changes, IInv, Types
<1>2. CASE StaysOne(h, P)
  BY <1>1, <1>2 DEF StaysOne, OneAtATime, IInv
<1>3. CASE /\ P \subseteq mPendingConnections[h] \union mConnectionList[h]
           /\ cp.state = "Connected" => N \subseteq mPendingConnections[h] \union mConnectionList[h]
  <2>1. mPendingConnections'[h] \union mConnectionList'[h]
          \subseteq mPendingConnections[h] \union mConnectionList[h]
    BY <1>1, <1>3
  <2>. QED
    BY <1>1, <2>1 DEF OneAtATime, IInv
<1>. QED
  BY <1>2, <1>3

LEMMA StepKeeps ==
  ASSUME IInv, NEW h \in Host, NEW N, NEW cp, NEW old, NEW P,
         Changes(h, N, cp, old, P), Allowed(h, N, cp, P), PuzzlesLater,
         \A c \in N : ConnectionRight(conns', puzzles', c), SendsTruth,
         Refuses(h),
         \/ StaysOne(h, P)
         \/ /\ P \subseteq mPendingConnections[h] \union mConnectionList[h]
            /\ cp.state = "Connected" =>
                 N \subseteq mPendingConnections[h] \union mConnectionList[h]
  PROVE  IInv'
<1>1. Ids(conns') = ConnId'
  BY DEF Ids, ConnId
<1>2. ListsRight(conns, mPendingConnections, mConnectionList)'
  BY ListsKept
<1>3. Types'
  <2>1. net' \subseteq PacketSet /\ conns' \in Seq(Connection)
    BY PacketsKept DEF Changes
  <2>2. puzzles' \in [Host -> Puzzles] /\ rejected' \in [Host -> SUBSET (AnyNonce \X Nat)]
    BY DEF PuzzlesLater, Refuses
  <2>. QED
    BY <1>1, <2>1, <2>2, ListsKept DEF Types
<1>4. PuzzlesRight' /\ ConnectionsRight' /\ FewArranged'
  BY ConnectionsKept DEF PuzzlesLater
<1>5. RequestsDiffer(conns)' /\ PacketsRight' /\ RefusalsRight' /\ OneAtATime'
  BY RequestsKept, PacketsKept, RefusalsKept, OneKept
<1>. QED
  BY <1>2, <1>3, <1>4, <1>5 DEF IInv

-----------------------------------------------------------------------------
(* The ways in which the actions change the connections.                   *)
LEMMA TerminatedFacts ==
  ASSUME IInv, NEW h \in Host, NEW D \in SUBSET mConnectionList[h]
  PROVE  /\ Terminated(D) \in Seq(Connection)
         /\ Len(Terminated(D)) = Len(conns)
         /\ \A c \in ConnId :
              Terminated(D)[c] = IF c \in D THEN Ended(conns[c]) ELSE conns[c]
<1>1. \A c \in ConnId :
        Terminated(D)[c] = IF c \in D THEN Ended(conns[c]) ELSE conns[c]
  BY DEF Terminated, Ended
<1>2. \A c \in ConnId : Terminated(D)[c] \in Connection
  BY <1>1, TypeFacts, EndedFacts DEF ConnectionRight
<1>3. Len(conns) \in Nat /\ ConnId = 1 .. Len(conns)
  BY NumberFacts DEF ConnId
<1>4. Terminated(D) = [c \in ConnId |-> Terminated(D)[c]]
  BY DEF Terminated
<1>5. Terminated(D) \in [1 .. Len(conns) -> Connection]
  BY <1>2, <1>3, <1>4
<1>6. Terminated(D) \in Seq(Connection)
  BY <1>3, <1>5, SeqDef
<1>7. Len(Terminated(D)) = Len(conns)
  BY <1>3, <1>5, <1>6, LenProperties
<1>. QED
  BY <1>1, <1>6, <1>7

LEMMA NothingTerminated ==
  ASSUME IInv, NEW h \in Host
  PROVE  conns = Terminated({})
<1>1. /\ Terminated({}) \in Seq(Connection)
      /\ Len(Terminated({})) = Len(conns)
      /\ \A c \in ConnId : Terminated({})[c] = conns[c]
  BY TerminatedFacts
<1>. QED
  BY <1>1, SeqEqual DEF IInv, Types, ConnId

(* The pending connections and those of the table in a step of h.          *)
Lists(h, N, cp, old, P) ==
  /\ scenario' = scenario
  /\ mPendingConnections' = [mPendingConnections EXCEPT ![h] = P]
  /\ mConnectionList' =
       [mConnectionList EXCEPT
          ![h] = (@ \ (old \union N)) \union {c \in N : cp.state = "Connected"}]

LEMMA Replaced ==
  ASSUME IInv, NEW h \in Host, NEW c \in ConnId, NEW cp \in Connection,
         NEW old \in SUBSET mConnectionList[h], NEW P, Lists(h, {c}, cp, old, P),
         conns' = [Terminated(old) EXCEPT ![c] = cp]
  PROVE  Changes(h, {c}, cp, old, P)
<1>. DEFINE T == Terminated(old)
<1>1. /\ T \in Seq(Connection) /\ Len(T) = Len(conns) /\ c \in 1 .. Len(T)
      /\ \A d \in ConnId : T[d] = IF d \in old THEN Ended(conns[d]) ELSE conns[d]
  BY TerminatedFacts DEF ConnId
<1>. HIDE DEF T
<1>2. conns' = [T EXCEPT ![c] = cp]
  BY DEF T
<1>3. /\ conns' \in Seq(Connection) /\ Len(conns') = Len(T)
      /\ \A d \in 1 .. Len(T) : conns'[d] = IF d = c THEN cp ELSE T[d]
  <2>1. /\ [T EXCEPT ![c] = cp] \in Seq(Connection)
        /\ Len([T EXCEPT ![c] = cp]) = Len(T)
        /\ \A d \in 1 .. Len(T) : [T EXCEPT ![c] = cp][d] = IF d = c THEN cp ELSE T[d]
    BY <1>1, ExceptSeq
  <2>. QED
    BY <1>2, <2>1
<1>4. Ids(conns') = ConnId \union {c}
  BY <1>1, <1>3 DEF Ids, ConnId
<1>5. ConnId = 1 .. Len(T)
  BY <1>1 DEF ConnId
<1>. QED
  BY <1>1, <1>3, <1>4, <1>5 DEF Changes, Lists

LEMMA Added ==
  ASSUME IInv, NEW h \in Host, NEW cp \in Connection,
         NEW old \in SUBSET mConnectionList[h], NEW P,
         Lists(h, {Len(conns) + 1}, cp, old, P),
         conns' = Append(Terminated(old), cp)
  PROVE  Changes(h, {Len(conns) + 1}, cp, old, P)
<1>. DEFINE T == Terminated(old)
<1>1. /\ T \in Seq(Connection) /\ Len(T) = Len(conns) /\ Len(T) \in Nat
      /\ \A d \in ConnId : T[d] = IF d \in old THEN Ended(conns[d]) ELSE conns[d]
  BY TerminatedFacts, NumberFacts
<1>. HIDE DEF T
<1>2. conns' = Append(T, cp)
  BY DEF T
<1>3. /\ conns' \in Seq(Connection) /\ Len(conns') = Len(T) + 1
      /\ \A d \in 1 .. Len(T) : conns'[d] = T[d]
      /\ conns'[Len(T) + 1] = cp
  BY <1>1, <1>2, AppendProperties
<1>4. Ids(conns') = ConnId \union {Len(conns) + 1}
  BY <1>1, <1>3 DEF Ids, ConnId
<1>5. ConnId = 1 .. Len(T)
  BY <1>1 DEF ConnId
<1>. QED
  BY <1>1, <1>3, <1>4, <1>5 DEF Changes, Lists

LEMMA ClosingKeeps ==
  ASSUME IInv, NEW h \in Host, NEW old \in SUBSET mConnectionList[h],
         UNCHANGED <<scenario, mPendingConnections>>, conns' = Terminated(old),
         mConnectionList' = [mConnectionList EXCEPT ![h] = @ \ old],
         PuzzlesLater, SendsTruth, Refuses(h)
  PROVE  IInv'
<1>. DEFINE cp == [state |-> ""]  P == mPendingConnections[h]
<1>1. /\ conns' \in Seq(Connection) /\ Ids(conns') = ConnId
      /\ \A c \in ConnId : conns'[c] = IF c \in old THEN Ended(conns[c]) ELSE conns[c]
  BY TerminatedFacts DEF Ids, ConnId
<1>2. mPendingConnections' = [mPendingConnections EXCEPT ![h] = P]
  BY DEF IInv, Types
<1>3. Changes(h, {}, cp, old, P)
  BY <1>1, <1>2 DEF Changes
<1>4. Allowed(h, {}, cp, P)
  BY DEF Allowed
<1>5. P \subseteq mPendingConnections[h] \union mConnectionList[h]
  OBVIOUS
<1>. HIDE DEF cp, P
<1>6. \A c \in {} : ConnectionRight(conns', puzzles', c)
  OBVIOUS
<1>. QED
  BY <1>3, <1>4, <1>5, <1>6, StepKeeps

LEMMA SameConnectionsKeep ==
  ASSUME IInv, NEW h \in Host,
         UNCHANGED <<scenario, conns, mPendingConnections, mConnectionList>>,
         PuzzlesLater, SendsTruth, Refuses(h)
  PROVE  IInv'
<1>1. conns' = Terminated({}) /\ {} \in SUBSET mConnectionList[h]
  BY NothingTerminated
<1>2. mConnectionList' = [mConnectionList EXCEPT ![h] = @ \ {}]
  BY DEF IInv, Types
<1>. QED
  BY <1>1, <1>2, ClosingKeeps

-----------------------------------------------------------------------------
(* Parts of the actions.                                                   *)
LEMMA NoncesKept ==
  ASSUME IInv, PuzzlesLater, Evolves(conns, conns'), NEW c \in ConnId,
         SameRequest(conns'[c], conns[c]),
         conns'[c].recvSeq = conns[c].recvSeq \/ conns[c].initiator \/ conns[c].arranged
  PROVE  NoncesRight(conns', puzzles', c)
<1>1. /\ NoncesRight(conns, puzzles, c) /\ c \in Ids(conns)
      /\ conns[c].nonce \in AnyNonce /\ conns[c].serverNonce \in Nat
      /\ conns[c].owner \in Host /\ Peer(conns[c].owner) \in Host
      /\ \A h \in Host : /\ puzzles[h].mCurrentNonce \in Nat
                         /\ puzzles'[h].mCurrentNonce \in Nat
                         /\ puzzles[h].mCurrentNonce <= puzzles'[h].mCurrentNonce
  BY TypeFacts, PeerFacts DEF ConnectionRight, PuzzlesLater, Monotone, IInv, Types, Puzzles
<1>2. /\ conns'[c].owner = conns[c].owner
      /\ conns'[c].initiator = conns[c].initiator
      /\ conns'[c].arranged = conns[c].arranged
      /\ conns'[c].nonce = conns[c].nonce
      /\ conns'[c].serverNonce = conns[c].serverNonce
  BY <1>1 DEF Evolves, SameRequest
<1>3. ~conns[c].arranged /\ conns[c].initiator =>
        /\ conns[c].owner \in Starters
        /\ conns[c].nonce \in {OwnNonce(c, 0), OwnNonce(c, 1)}
        /\ conns[c].serverNonce <= puzzles'[Peer(conns[c].owner)].mCurrentNonce
  BY <1>1 DEF NoncesRight
<1>4. ~conns[c].arranged /\ ~conns[c].initiator =>
        /\ IsDirect(conns', conns[c].recvSeq, Peer(conns[c].owner))
        /\ conns[c].nonce \in {OwnNonce(conns[c].recvSeq, 0), OwnNonce(conns[c].recvSeq, 1)}
        /\ IsUsed(puzzles'[conns[c].owner], conns[c].nonce, conns[c].serverNonce)
  BY <1>1 DEF NoncesRight, IsDirect, Evolves, PuzzlesLater, Monotone
<1>5. conns[c].arranged =>
        /\ conns[c].initiator <=> conns[c].owner \in Starters
        /\ conns[c].serverNonce \in Nat \ {0}
        /\ conns[c].nonce = ArrangedNonce(conns[c].serverNonce)
  BY <1>1 DEF NoncesRight
<1>. QED
  BY <1>2, <1>3, <1>4, <1>5 DEF NoncesRight

LEMMA SameRefusals ==
  ASSUME IInv, NEW h, UNCHANGED rejected
  PROVE  Refuses(h)
BY DEF Refuses, IInv, Types

LEMMA AnotherRefusal ==
  ASSUME IInv, NEW h \in Host, NEW p \in PacketSet, rejected' = WithRefusal(h, p),
         RefusalRight(conns', puzzles', mPendingConnections'[h], h, p.nonce, p.serverNonce),
         NotRefused(conns', h, {<<p.nonce, p.serverNonce>>})
  PROVE  Refuses(h)
<1>1. /\ rejected \in [Host -> SUBSET (AnyNonce \X Nat)]
      /\ <<p.nonce, p.serverNonce>> \in AnyNonce \X Nat
  BY DEF IInv, Types, PacketSet
<1>2. rejected' = [rejected EXCEPT ![h] = @ \union {<<p.nonce, p.serverNonce>>}]
  BY DEF WithRefusal
<1>3. /\ rejected' \in [Host -> SUBSET (AnyNonce \X Nat)]
      /\ \A g \in Host : g # h => rejected'[g] = rejected[g]
      /\ rejected'[h] = rejected[h] \union {<<p.nonce, p.serverNonce>>}
  BY <1>1, <1>2
<1>. DEFINE r == <<p.nonce, p.serverNonce>>
<1>4. r[1] = p.nonce /\ r[2] = p.serverNonce
  OBVIOUS
<1>. HIDE DEF r
<1>5. \A q \in rejected'[h] : q \in rejected[h] \/ q = r
  BY <1>3 DEF r
<1>6. NotRefused(conns', h, {r})
  BY DEF r
<1>. QED
  BY <1>3, <1>4, <1>5, <1>6 DEF Refuses

(* The other side has the only address there is.                           *)
LEMMA AddressFacts ==
  ASSUME IInv, NEW h \in Host
  PROVE  /\ findConnection(h, Peer(h)) = mConnectionList[h]
         /\ findConnection(h, NoAddress) = {}
<1>1. \A c \in mConnectionList[h] : conns[c].addr = Peer(h)
  BY TypeFacts DEF ConnectionRight, AddressRight
<1>. QED
  BY <1>1, PeerFacts DEF findConnection

LEMMA ReceivedFacts ==
  ASSUME IInv, NEW h \in Host, NEW p \in net, p.to = h
  PROVE  /\ p \in PacketSet /\ PacketRight(conns, puzzles, p) /\ p.from = Peer(h)
         /\ Peer(p.from) = h /\ p.from \in Host
         /\ p.nonce \in AnyNonce /\ p.serverNonce \in Nat /\ p.seq \in Nat
         /\ findConnection(h, p.from) = mConnectionList[h]
BY AddressFacts, PeerFacts DEF IInv, Types, PacketsRight, PacketRight, PacketSet

LEMMA PendingFacts ==
  ASSUME IInv, NEW h \in Host, NEW c \in mPendingConnections[h]
  PROVE  /\ c \in ConnId /\ conns[c] \in Connection /\ conns[c].owner = h
         /\ c \in Nat \ {0} /\ conns[c].told = << >>
         /\ PendingRight(conns[c]) /\ ConnectionRight(conns, puzzles, c)
         /\ conns[c].state # "Connected" /\ c \notin mConnectionList[h]
BY TypeFacts, NumberFacts DEF PendingRight, ConnId

(* The first of some connections is one of them.                           *)
LEMMA FirstIsOne ==
  ASSUME NEW C PROVE FirstOf(C) \subseteq C
BY DEF FirstOf

LEMMA PacketTyped ==
  ASSUME NEW t \in PacketType, NEW from \in Host, NEW to \in Host \union {NoAddress},
         NEW nonce \in AnyNonce, NEW serverNonce \in Nat, NEW seq \in Nat,
         NEW reason \in {"", "Puzzle", "Refused"}
  PROVE  Packet(t, from, to, nonce, serverNonce, seq, reason) \in PacketSet
BY DEF Packet, PacketSet

LEMMA PacketOfTyped ==
  ASSUME NEW t \in PacketType, NEW c \in Nat, NEW cp \in Connection
  PROVE  /\ PacketOf(t, c, cp) \in PacketSet
         /\ PacketOf(t, c, cp).type = t
         /\ PacketOf(t, c, cp).from = cp.owner
         /\ PacketOf(t, c, cp).to = cp.addr
         /\ PacketOf(t, c, cp).nonce = cp.nonce
         /\ PacketOf(t, c, cp).serverNonce = cp.serverNonce
         /\ PacketOf(t, c, cp).seq = c
         /\ PacketOf(t, c, cp).reason = ""
<1>1. /\ cp.owner \in Host /\ cp.addr \in Host \union {NoAddress}
      /\ cp.nonce \in AnyNonce /\ cp.serverNonce \in Nat
  BY DEF Connection
<1>. QED
  BY <1>1, PacketTyped DEF PacketOf, Packet

LEMMA DisconnectTyped ==
  ASSUME NEW c \in Nat, NEW cp \in Connection
  PROVE  PacketOf("Disconnect", c, cp) \in PacketSet
<1>1. "Disconnect" \in PacketType
  BY DEF PacketType
<1>. QED
  BY <1>1, PacketOfTyped

LEMMA ClosingSends ==
  ASSUME IInv, NEW h \in Host, NEW old \in SUBSET mConnectionList[h],
         NEW q \in DisconnectPackets(old)
  PROVE  q \in PacketSet /\ PacketRight(conns', puzzles', q)
<1>1. PICK c \in old : q = PacketOf("Disconnect", c, conns[c])
  BY DEF DisconnectPackets
<1>2. /\ conns[c] \in Connection /\ conns[c].owner = h /\ conns[c].addr = Peer(h)
      /\ c \in Nat
  BY TypeFacts DEF ConnectionRight, AddressRight, ConnId
<1>3. /\ q \in PacketSet /\ q.type = "Disconnect"
      /\ q.from = h /\ q.to = Peer(h)
  <2>1. q \in PacketSet
    BY <1>1, <1>2, DisconnectTyped
  <2>2. q.type = "Disconnect" /\ q.from = conns[c].owner /\ q.to = conns[c].addr
    BY <1>1 DEF PacketOf, Packet
  <2>. QED
    BY <1>2, <2>1, <2>2
<1>. QED
  BY <1>3, PeerFacts DEF PacketRight

-----------------------------------------------------------------------------
(* The actions, first those that leave the connections as they are.        *)
LEMMA ChallengeRequestKeeps ==
  ASSUME IInv, NEW h \in Host, NEW p \in net, p.to = h,
         handleConnectChallengeRequest(h, p)
  PROVE  IInv'
<1>. DEFINE q == Packet("ConnectChallengeResponse", h, p.from, p.nonce,
                        puzzles[h].mCurrentNonce, 0, "")
<1>1. /\ UNCHANGED <<scenario, conns, mPendingConnections, mConnectionList, puzzles, rejected>>
      /\ net' = net \union {q}
  BY DEF handleConnectChallengeRequest, hostVars
<1>2. /\ PuzzlesLater /\ Refuses(h)
  BY <1>1, LaterWhenSame, SameRefusals DEF IInv
<1>3. puzzles'[h].mCurrentNonce \in Nat /\ puzzles'[h] = puzzles[h]
  BY <1>1, PuzzleTypes DEF IInv
<1>4. "ConnectChallengeResponse" \in PacketType /\ 0 \in Nat
  BY DEF PacketType
<1>5. q \in PacketSet
  BY <1>3, <1>4, ReceivedFacts, PacketTyped
<1>6. /\ q.type = "ConnectChallengeResponse" /\ q.from = h /\ q.to = Peer(h)
      /\ q.serverNonce = puzzles[h].mCurrentNonce
  BY ReceivedFacts DEF Packet
<1>. HIDE DEF q
<1>7. PacketRight(conns', puzzles', q)
  BY <1>3, <1>6, PeerFacts DEF PacketRight
<1>8. SendsTruth
  BY <1>1, <1>5, <1>7 DEF SendsTruth
<1>. QED
  BY <1>1, <1>2, <1>8, SameConnectionsKeep

(* A connect request comes from the client's connection of that number.    *)
LEMMA RequestFacts ==
  ASSUME IInv, NEW h \in Host, NEW p \in net, p.to = h, p.type = "ConnectRequest"
  PROVE  /\ p.seq \in ConnId /\ p.seq \in Nat \ {0} /\ IsDirect(conns, p.seq, Peer(h))
         /\ p.nonce \in {OwnNonce(p.seq, 0), OwnNonce(p.seq, 1)}
         /\ p.serverNonce <= puzzles[h].mCurrentNonce
         /\ Peer(h) \in Starters /\ h \notin Starters
         /\ \A c \in ConnId : conns[c].owner = h /\ conns[c].nonce = p.nonce
              => ~conns[c].initiator /\ ~conns[c].arranged
<1>1. /\ IsDirect(conns, p.seq, Peer(h))
      /\ p.nonce \in {OwnNonce(p.seq, 0), OwnNonce(p.seq, 1)}
      /\ p.serverNonce <= puzzles[h].mCurrentNonce
  BY ReceivedFacts DEF PacketRight
<1>2. p.seq \in ConnId /\ p.seq \in Nat \ {0}
  BY <1>1, TypeFacts DEF IsDirect, ConnId
<1>3. Peer(h) \in Starters /\ h \notin Starters
  BY <1>1, <1>2, TypeFacts, PeerFacts DEF ConnectionRight, NoncesRight, IsDirect
<1>4. ASSUME NEW c \in ConnId, conns[c].owner = h, conns[c].nonce = p.nonce
      PROVE  ~conns[c].initiator /\ ~conns[c].arranged
  <2>1. NoncesRight(conns, puzzles, c) /\ c \in Nat \ {0}
    BY TypeFacts DEF ConnectionRight, ConnId
  <2>2. ~conns[c].arranged
    BY <1>1, <1>2, <1>4, <2>1, NonceFacts DEF NoncesRight
  <2>3. conns[c].initiator => c = p.seq
    BY <1>1, <1>2, <1>4, <2>1, <2>2, NonceFacts DEF NoncesRight
  <2>4. p.seq # c
    BY <1>1, <1>4, PeerFacts DEF IsDirect
  <2>. QED
    BY <2>2, <2>3, <2>4
<1>. QED
  BY <1>1, <1>2, <1>3, <1>4

LEMMA AcceptTyped ==
  ASSUME NEW c \in Nat, NEW cp \in Connection
  PROVE  AcceptPacket(c, cp) \in PacketSet
<1>1. "ConnectAccept" \in PacketType
  BY DEF PacketType
<1>. QED
  BY <1>1, PacketOfTyped DEF AcceptPacket

LEMMA AcceptRight ==
  ASSUME IInv, NEW h \in Host, NEW cs, NEW pz, NEW c \in Nat, c \in Ids(cs),
         cs[c] \in Connection, cs[c].owner = h, ~cs[c].initiator, cs[c].addr = Peer(h)
  PROVE  /\ AcceptPacket(c, cs[c]) \in PacketSet
         /\ PacketRight(cs, pz, AcceptPacket(c, cs[c]))
<1>. DEFINE q == AcceptPacket(c, cs[c])
<1>2. /\ q \in PacketSet /\ q.type = "ConnectAccept" /\ q.from = h /\ q.to = Peer(h)
      /\ q.nonce = cs[c].nonce /\ q.serverNonce = cs[c].serverNonce /\ q.seq = c
  <2>2. q \in PacketSet
    BY AcceptTyped
  <2>3. q.type = "ConnectAccept" /\ q.from = h /\ q.to = Peer(h)
    BY DEF AcceptPacket, PacketOf, Packet
  <2>4. q.nonce = cs[c].nonce /\ q.serverNonce = cs[c].serverNonce /\ q.seq = c
    BY DEF AcceptPacket, PacketOf, Packet
  <2>. QED
    BY <2>2, <2>3, <2>4
<1>. HIDE DEF q
<1>3. PacketRight(cs, pz, q)
  BY <1>2, PeerFacts DEF PacketRight, SameRequest
<1>. QED
  BY <1>2, <1>3 DEF q

LEMMA ConnectRequestAgainKeeps ==
  ASSUME IInv, NEW h \in Host, NEW p \in net, p.to = h, ConnectRequestAgain(h, p)
  PROVE  IInv'
<1>1. /\ UNCHANGED <<scenario, conns, mPendingConnections, mConnectionList, puzzles, rejected>>
      /\ p.type = "ConnectRequest"
  BY DEF ConnectRequestAgain, hostVars
<1>2. PICK c \in findConnection(h, p.from) :
        /\ SameRequest(conns[c], p)
        /\ net' = net \union {AcceptPacket(c, conns[c])}
  BY DEF ConnectRequestAgain
<1>3. /\ c \in mConnectionList[h] /\ c \in ConnId /\ c \in Ids(conns) /\ conns[c].owner = h
      /\ conns[c] \in Connection /\ conns[c].addr = Peer(h) /\ c \in Nat
  BY ReceivedFacts, TypeFacts DEF ConnectionRight, AddressRight, ConnId, findConnection
<1>4. ~conns[c].initiator
  BY <1>1, <1>2, <1>3, RequestFacts DEF SameRequest
<1>5. /\ AcceptPacket(c, conns[c]) \in PacketSet
      /\ PacketRight(conns, puzzles, AcceptPacket(c, conns[c]))
  BY <1>3, <1>4, AcceptRight
<1>6. /\ PuzzlesLater /\ Refuses(h)
  BY <1>1, LaterWhenSame, SameRefusals DEF IInv
<1>7. SendsTruth
  BY <1>1, <1>2, <1>5 DEF SendsTruth
<1>. QED
  BY <1>1, <1>6, <1>7, SameConnectionsKeep

LEMMA RejectRight ==
  ASSUME IInv, NEW h \in Host, NEW p \in net, p.to = h, NEW cs, NEW pz,
         NEW reason \in {"Puzzle", "Refused"}, reason = "Puzzle" => p.type = "ConnectRequest"
  PROVE  /\ RejectPacket(h, p, reason) \in PacketSet
         /\ PacketRight(cs, pz, RejectPacket(h, p, reason))
<1>. DEFINE q == RejectPacket(h, p, reason)
<1>1. "ConnectReject" \in PacketType /\ 0 \in Nat /\ reason \in {"", "Puzzle", "Refused"}
  BY DEF PacketType
<1>2. q \in PacketSet
  BY <1>1, ReceivedFacts, PacketTyped DEF RejectPacket
<1>3. /\ q.type = "ConnectReject" /\ q.from = h /\ q.to = Peer(h)
      /\ q.nonce = p.nonce /\ q.reason = reason
  BY ReceivedFacts DEF RejectPacket, Packet
<1>. HIDE DEF q
<1>4. reason = "Puzzle" =>
        \E c \in Nat \ {0} : q.nonce \in {OwnNonce(c, 0), OwnNonce(c, 1)}
  BY <1>3, RequestFacts
<1>5. PacketRight(cs, pz, q)
  BY <1>3, <1>4, PeerFacts DEF PacketRight
<1>. QED
  BY <1>2, <1>5 DEF q

LEMMA ConnectRequestUnsolvedKeeps ==
  ASSUME IInv, NEW h \in Host, NEW p \in net, p.to = h, ConnectRequestUnsolved(h, p)
  PROVE  IInv'
<1>1. /\ UNCHANGED <<scenario, conns, mPendingConnections, mConnectionList, puzzles>>
      /\ p.type = "ConnectRequest"
      /\ \A c \in mConnectionList[h] : ~SameRequest(conns[c], p)
      /\ ~checkSolution(puzzles[h], p.nonce, p.serverNonce)
      /\ net' = net \union {RejectPacket(h, p, "Puzzle")}
      /\ rejected' = WithRefusal(h, p)
  BY ReceivedFacts DEF ConnectRequestUnsolved, hostVars
<1>2. PuzzlesLater
  BY <1>1, LaterWhenSame DEF IInv
<1>3. SendsTruth
  BY <1>1, RejectRight DEF SendsTruth
<1>4. RefusalRight(conns, puzzles, mPendingConnections[h], h, p.nonce, p.serverNonce)
  BY <1>1, RequestFacts, TypeFacts DEF RefusalRight, IsUsed
<1>5. NotRefused(conns, h, {<<p.nonce, p.serverNonce>>})
  BY <1>1, TypeFacts DEF NotRefused, SameRequest
<1>6. Refuses(h)
  BY <1>1, <1>4, <1>5, ReceivedFacts, AnotherRefusal
<1>. QED
  BY <1>1, <1>2, <1>3, <1>6, SameConnectionsKeep

(* An arranged request comes from the initiator.                           *)
LEMMA ArrangedRequestFacts ==
  ASSUME IInv, NEW h \in Host, NEW p \in net, p.to = h, p.type = "ArrangedConnectRequest"
  PROVE  /\ p.seq \in ConnId /\ IsArranged(conns, p.seq, Peer(h))
         /\ conns[p.seq].nonce = p.nonce /\ h \notin Starters
         /\ \E k \in Nat \ {0} : p.nonce = ArrangedNonce(k)
         /\ \A c \in ConnId : conns[c].owner = h /\ conns[c].nonce = p.nonce
              => ~conns[c].initiator /\ conns[c].arranged
<1>1. /\ IsArranged(conns, p.seq, Peer(h)) /\ conns[p.seq].initiator
      /\ conns[p.seq].nonce = p.nonce
  BY ReceivedFacts DEF PacketRight
<1>2. p.seq \in ConnId /\ NoncesRight(conns, puzzles, p.seq)
  BY <1>1, TypeFacts DEF IsArranged, ConnectionRight
<1>3. h \notin Starters /\ \E k \in Nat \ {0} : p.nonce = ArrangedNonce(k)
  BY <1>1, <1>2, PeerFacts DEF NoncesRight, IsArranged
<1>4. ASSUME NEW c \in ConnId, conns[c].owner = h, conns[c].nonce = p.nonce
      PROVE  ~conns[c].initiator /\ conns[c].arranged
  <2>1. NoncesRight(conns, puzzles, c) /\ c \in Nat \ {0}
    BY TypeFacts DEF ConnectionRight, ConnId
  <2>2. ~conns[c].arranged /\ ~conns[c].initiator => conns[c].recvSeq \in Nat \ {0}
    BY <2>1 DEF NoncesRight, IsDirect, Ids
  <2>3. conns[c].arranged
    BY <1>3, <1>4, <2>1, <2>2, NonceFacts DEF NoncesRight
  <2>. QED
    BY <1>3, <1>4, <2>1, <2>3 DEF NoncesRight
<1>. QED
  BY <1>1, <1>2, <1>3, <1>4

LEMMA ArrangedRequestAgainKeeps ==
  ASSUME IInv, NEW h \in Host, NEW p \in net, p.to = h, ArrangedRequestAgain(h, p)
  PROVE  IInv'
<1>1. /\ UNCHANGED <<scenario, conns, mPendingConnections, mConnectionList, puzzles, rejected>>
      /\ p.type = "ArrangedConnectRequest"
  BY DEF ArrangedRequestAgain, hostVars
<1>2. PICK c \in findConnection(h, p.from) :
        /\ conns[c].nonce = p.nonce
        /\ net' = net \union {AcceptPacket(c, conns[c])}
  BY DEF ArrangedRequestAgain
<1>3. /\ c \in mConnectionList[h] /\ c \in ConnId /\ c \in Ids(conns) /\ conns[c].owner = h
      /\ conns[c] \in Connection /\ conns[c].addr = Peer(h) /\ c \in Nat
  BY ReceivedFacts, TypeFacts DEF ConnectionRight, AddressRight, ConnId, findConnection
<1>4. ~conns[c].initiator
  BY <1>1, <1>2, <1>3, ArrangedRequestFacts
<1>5. /\ AcceptPacket(c, conns[c]) \in PacketSet
      /\ PacketRight(conns, puzzles, AcceptPacket(c, conns[c]))
  BY <1>3, <1>4, AcceptRight
<1>6. /\ PuzzlesLater /\ Refuses(h)
  BY <1>1, LaterWhenSame, SameRefusals DEF IInv
<1>7. SendsTruth
  BY <1>1, <1>2, <1>5 DEF SendsTruth
<1>. QED
  BY <1>1, <1>6, <1>7, SameConnectionsKeep

LEMMA TickKeeps ==
  ASSUME IInv, NEW h \in Host, tick(h)
  PROVE  IInv'
<1>1. /\ UNCHANGED <<scenario, conns, mPendingConnections, mConnectionList, net, rejected>>
      /\ puzzles[h].mLastNonce < scenario.ticks
      /\ puzzles' = [puzzles EXCEPT ![h] = Renewed(@)]
  BY DEF tick, hostVars
<1>2. PuzzlesLater
  BY <1>1, LaterWhenRenewed DEF IInv
<1>3. Refuses(h) /\ SendsTruth
  BY <1>1, SameRefusals DEF SendsTruth
<1>. QED
  BY <1>1, <1>2, <1>3, SameConnectionsKeep

LEMMA HandleDisconnectKeeps ==
  ASSUME IInv, NEW h \in Host, NEW p \in net, p.to = h, handleDisconnect(h, p)
  PROVE  IInv'
<1>1. /\ UNCHANGED <<scenario, mPendingConnections, puzzles, net, rejected>>
  BY DEF handleDisconnect
<1>2. PICK c \in findConnection(h, p.from) :
        /\ conns' = Terminated({c})
        /\ mConnectionList' = [mConnectionList EXCEPT ![h] = @ \ {c}]
  BY DEF handleDisconnect
<1>3. {c} \in SUBSET mConnectionList[h]
  BY ReceivedFacts
<1>4. PuzzlesLater /\ Refuses(h) /\ SendsTruth
  BY <1>1, LaterWhenSame, SameRefusals DEF IInv, SendsTruth
<1>. QED
  BY <1>1, <1>2, <1>3, <1>4, ClosingKeeps

-----------------------------------------------------------------------------
(* Steps of one connection that is not established after them.             *)

\* What a connection that waits may send.
Requests(c, dp) ==
  {ChallengeRequest(c, dp), PunchPacket(c, dp)}
    \union {q \in {RequestPacket(c, dp)} : dp.initiator}

LEMMA SentTyped ==
  ASSUME NEW c \in Nat, NEW dp \in Connection, AddressRight(dp)
  PROVE  /\ ChallengeRequest(c, dp) \in PacketSet
         /\ ChallengeRequest(c, dp).type = "ConnectChallengeRequest"
         /\ ChallengeRequest(c, dp).from = dp.owner
         /\ ChallengeRequest(c, dp).to = dp.addr
         /\ PunchPacket(c, dp) \in PacketSet
         /\ PunchPacket(c, dp).type = "Punch"
         /\ PunchPacket(c, dp).from = dp.owner
         /\ PunchPacket(c, dp).to = Peer(dp.owner)
         /\ RequestPacket(c, dp) \in PacketSet
         /\ RequestPacket(c, dp).type =
              IF dp.arranged THEN "ArrangedConnectRequest" ELSE "ConnectRequest"
         /\ RequestPacket(c, dp).from = dp.owner
         /\ RequestPacket(c, dp).to = dp.addr
         /\ RequestPacket(c, dp).nonce = dp.nonce
         /\ RequestPacket(c, dp).serverNonce = dp.serverNonce
         /\ RequestPacket(c, dp).seq = c
<1>1. /\ "ConnectChallengeRequest" \in PacketType /\ "Punch" \in PacketType
      /\ "ArrangedConnectRequest" \in PacketType /\ "ConnectRequest" \in PacketType
      /\ dp.owner \in Host /\ Peer(dp.owner) \in Host /\ 0 \in Nat
  BY PeerFacts DEF PacketType, Connection
<1>2. ChallengeRequest(c, dp) \in PacketSet
  <2>1. PacketOf("ConnectChallengeRequest", c, dp) \in PacketSet
    BY <1>1, PacketOfTyped
  <2>. QED
    BY <2>1 DEF ChallengeRequest, PacketSet
<1>3. /\ ChallengeRequest(c, dp).type = "ConnectChallengeRequest"
      /\ ChallengeRequest(c, dp).from = dp.owner
      /\ ChallengeRequest(c, dp).to = dp.addr
  BY DEF ChallengeRequest, PacketOf, Packet
<1>4. PunchPacket(c, dp) \in PacketSet
  <2>1. PacketOf("Punch", c, dp) \in PacketSet
    BY <1>1, PacketOfTyped
  <2>. QED
    BY <1>1, <2>1 DEF PunchPacket, PacketSet
<1>5. /\ PunchPacket(c, dp).type = "Punch"
      /\ PunchPacket(c, dp).from = dp.owner
      /\ PunchPacket(c, dp).to = Peer(dp.owner)
  BY DEF PunchPacket, PacketOf, Packet
<1>6. RequestPacket(c, dp) \in PacketSet
  BY <1>1, PacketOfTyped DEF RequestPacket
<1>7. /\ RequestPacket(c, dp).type =
           IF dp.arranged THEN "ArrangedConnectRequest" ELSE "ConnectRequest"
      /\ RequestPacket(c, dp).from = dp.owner
      /\ RequestPacket(c, dp).to = dp.addr
      /\ RequestPacket(c, dp).nonce = dp.nonce
      /\ RequestPacket(c, dp).serverNonce = dp.serverNonce
      /\ RequestPacket(c, dp).seq = c
  BY DEF RequestPacket, PacketOf, Packet
<1>. QED
  BY <1>2, <1>3, <1>4, <1>5, <1>6, <1>7

LEMMA SentRight ==
  ASSUME NEW cs, NEW pz, NEW c \in Nat, c \in Ids(cs), NEW dp \in Connection,
         SameParameters(cs[c], dp), NoncesRight(cs, pz, c), AddressRight(dp),
         NEW q \in Requests(c, dp)
  PROVE  q \in PacketSet /\ PacketRight(cs, pz, q)
<1>1. /\ dp.owner \in Host /\ Peer(dp.owner) \in Host /\ Peer(Peer(dp.owner)) = dp.owner
      /\ dp.addr \in {NoAddress, Peer(dp.owner)} /\ NoAddress \notin Host
  BY PeerFacts DEF Connection, AddressRight
<1>2. CASE q = ChallengeRequest(c, dp) \/ q = PunchPacket(c, dp)
  <2>1. /\ q \in PacketSet /\ q.type \in {"ConnectChallengeRequest", "Punch"}
        /\ q.from = dp.owner /\ q.to \in {dp.addr, Peer(dp.owner)}
    BY <1>2, SentTyped
  <2>2. q.to \in Host => q.from = Peer(q.to)
    BY <1>1, <2>1
  <2>. QED
    BY <2>1, <2>2 DEF PacketRight
<1>3. CASE q = RequestPacket(c, dp) /\ dp.initiator
  <2>1. /\ q \in PacketSet
        /\ q.type = IF dp.arranged THEN "ArrangedConnectRequest" ELSE "ConnectRequest"
        /\ q.from = dp.owner /\ q.to = dp.addr /\ q.seq = c
        /\ q.nonce = dp.nonce /\ q.serverNonce = dp.serverNonce
    BY <1>3, SentTyped
  <2>2. q.to \in Host => q.from = Peer(q.to)
    BY <1>1, <2>1
  <2>3. /\ cs[c].owner = dp.owner /\ cs[c].nonce = dp.nonce
        /\ cs[c].serverNonce = dp.serverNonce
        /\ cs[c].initiator = dp.initiator /\ cs[c].arranged = dp.arranged
    BY DEF SameParameters
  <2>4. ~dp.arranged =>
          /\ IsDirect(cs, c, dp.owner)
          /\ dp.nonce \in {OwnNonce(c, 0), OwnNonce(c, 1)}
          /\ dp.serverNonce <= pz[Peer(dp.owner)].mCurrentNonce
    BY <1>3, <2>3 DEF IsDirect, NoncesRight
  <2>5. dp.arranged => IsArranged(cs, c, dp.owner) /\ cs[c].initiator
    BY <1>3, <2>3 DEF IsArranged
  <2>. QED
    BY <2>1, <2>2, <2>3, <2>4, <2>5 DEF PacketRight
<1>. QED
  BY <1>2, <1>3 DEF Requests

LEMMA WaitingKeeps ==
  ASSUME IInv, NEW h \in Host, NEW c \in mPendingConnections[h] \union mConnectionList[h],
         NEW cp \in Connection, NEW dp \in Connection, NEW P,
         UNCHANGED <<scenario, puzzles, rejected>>,
         conns' = [conns EXCEPT ![c] = cp],
         mPendingConnections' = [mPendingConnections EXCEPT ![h] = P],
         mConnectionList' = [mConnectionList EXCEPT ![h] = @ \ {c}],
         P \subseteq mPendingConnections[h], c \in P => PendingRight(cp),
         cp.owner = h,
         cp.initiator = conns[c].initiator, cp.arranged = conns[c].arranged,
         \/ SameRequest(cp, conns[c])
         \/ /\ ~cp.arranged /\ cp.initiator
            /\ cp.nonce \in {OwnNonce(c, 0), OwnNonce(c, 1)}
            /\ cp.serverNonce <= puzzles[Peer(h)].mCurrentNonce,
         cp.state # "Connected", ToldRight(cp), AddressRight(cp),
         \/ cp.recvSeq = conns[c].recvSeq
         \/ cp.recvSeq \in ConnId /\ (cp.initiator \/ cp.arranged),
         SameParameters(cp, dp), AddressRight(dp),
         net' \subseteq net \union Requests(c, dp)
  PROVE  IInv'
<1>1. /\ c \in ConnId /\ conns[c] \in Connection /\ conns[c].owner = h
      /\ ConnectionRight(conns, puzzles, c) /\ c \in Nat /\ Peer(h) \in Host
  BY TypeFacts, PeerFacts DEF ConnId
<1>2. conns' = [Terminated({}) EXCEPT ![c] = cp] /\ {} \in SUBSET mConnectionList[h]
  BY NothingTerminated
<1>3. Lists(h, {c}, cp, {}, P)
  <2>1. mConnectionList' = [mConnectionList EXCEPT
          ![h] = (@ \ ({} \union {c})) \union {d \in {c} : cp.state = "Connected"}]
    OBVIOUS
  <2>. QED
    BY <2>1 DEF Lists
<1>4. Changes(h, {c}, cp, {}, P)
  BY <1>1, <1>2, <1>3, Replaced
<1>5. OldConnectionMay(h, c, cp, P)
  BY <1>1 DEF OldConnectionMay
<1>6. Allowed(h, {c}, cp, P)
  <2>1. cp.arranged => SameRequest(cp, conns[c])
    OBVIOUS
  <2>2. cp.arranged => cp.serverNonce <= scenario.arranged
    BY <1>1, <2>1 DEF IInv, FewArranged, SameRequest
  <2>. QED
    BY <1>1, <1>5, <2>2 DEF Allowed
<1>7. PuzzlesLater /\ Refuses(h)
  BY LaterWhenSame, SameRefusals DEF IInv
<1>8. Evolves(conns, conns') /\ conns'[c] = cp /\ c \in Ids(conns') /\ Ids(conns') = ConnId
  <2>1. Evolves(conns, conns')
    BY <1>4, <1>6, StepFacts
  <2>2. Ids(conns') = ConnId \union {c} /\ conns'[c] = cp
    BY <1>4 DEF Changes
  <2>. QED
    BY <1>1, <2>1, <2>2
<1>9. NoncesRight(conns', puzzles', c)
  <2>1. CASE SameRequest(cp, conns[c])
    BY <1>1, <1>7, <1>8, <2>1, NoncesKept
  <2>2. CASE /\ ~cp.arranged /\ cp.initiator
             /\ cp.nonce \in {OwnNonce(c, 0), OwnNonce(c, 1)}
             /\ cp.serverNonce <= puzzles[Peer(h)].mCurrentNonce
    <3>1. h \in Starters
      BY <1>1, <2>2 DEF ConnectionRight, NoncesRight, PendingRight
    <3>. QED
      BY <1>8, <2>2, <3>1 DEF NoncesRight
  <2>. QED
    BY <2>1, <2>2
<1>10. ConnectionRight(conns', puzzles', c)
  <2>1. EndRight(conns', c)
    BY <1>8 DEF EndRight
  <2>2. cp.recvSeq \in Ids(conns') \union {0}
    BY <1>1, <1>8, TypeFacts DEF ConnectionRight
  <2>. QED
    BY <1>8, <1>9, <2>1, <2>2 DEF ConnectionRight
<1>11. SendsTruth
  <2>1. \A q \in Requests(c, dp) : q \in PacketSet /\ PacketRight(conns', puzzles', q)
    BY <1>1, <1>8, <1>9, SentRight
  <2>. QED
    BY <2>1 DEF SendsTruth
<1>12. /\ P \subseteq mPendingConnections[h] \union mConnectionList[h]
       /\ cp.state = "Connected" => {c} \subseteq mPendingConnections[h] \union mConnectionList[h]
  OBVIOUS
<1>13. \A d \in {c} : ConnectionRight(conns', puzzles', d)
  BY <1>10
<1>. DEFINE N == {c}  old == {}
<1>14. /\ Changes(h, N, cp, old, P) /\ Allowed(h, N, cp, P)
       /\ \A d \in N : ConnectionRight(conns', puzzles', d)
       /\ P \subseteq mPendingConnections[h] \union mConnectionList[h]
       /\ cp.state = "Connected" => N \subseteq mPendingConnections[h] \union mConnectionList[h]
  BY <1>4, <1>6, <1>12, <1>13
<1>. HIDE DEF N, old
<1>. QED
  BY <1>7, <1>11, <1>14, StepKeeps

LEMMA SameLists ==
  ASSUME IInv, NEW h \in Host
  PROVE  /\ mPendingConnections = [mPendingConnections EXCEPT ![h] = mPendingConnections[h]]
         /\ \A c \in mPendingConnections[h] :
              /\ mConnectionList = [mConnectionList EXCEPT ![h] = @ \ {c}]
              /\ PendingWithout(h, c)
                   = [mPendingConnections EXCEPT ![h] = mPendingConnections[h] \ {c}]
<1>1. /\ mPendingConnections \in [Host -> SUBSET ConnId]
      /\ mConnectionList \in [Host -> SUBSET ConnId]
  BY DEF IInv, Types
<1>2. \A c \in mPendingConnections[h] : mConnectionList[h] = mConnectionList[h] \ {c}
  BY PendingFacts
<1>. QED
  BY <1>1, <1>2 DEF PendingWithout

(* What becomes of a connection that is pending or there.                  *)
LEMMA FinishedFacts ==
  ASSUME IInv, NEW h \in Host, NEW c \in mPendingConnections[h] \union mConnectionList[h],
         NEW st \in State, st # "Connected",
         NEW callback \in {"onConnectTerminated", "onConnectionTerminated"},
         callback = "onConnectTerminated" <=> c \in mPendingConnections[h],
         NEW cp, cp = Becomes(conns[c], st, callback)
  PROVE  /\ cp \in Connection /\ SameParameters(cp, conns[c]) /\ cp.state = st
         /\ ToldRight(cp) /\ AddressRight(cp)
         /\ conns[c].owner = h /\ conns[c] \in Connection /\ AddressRight(conns[c])
<1>1. /\ conns[c] \in Connection /\ conns[c].owner = h
      /\ AddressRight(conns[c]) /\ ToldRight(conns[c])
  BY TypeFacts DEF ConnectionRight
<1>2. /\ Append(conns[c].told, callback) \in Tales
      /\ Append(conns[c].told, callback) # <<"onConnectionEstablished">>
  <2>1. CASE c \in mPendingConnections[h]
    <3>1. conns[c].told = << >>
      BY <2>1, PendingFacts
    <3>. QED
      BY <2>1, <3>1, TaleFacts DEF Tales
  <2>2. CASE c \notin mPendingConnections[h]
    <3>1. conns[c].told = <<"onConnectionEstablished">> /\ callback = "onConnectionTerminated"
      BY <1>1, <2>2, TypeFacts DEF ToldRight
    <3>. QED
      BY <3>1, TaleFacts DEF Tales
  <2>. QED
    BY <2>1, <2>2
<1>3. /\ cp \in Connection /\ cp.state = st /\ SameParameters(cp, conns[c])
      /\ cp.told = Append(conns[c].told, callback)
  BY <1>1, <1>2, BecomesFacts
<1>4. ToldRight(cp)
  BY <1>2, <1>3 DEF ToldRight
<1>5. AddressRight(cp)
  BY <1>1, <1>3 DEF AddressRight, SameParameters
<1>. QED
  BY <1>1, <1>3, <1>4, <1>5

LEMMA FinishedKeeps ==
  ASSUME IInv, NEW h \in Host, NEW c \in mPendingConnections[h] \union mConnectionList[h],
         NEW st \in State, st # "Connected",
         NEW callback \in {"onConnectTerminated", "onConnectionTerminated"},
         callback = "onConnectTerminated" <=> c \in mPendingConnections[h],
         UNCHANGED <<scenario, puzzles, net, rejected>>,
         conns' = [conns EXCEPT ![c] = Becomes(conns[c], st, callback)],
         mPendingConnections' =
           [mPendingConnections EXCEPT ![h] = mPendingConnections[h] \ {c}],
         mConnectionList' = [mConnectionList EXCEPT ![h] = @ \ {c}]
  PROVE  IInv'
<1>. DEFINE cp == Becomes(conns[c], st, callback)
<1>1. /\ cp \in Connection /\ SameParameters(cp, conns[c]) /\ cp.state = st
      /\ ToldRight(cp) /\ AddressRight(cp)
      /\ conns[c].owner = h /\ conns[c] \in Connection /\ AddressRight(conns[c])
  BY FinishedFacts
<1>. HIDE DEF cp
<1>2. conns' = [conns EXCEPT ![c] = cp]
  BY DEF cp
<1>3. /\ cp.owner = h /\ cp.initiator = conns[c].initiator
      /\ cp.arranged = conns[c].arranged /\ SameRequest(cp, conns[c])
      /\ cp.recvSeq = conns[c].recvSeq
  BY <1>1 DEF SameParameters, SameRequest
<1>4. /\ mPendingConnections[h] \ {c} \subseteq mPendingConnections[h]
      /\ c \notin mPendingConnections[h] \ {c} /\ cp.state # "Connected"
      /\ net' \subseteq net \union Requests(c, conns[c])
  BY <1>1
<1>. QED
  BY <1>1, <1>2, <1>3, <1>4, WaitingKeeps

LEMMA GiveUpKeeps ==
  ASSUME IInv, NEW h \in Host, NEW c \in mPendingConnections[h], GiveUp(h, c)
  PROVE  IInv'
<1>1. /\ UNCHANGED <<scenario, mConnectionList, puzzles, net, rejected>>
      /\ conns' = [conns EXCEPT
           ![c] = Becomes(conns[c], "ConnectTimedOut", "onConnectTerminated")]
      /\ mPendingConnections' = PendingWithout(h, c)
  BY DEF GiveUp
<1>2. "ConnectTimedOut" \in State
  BY DEF State
<1>3. /\ mPendingConnections' =
           [mPendingConnections EXCEPT ![h] = mPendingConnections[h] \ {c}]
      /\ mConnectionList' = [mConnectionList EXCEPT ![h] = @ \ {c}]
  BY <1>1, SameLists
<1>. QED
  BY <1>1, <1>2, <1>3, FinishedKeeps

LEMMA ConnectionTimesOutKeeps ==
  ASSUME IInv, NEW h \in Host, NEW c \in ConnId, ConnectionTimesOut(h, c)
  PROVE  IInv'
<1>1. /\ c \in mConnectionList[h]
      /\ UNCHANGED <<scenario, mPendingConnections, puzzles, net, rejected>>
      /\ conns' = [conns EXCEPT
           ![c] = Becomes(conns[c], "TimedOut", "onConnectionTerminated")]
      /\ mConnectionList' = [mConnectionList EXCEPT ![h] = @ \ {c}]
  BY DEF ConnectionTimesOut
<1>2. "TimedOut" \in State
  BY DEF State
<1>3. c \notin mPendingConnections[h]
  BY <1>1, PendingFacts
<1>4. mPendingConnections' =
        [mPendingConnections EXCEPT ![h] = mPendingConnections[h] \ {c}]
  <2>1. mPendingConnections[h] \ {c} = mPendingConnections[h]
    BY <1>3
  <2>. QED
    BY <1>1, <2>1, SameLists
<1>. QED
  BY <1>1, <1>2, <1>3, <1>4, FinishedKeeps

LEMMA RetryKeeps ==
  ASSUME IInv, NEW h \in Host, NEW c \in mPendingConnections[h], Retry(h, c)
  PROVE  IInv'
<1>. DEFINE cp == [conns[c] EXCEPT !.sends = @ + 1]
<1>1. /\ UNCHANGED <<scenario, mPendingConnections, mConnectionList, puzzles, rejected>>
      /\ conns' = [conns EXCEPT ![c] = cp]
      /\ net' = net \union {PacketSentAgain(c, conns[c])}
      /\ conns[c].sends <= RetryCount(conns[c])
  BY DEF Retry, Counted, hostVars
<1>2. /\ conns[c] \in Connection /\ conns[c].owner = h /\ PendingRight(conns[c])
      /\ AddressRight(conns[c]) /\ ToldRight(conns[c]) /\ conns[c].state # "Connected"
  BY PendingFacts DEF ConnectionRight
<1>3. cp \in Connection /\ SameParameters(cp, conns[c])
      /\ cp.state = conns[c].state /\ cp.told = conns[c].told
  BY <1>2 DEF Connection, SameParameters
<1>. HIDE DEF cp
<1>4. PendingRight(cp) /\ ToldRight(cp) /\ AddressRight(cp)
  BY <1>2, <1>3 DEF PendingRight, ToldRight, AddressRight, SameParameters
<1>5. PacketSentAgain(c, conns[c]) \in Requests(c, conns[c])
  <2>1. conns[c].state # "ComputingPuzzleSolution"
    BY <1>1, <1>2 DEF RetryCount, Connection
  <2>2. conns[c].state = "AwaitingConnectResponse" => conns[c].initiator
    BY <1>2 DEF PendingRight
  <2>3. conns[c].state \in {"AwaitingChallengeResponse", "AwaitingConnectResponse",
                            "SendingPunchPackets"}
    BY <1>2, <2>1 DEF PendingRight
  <2>. QED
    BY <2>2, <2>3 DEF PacketSentAgain, Requests
<1>6. /\ cp.owner = h /\ cp.initiator = conns[c].initiator
      /\ cp.arranged = conns[c].arranged /\ SameRequest(cp, conns[c])
      /\ cp.recvSeq = conns[c].recvSeq
  BY <1>2, <1>3 DEF SameParameters, SameRequest
<1>7. /\ mPendingConnections' = [mPendingConnections EXCEPT ![h] = mPendingConnections[h]]
      /\ mConnectionList' = [mConnectionList EXCEPT ![h] = @ \ {c}]
  BY <1>1, SameLists
<1>8. cp.state # "Connected" /\ net' \subseteq net \union Requests(c, conns[c])
  BY <1>1, <1>2, <1>3, <1>5
<1>. QED
  BY <1>1, <1>2, <1>3, <1>4, <1>6, <1>7, <1>8, WaitingKeeps

LEMMA DisconnectKeeps ==
  ASSUME IInv, NEW h \in Host, NEW c \in ConnId, disconnect(h, c)
  PROVE  IInv'
<1>1. /\ c \in mPendingConnections[h] \union mConnectionList[h]
      /\ UNCHANGED <<scenario, puzzles, rejected>>
  BY DEF disconnect
<1>2. PuzzlesLater /\ Refuses(h)
  BY <1>1, LaterWhenSame, SameRefusals DEF IInv
<1>3. CASE /\ conns[c].state \in {"AwaitingChallengeResponse", "AwaitingConnectResponse"}
           /\ conns' = [conns EXCEPT ![c].told = Append(@, "onConnectTerminated")]
           /\ mPendingConnections' = PendingWithout(h, c)
           /\ UNCHANGED <<mConnectionList, net>>
  <2>1. c \in mPendingConnections[h]
    BY <1>1, <1>3, TypeFacts
  <2>2. conns[c] \in Connection /\ conns[c].state \in State /\ conns[c].state # "Connected"
    BY <1>3, TypeFacts DEF State
  <2>3. Becomes(conns[c], conns[c].state, "onConnectTerminated")
          = [conns[c] EXCEPT !.told = Append(@, "onConnectTerminated")]
    BY <2>2 DEF Becomes, Connection
  <2>4. conns' = [conns EXCEPT
          ![c] = Becomes(conns[c], conns[c].state, "onConnectTerminated")]
    BY <1>3, <2>3
  <2>5. /\ mPendingConnections' =
             [mPendingConnections EXCEPT ![h] = mPendingConnections[h] \ {c}]
        /\ mConnectionList' = [mConnectionList EXCEPT ![h] = @ \ {c}]
    BY <1>3, <2>1, SameLists
  <2>. QED
    BY <1>1, <1>3, <2>1, <2>2, <2>4, <2>5, FinishedKeeps
<1>4. CASE /\ conns[c].state = "Connected"
           /\ conns' = Terminated({c})
           /\ mConnectionList' = [mConnectionList EXCEPT ![h] = @ \ {c}]
           /\ net' = net \union DisconnectPackets({c})
           /\ UNCHANGED mPendingConnections
  <2>1. {c} \in SUBSET mConnectionList[h]
    BY <1>1, <1>4, PendingFacts
  <2>2. SendsTruth
    BY <1>4, <2>1, ClosingSends DEF SendsTruth
  <2>. QED
    BY <1>1, <1>2, <1>4, <2>1, <2>2, ClosingKeeps
<1>5. CASE UNCHANGED <<conns, hostVars, net>>
  BY <1>1, <1>2, <1>5, SameConnectionsKeep DEF hostVars, SendsTruth
<1>. QED
  BY <1>3, <1>4, <1>5 DEF disconnect

(* The puzzle is solved, or not yet.                                       *)
LEMMA SolvedKeeps ==
  ASSUME IInv, NEW h \in Host, NEW c \in mPendingConnections[h],
         NEW cp \in Connection, NEW solved \in BOOLEAN,
         ~conns[c].arranged,
         cp.owner = h, cp.addr = conns[c].addr, cp.nonce = conns[c].nonce,
         cp.initiator = conns[c].initiator, cp.arranged = conns[c].arranged,
         cp.recvSeq = conns[c].recvSeq, cp.told = conns[c].told,
         cp.state = "ComputingPuzzleSolution",
         cp.serverNonce <= puzzles[Peer(h)].mCurrentNonce,
         Solved(c, cp, solved),
         UNCHANGED <<scenario, mPendingConnections, mConnectionList, puzzles, rejected>>
  PROVE  IInv'
<1>. DEFINE dp == IF solved THEN [cp EXCEPT !.state = "AwaitingConnectResponse", !.sends = @ + 1]
                            ELSE cp
<1>1. /\ conns' = [conns EXCEPT ![c] = dp]
      /\ net' = IF solved THEN net \union {RequestPacket(c, cp)} ELSE net
  BY DEF Solved
<1>2. /\ conns[c] \in Connection /\ conns[c].owner = h /\ PendingRight(conns[c])
      /\ AddressRight(conns[c]) /\ NoncesRight(conns, puzzles, c)
      /\ conns[c].told = << >> /\ conns[c].initiator
  BY PendingFacts DEF ConnectionRight, PendingRight
<1>3. /\ dp \in Connection /\ SameParameters(dp, cp) /\ dp.told = cp.told
      /\ dp.state \in {"AwaitingConnectResponse", "ComputingPuzzleSolution"}
  <2>1. CASE solved
    <3>1. dp = [cp EXCEPT !.state = "AwaitingConnectResponse", !.sends = @ + 1]
      BY <2>1
    <3>. HIDE DEF dp
    <3>2. "AwaitingConnectResponse" \in State /\ cp.sends + 1 \in Nat
      BY DEF Connection, State
    <3>3. dp \in Connection
      BY <3>1, <3>2 DEF Connection
    <3>. QED
      BY <3>1, <3>3 DEF Connection, SameParameters
  <2>2. CASE ~solved
    <3>1. dp = cp
      BY <2>2
    <3>. QED
      BY <3>1 DEF SameParameters
  <2>. QED
    BY <2>1, <2>2
<1>. HIDE DEF dp
<1>4. /\ dp.owner = h /\ dp.addr = conns[c].addr /\ dp.nonce = conns[c].nonce
      /\ dp.initiator = conns[c].initiator /\ dp.arranged = conns[c].arranged
      /\ dp.recvSeq = conns[c].recvSeq /\ dp.serverNonce = cp.serverNonce
  BY <1>3 DEF SameParameters
<1>5. PendingRight(dp) /\ ToldRight(dp) /\ dp.state # "Connected"
  BY <1>2, <1>3, <1>4, TaleFacts DEF PendingRight, ToldRight
<1>6. AddressRight(dp) /\ AddressRight(cp)
  BY <1>2, <1>3, <1>4 DEF AddressRight
<1>7. /\ ~dp.arranged /\ dp.initiator
      /\ dp.nonce \in {OwnNonce(c, 0), OwnNonce(c, 1)}
      /\ dp.serverNonce <= puzzles[Peer(h)].mCurrentNonce
  BY <1>2, <1>4 DEF NoncesRight
<1>8. net' \subseteq net \union Requests(c, cp)
  BY <1>1, <1>2 DEF Requests
<1>9. /\ mPendingConnections' = [mPendingConnections EXCEPT ![h] = mPendingConnections[h]]
      /\ mConnectionList' = [mConnectionList EXCEPT ![h] = @ \ {c}]
  BY SameLists
<1>. QED
  BY <1>1, <1>3, <1>4, <1>5, <1>6, <1>7, <1>8, <1>9, WaitingKeeps

LEMMA ChallengeResponseKeeps ==
  ASSUME IInv, NEW h \in Host, NEW p \in net, p.to = h,
         handleConnectChallengeResponse(h, p)
  PROVE  IInv'
<1>1. /\ p.type = "ConnectChallengeResponse"
      /\ UNCHANGED <<scenario, mPendingConnections, mConnectionList, puzzles, rejected>>
  BY DEF handleConnectChallengeResponse, hostVars
<1>2. PICK c \in findPendingConnection(h, p.from), solved \in BOOLEAN :
        /\ conns[c].state = "AwaitingChallengeResponse"
        /\ Solved(c, [conns[c] EXCEPT !.serverNonce = p.serverNonce,
                                      !.state = "ComputingPuzzleSolution",
                                      !.sends = 0], solved)
  BY DEF handleConnectChallengeResponse
<1>3. c \in mPendingConnections[h]
  BY FirstIsOne DEF findPendingConnection
<1>. DEFINE cp == [conns[c] EXCEPT !.serverNonce = p.serverNonce,
                                   !.state = "ComputingPuzzleSolution", !.sends = 0]
<1>4. /\ conns[c] \in Connection /\ conns[c].owner = h /\ ~conns[c].arranged
  BY <1>2, <1>3, PendingFacts DEF PendingRight
<1>5. p.serverNonce \in Nat /\ p.serverNonce <= puzzles[Peer(h)].mCurrentNonce
  BY <1>1, ReceivedFacts DEF PacketRight
<1>6. /\ cp \in Connection /\ cp.owner = h /\ cp.addr = conns[c].addr
      /\ cp.nonce = conns[c].nonce /\ cp.initiator = conns[c].initiator
      /\ cp.arranged = conns[c].arranged /\ cp.recvSeq = conns[c].recvSeq
      /\ cp.told = conns[c].told /\ cp.state = "ComputingPuzzleSolution"
      /\ cp.serverNonce = p.serverNonce
  BY <1>4, <1>5 DEF Connection, State
<1>7. Solved(c, cp, solved)
  BY <1>2
<1>. HIDE DEF cp
<1>. QED
  BY <1>1, <1>3, <1>4, <1>5, <1>6, <1>7, SolvedKeeps

LEMMA ContinueKeeps ==
  ASSUME IInv, NEW h \in Host, continuePuzzleSolution(h)
  PROVE  IInv'
<1>1. UNCHANGED <<scenario, mPendingConnections, mConnectionList, puzzles, rejected>>
  BY DEF continuePuzzleSolution, hostVars
<1>2. PICK c \in mPendingConnections[h] :
        conns[c].state = "ComputingPuzzleSolution" /\ Solved(c, conns[c], TRUE)
  BY FirstIsOne DEF continuePuzzleSolution
<1>3. /\ conns[c] \in Connection /\ conns[c].owner = h /\ NoncesRight(conns, puzzles, c)
      /\ ~conns[c].arranged /\ conns[c].initiator
  BY <1>2, PendingFacts DEF PendingRight, ConnectionRight
<1>4. conns[c].serverNonce <= puzzles[Peer(h)].mCurrentNonce
  BY <1>3 DEF NoncesRight
<1>. QED
  BY <1>1, <1>2, <1>3, <1>4, SolvedKeeps

LEMMA PunchKeeps ==
  ASSUME IInv, NEW h \in Host, NEW p \in net, p.to = h, handlePunch(h, p)
  PROVE  IInv'
<1>1. UNCHANGED <<scenario, mPendingConnections, mConnectionList, puzzles, rejected>>
  BY DEF handlePunch, hostVars
<1>2. PICK c \in mPendingConnections[h] :
        LET cp == [conns[c] EXCEPT !.addr = p.from, !.sends = 1,
                                   !.state = "AwaitingConnectResponse"] IN
        /\ conns[c].state = "SendingPunchPackets" /\ conns[c].initiator
        /\ conns' = [conns EXCEPT ![c] = cp]
        /\ net' = net \union {RequestPacket(c, cp)}
  BY FirstIsOne DEF handlePunch
<1>. DEFINE cp == [conns[c] EXCEPT !.addr = p.from, !.sends = 1,
                                   !.state = "AwaitingConnectResponse"]
<1>3. /\ conns[c] \in Connection /\ conns[c].owner = h /\ NoncesRight(conns, puzzles, c)
      /\ conns[c].arranged /\ conns[c].told = << >> /\ conns[c].initiator
  BY <1>2, PendingFacts DEF PendingRight, ConnectionRight
<1>4. /\ cp \in Connection /\ cp.owner = h /\ cp.addr = Peer(h)
      /\ cp.initiator = conns[c].initiator /\ cp.arranged = conns[c].arranged
      /\ cp.nonce = conns[c].nonce /\ cp.serverNonce = conns[c].serverNonce
      /\ cp.recvSeq = conns[c].recvSeq /\ cp.told = << >>
      /\ cp.state = "AwaitingConnectResponse"
  BY <1>3, ReceivedFacts DEF Connection, State
<1>5. /\ conns' = [conns EXCEPT ![c] = cp]
      /\ net' = net \union {RequestPacket(c, cp)}
  BY <1>2
<1>. HIDE DEF cp
<1>6. PendingRight(cp) /\ ToldRight(cp) /\ AddressRight(cp) /\ cp.state # "Connected"
  BY <1>3, <1>4, TaleFacts DEF PendingRight, ToldRight, AddressRight
<1>7. SameRequest(cp, conns[c]) /\ SameParameters(cp, cp)
  BY <1>4 DEF SameRequest, SameParameters
<1>8. net' \subseteq net \union Requests(c, cp)
  BY <1>3, <1>4, <1>5 DEF Requests
<1>9. /\ mPendingConnections' = [mPendingConnections EXCEPT ![h] = mPendingConnections[h]]
      /\ mConnectionList' = [mConnectionList EXCEPT ![h] = @ \ {c}]
  BY <1>1, SameLists
<1>. QED
  BY <1>1, <1>4, <1>5, <1>6, <1>7, <1>8, <1>9, WaitingKeeps

LEMMA RejectKeeps ==
  ASSUME IInv, NEW h \in Host, NEW p \in net, p.to = h, handleConnectReject(h, p)
  PROVE  IInv'
<1>1. /\ p.type = "ConnectReject"
      /\ UNCHANGED <<scenario, mConnectionList, puzzles, rejected>>
  BY DEF handleConnectReject
<1>2. PICK c \in mPendingConnections[h] :
        LET again == [conns[c] EXCEPT !.retried = TRUE, !.nonce = OwnNonce(c, 1),
                                      !.state = "AwaitingChallengeResponse",
                                      !.sends = 1]
        IN
        /\ SameRequest(conns[c], p)
        /\ IF p.reason = "Puzzle" /\ ~conns[c].retried
             THEN /\ conns' = [conns EXCEPT ![c] = again]
                  /\ net' = net \union {ChallengeRequest(c, again)}
                  /\ UNCHANGED mPendingConnections
             ELSE /\ conns' = [conns EXCEPT
                       ![c] = Becomes(conns[c], "ConnectRejected", "onConnectTerminated")]
                  /\ mPendingConnections' = PendingWithout(h, c)
                  /\ UNCHANGED net
  BY FirstIsOne DEF handleConnectReject, findPendingConnection
<1>3. /\ conns[c] \in Connection /\ conns[c].owner = h /\ NoncesRight(conns, puzzles, c)
      /\ conns[c].told = << >> /\ PendingRight(conns[c]) /\ AddressRight(conns[c])
      /\ c \in Nat \ {0}
  BY PendingFacts DEF ConnectionRight
<1>4. mConnectionList' = [mConnectionList EXCEPT ![h] = @ \ {c}]
  BY <1>1, SameLists
<1>5. CASE p.reason = "Puzzle" /\ ~conns[c].retried
  <2>. DEFINE cp == [conns[c] EXCEPT !.retried = TRUE, !.nonce = OwnNonce(c, 1),
                                     !.state = "AwaitingChallengeResponse", !.sends = 1]
  <2>1. PICK d \in Nat \ {0} : conns[c].nonce \in {OwnNonce(d, 0), OwnNonce(d, 1)}
    BY <1>1, <1>2, <1>5, ReceivedFacts DEF PacketRight, SameRequest
  <2>2. ~conns[c].arranged /\ conns[c].initiator
    BY <1>3, <2>1, NonceFacts DEF NoncesRight, PendingRight
  <2>3. OwnNonce(c, 1) \in AnyNonce
    BY <1>3, NonceFacts
  <2>4. /\ cp \in Connection /\ cp.owner = h /\ cp.addr = conns[c].addr
        /\ cp.initiator = conns[c].initiator /\ cp.arranged = conns[c].arranged
        /\ cp.nonce = OwnNonce(c, 1) /\ cp.serverNonce = conns[c].serverNonce
        /\ cp.recvSeq = conns[c].recvSeq /\ cp.told = << >>
        /\ cp.state = "AwaitingChallengeResponse"
    BY <1>3, <2>3 DEF Connection, State
  <2>5. /\ conns' = [conns EXCEPT ![c] = cp]
        /\ net' = net \union {ChallengeRequest(c, cp)}
    BY <1>2, <1>5
  <2>6. mPendingConnections' = [mPendingConnections EXCEPT ![h] = mPendingConnections[h]]
    BY <1>2, <1>5, SameLists
  <2>. HIDE DEF cp
  <2>7. PendingRight(cp) /\ ToldRight(cp) /\ AddressRight(cp) /\ cp.state # "Connected"
    BY <1>3, <2>2, <2>4, TaleFacts DEF PendingRight, ToldRight, AddressRight
  <2>8. /\ SameParameters(cp, cp) /\ net' \subseteq net \union Requests(c, cp)
    BY <2>5 DEF SameParameters, Requests
  <2>9. /\ ~cp.arranged /\ cp.initiator
        /\ cp.nonce \in {OwnNonce(c, 0), OwnNonce(c, 1)}
        /\ cp.serverNonce <= puzzles[Peer(h)].mCurrentNonce
    BY <1>3, <2>2, <2>4 DEF NoncesRight
  <2>. QED
    BY <1>1, <1>4, <2>4, <2>5, <2>6, <2>7, <2>8, <2>9, WaitingKeeps
<1>6. CASE ~(p.reason = "Puzzle" /\ ~conns[c].retried)
  <2>1. /\ conns' = [conns EXCEPT
             ![c] = Becomes(conns[c], "ConnectRejected", "onConnectTerminated")]
        /\ mPendingConnections' = PendingWithout(h, c)
        /\ UNCHANGED net
    BY <1>2, <1>6
  <2>2. "ConnectRejected" \in State
    BY DEF State
  <2>3. mPendingConnections' =
          [mPendingConnections EXCEPT ![h] = mPendingConnections[h] \ {c}]
    BY <2>1, SameLists
  <2>. QED
    BY <1>1, <1>4, <2>1, <2>2, <2>3, FinishedKeeps
<1>. QED
  BY <1>5, <1>6

-----------------------------------------------------------------------------
(* Steps in which a connection may be established.                         *)
(* A connection is there.                                                  *)
LEMMA EstablishedFacts ==
  ASSUME NEW cp \in Connection, cp.told = << >>,
         NEW dp, dp = Becomes(cp, "Connected", "onConnectionEstablished")
  PROVE  /\ dp \in Connection /\ SameParameters(dp, cp) /\ dp.state = "Connected"
         /\ dp.told = <<"onConnectionEstablished">> /\ ToldRight(dp)
<1>1. /\ "Connected" \in State
      /\ Append(cp.told, "onConnectionEstablished") = <<"onConnectionEstablished">>
      /\ <<"onConnectionEstablished">> \in Tales
  BY TaleFacts DEF State, Tales
<1>. QED
  BY <1>1, BecomesFacts DEF ToldRight
LEMMA AcceptKeeps ==
  ASSUME IInv, NEW h \in Host, NEW p \in net, p.to = h, handleConnectAccept(h, p)
  PROVE  IInv'
<1>1. /\ p.type = "ConnectAccept"
      /\ UNCHANGED <<scenario, puzzles, net, rejected>>
  BY DEF handleConnectAccept
<1>2. PICK c \in findPendingConnection(h, p.from), agrees \in BOOLEAN :
        LET cp == [conns[c] EXCEPT !.recvSeq = p.seq] IN
        /\ IsAwaited(conns[c], p)
        /\ mPendingConnections' = PendingWithout(h, c)
        /\ mConnectionList' =
             [mConnectionList EXCEPT ![h] = IF agrees THEN @ \union {c} ELSE @]
        /\ conns' = [conns EXCEPT ![c] =
             IF agrees THEN Becomes(cp, "Connected", "onConnectionEstablished") ELSE cp]
  BY DEF handleConnectAccept
<1>3. c \in mPendingConnections[h] /\ conns[c].addr = Peer(h)
  BY FirstIsOne, ReceivedFacts DEF findPendingConnection
<1>4. /\ c \in ConnId /\ c \in Nat /\ conns[c] \in Connection /\ conns[c].owner = h
      /\ conns[c].told = << >> /\ conns[c].initiator /\ c \notin mConnectionList[h]
      /\ conns[c].state = "AwaitingConnectResponse" /\ SameRequest(conns[c], p)
  BY <1>2, <1>3, PendingFacts DEF IsAwaited, PendingRight
<1>5. /\ p.seq \in ConnId /\ p.seq \in Nat
      /\ conns[p.seq].owner = Peer(h) /\ ~conns[p.seq].initiator
      /\ SameRequest(conns[p.seq], p)
  BY <1>1, ReceivedFacts, TypeFacts DEF PacketRight
<1>. DEFINE cp == [conns[c] EXCEPT !.recvSeq = p.seq]
            P == mPendingConnections[h] \ {c}
<1>6. /\ cp \in Connection /\ cp.owner = h /\ cp.addr = Peer(h)
      /\ cp.initiator /\ cp.initiator = conns[c].initiator
      /\ cp.arranged = conns[c].arranged
      /\ cp.nonce = conns[c].nonce /\ cp.serverNonce = conns[c].serverNonce
      /\ cp.recvSeq = p.seq /\ cp.told = << >>
      /\ cp.state = "AwaitingConnectResponse"
  BY <1>3, <1>4, <1>5 DEF Connection
<1>7. SameRequest(cp, conns[c])
  BY <1>6 DEF SameRequest
<1>8. conns' = [conns EXCEPT ![c] =
        IF agrees THEN Becomes(cp, "Connected", "onConnectionEstablished") ELSE cp]
  BY <1>2
<1>9. mPendingConnections' = [mPendingConnections EXCEPT ![h] = P]
  BY <1>2, <1>3, SameLists
<1>10. P \subseteq mPendingConnections[h] /\ c \notin P
  OBVIOUS
<1>. HIDE DEF cp, P
<1>11. CASE ~agrees
  <2>1. conns' = [conns EXCEPT ![c] = cp]
    BY <1>8, <1>11
  <2>2. mConnectionList' = [mConnectionList EXCEPT ![h] = @ \ {c}]
    <3>1. mConnectionList[h] = mConnectionList[h] \ {c}
      BY <1>4
    <3>. QED
      BY <1>2, <1>11, <3>1
  <2>3. /\ ToldRight(cp) /\ AddressRight(cp) /\ cp.state # "Connected"
        /\ SameParameters(cp, cp)
    BY <1>6, TaleFacts DEF ToldRight, AddressRight, SameParameters
  <2>. QED
    BY <1>1, <1>3, <1>5, <1>6, <1>7, <1>9, <1>10, <2>1, <2>2, <2>3, WaitingKeeps
<1>12. CASE agrees
  <2>. DEFINE dp == Becomes(cp, "Connected", "onConnectionEstablished")
              N == {c}  old == {}
  <2>1. /\ dp \in Connection /\ SameParameters(dp, cp) /\ dp.state = "Connected"
        /\ dp.told = <<"onConnectionEstablished">>
    BY <1>6, EstablishedFacts
  <2>. HIDE DEF dp
  <2>2. /\ dp.owner = h /\ dp.addr = Peer(h) /\ dp.initiator
        /\ dp.initiator = conns[c].initiator /\ dp.arranged = conns[c].arranged
        /\ dp.nonce = conns[c].nonce /\ dp.serverNonce = conns[c].serverNonce
        /\ dp.recvSeq = p.seq
    BY <1>6, <2>1 DEF SameParameters
  <2>3. conns' = [conns EXCEPT ![c] = dp]
    BY <1>8, <1>12 DEF dp
  <2>4. conns' = [Terminated({}) EXCEPT ![c] = dp] /\ {} \in SUBSET mConnectionList[h]
    BY <2>3, NothingTerminated
  <2>5. Lists(h, {c}, dp, {}, P)
    <3>1. mConnectionList[h] \union {c} =
            (mConnectionList[h] \ ({} \union {c})) \union {d \in {c} : dp.state = "Connected"}
      BY <2>1
    <3>2. mConnectionList' = [mConnectionList EXCEPT ![h] = mConnectionList[h] \union {c}]
      BY <1>2, <1>12
    <3>. QED
      BY <1>1, <1>9, <3>1, <3>2 DEF Lists
  <2>6. Changes(h, {c}, dp, {}, P)
    BY <1>4, <2>1, <2>4, <2>5, Replaced
  <2>7. OldConnectionMay(h, c, dp, P)
    BY <1>3, <1>4, <2>2 DEF OldConnectionMay, SameRequest
  <2>8. Allowed(h, {c}, dp, P)
    BY <1>4, <1>10, <2>1, <2>2, <2>7 DEF Allowed, IInv, FewArranged
  <2>9. PuzzlesLater /\ Refuses(h) /\ SendsTruth
    BY <1>1, LaterWhenSame, SameRefusals DEF IInv, SendsTruth
  <2>10. Evolves(conns, conns')
    BY <2>6, <2>8, StepFacts
  <2>11. /\ Ids(conns') = ConnId \union {c} /\ conns'[c] = dp
    BY <2>6 DEF Changes
  <2>12. NoncesRight(conns', puzzles', c)
    BY <1>4, <2>2, <2>9, <2>10, <2>11, NoncesKept DEF SameRequest
  <2>13. EndRight(conns', c)
    <3>1. /\ conns'[p.seq].owner = Peer(h) /\ ~conns'[p.seq].initiator
          /\ SameRequest(conns'[p.seq], dp) /\ p.seq \in Ids(conns')
      BY <1>4, <1>5, <2>2, <2>10, <2>11, TypeFacts DEF Evolves, SameRequest
    <3>. QED
      BY <2>2, <2>11, <3>1 DEF EndRight
  <2>14. ConnectionRight(conns', puzzles', c)
    BY <1>5, <2>1, <2>2, <2>11, <2>12, <2>13, PeerFacts
       DEF ConnectionRight, AddressRight, ToldRight
  <2>15. /\ Changes(h, N, dp, old, P) /\ Allowed(h, N, dp, P)
         /\ \A d \in N : ConnectionRight(conns', puzzles', d)
         /\ P \subseteq mPendingConnections[h] \union mConnectionList[h]
         /\ dp.state = "Connected" =>
              N \subseteq mPendingConnections[h] \union mConnectionList[h]
    BY <1>3, <1>10, <2>6, <2>8, <2>14
  <2>. HIDE DEF N, old
  <2>. QED
    BY <2>9, <2>15, StepKeeps
<1>. QED
  BY <1>11, <1>12

(* A host that does not start connections has only arranged ones pending.  *)
LEMMA ServerFacts ==
  ASSUME IInv, NEW h \in Host, h \notin Starters, scenario.arranged = 0
  PROVE  mPendingConnections[h] = {}
<1>. SUFFICES ASSUME NEW c \in mPendingConnections[h]
              PROVE  FALSE
  OBVIOUS
<1>1. /\ c \in ConnId /\ PendingRight(conns[c]) /\ NoncesRight(conns, puzzles, c)
      /\ conns[c].owner = h
      /\ conns[c].arranged => conns[c].serverNonce <= scenario.arranged
  BY PendingFacts DEF ConnectionRight, IInv, FewArranged
<1>. QED
  BY <1>1 DEF PendingRight, NoncesRight

LEMMA RequestGrantedKeeps ==
  ASSUME IInv, NEW h \in Host, NEW p \in net, p.to = h, p.type = "ConnectRequest",
         NEW c, c = Len(conns) + 1, NEW cp \in Connection, NEW dp, NEW old,
         old = mConnectionList[h],
         cp.owner = h, cp.addr = p.from, cp.nonce = p.nonce,
         cp.serverNonce = p.serverNonce, ~cp.initiator, ~cp.arranged,
         cp.recvSeq = p.seq, cp.told = << >>,
         dp = Becomes(cp, "Connected", "onConnectionEstablished"),
         checkSolution(puzzles[h], p.nonce, p.serverNonce),
         puzzles' = [puzzles EXCEPT ![h] = NonceAdded(@, p.nonce, p.serverNonce)],
         conns' = Append(Terminated(old), dp),
         mConnectionList' = [mConnectionList EXCEPT ![h] = (@ \ old) \union {c}],
         net' = net \union DisconnectPackets(old) \union {AcceptPacket(c, dp)},
         UNCHANGED <<scenario, rejected, mPendingConnections>>
  PROVE  IInv'
<1>. DEFINE P == mPendingConnections[h]
            N == {c}
<1>1. /\ dp \in Connection /\ SameParameters(dp, cp) /\ dp.state = "Connected"
      /\ ToldRight(dp)
  BY EstablishedFacts
<1>2. /\ dp.owner = h /\ dp.addr = Peer(h) /\ dp.nonce = p.nonce
      /\ dp.serverNonce = p.serverNonce /\ ~dp.initiator /\ ~dp.arranged
      /\ dp.recvSeq = p.seq
  BY <1>1, ReceivedFacts DEF SameParameters
<1>3. c \notin ConnId /\ c \in Nat /\ old \in SUBSET mConnectionList[h]
      /\ mConnectionList[h] \subseteq ConnId
  BY NumberFacts, TypeFacts
<1>4. Lists(h, N, dp, old, P)
  <2>1. (mConnectionList[h] \ old) \union {c}
          = (mConnectionList[h] \ (old \union N)) \union {d \in N : dp.state = "Connected"}
    BY <1>1, <1>3
  <2>2. mPendingConnections' = [mPendingConnections EXCEPT ![h] = P]
    BY SameLists
  <2>. QED
    BY <2>1, <2>2 DEF Lists
<1>5. Changes(h, N, dp, old, P)
  BY <1>1, <1>3, <1>4, Added
<1>6. Allowed(h, N, dp, P)
  <2>1. ~IsUsed(puzzles[h], dp.nonce, dp.serverNonce)
    BY <1>2 DEF IsUsed
  <2>2. NewConnectionMay(h, dp)
    BY <1>2, <2>1 DEF NewConnectionMay
  <2>3. c \notin P
    BY <1>3, TypeFacts
  <2>. QED
    BY <1>1, <1>2, <1>3, <2>2, <2>3 DEF Allowed
<1>7. PuzzlesLater /\ IsUsed(puzzles'[h], p.nonce, p.serverNonce)
  BY ReceivedFacts, LaterWhenAdded DEF IInv
<1>8. Refuses(h)
  BY SameRefusals
<1>9. Evolves(conns, conns') /\ Ids(conns') = ConnId \union {c} /\ conns'[c] = dp
  <2>1. Evolves(conns, conns')
    BY <1>5, <1>6, StepFacts
  <2>2. Ids(conns') = ConnId \union {c} /\ conns'[c] = dp
    BY <1>5 DEF Changes
  <2>. QED
    BY <2>1, <2>2
<1>10. ConnectionRight(conns', puzzles', c)
  <2>1. IsDirect(conns', p.seq, Peer(h)) /\ p.seq \in Ids(conns')
    <3>1. p.seq \in ConnId /\ IsDirect(conns, p.seq, Peer(h))
      BY RequestFacts
    <3>2. /\ conns'[p.seq].owner = conns[p.seq].owner
          /\ conns'[p.seq].initiator = conns[p.seq].initiator
          /\ conns'[p.seq].arranged = conns[p.seq].arranged
          /\ p.seq \in Ids(conns')
      BY <1>9, <3>1 DEF IsDirect, Evolves
    <3>. QED
      BY <3>1, <3>2 DEF IsDirect
  <2>2. NoncesRight(conns', puzzles', c)
    BY <1>2, <1>7, <1>9, <2>1, RequestFacts DEF NoncesRight
  <2>3. EndRight(conns', c)
    BY <1>2, <1>9 DEF EndRight
  <2>4. AddressRight(dp)
    BY <1>2 DEF AddressRight
  <2>. QED
    BY <1>1, <1>2, <1>9, <2>1, <2>2, <2>3, <2>4 DEF ConnectionRight
<1>11. SendsTruth
  <2>1. \A q \in DisconnectPackets(old) : q \in PacketSet /\ PacketRight(conns', puzzles', q)
    BY <1>3, ClosingSends
  <2>2. AcceptPacket(c, dp) \in PacketSet /\ PacketRight(conns', puzzles', AcceptPacket(c, dp))
    <3>1. /\ conns'[c] \in Connection /\ conns'[c].owner = h
          /\ ~conns'[c].initiator /\ conns'[c].addr = Peer(h)
          /\ c \in Ids(conns') /\ conns'[c] = dp
      BY <1>1, <1>2, <1>9
    <3>2. /\ AcceptPacket(c, conns'[c]) \in PacketSet
          /\ PacketRight(conns', puzzles', AcceptPacket(c, conns'[c]))
      BY <1>3, <3>1, AcceptRight
    <3>. QED
      BY <3>1, <3>2
  <2>. QED
    BY <2>1, <2>2 DEF SendsTruth
<1>12. StaysOne(h, P)
  <2>1. scenario.arranged = 0 => P = {}
    BY RequestFacts, ServerFacts
  <2>2. mConnectionList'[h] = {c}
    BY DEF IInv, Types
  <2>. QED
    BY <2>1, <2>2 DEF StaysOne
<1>13. \A d \in N : ConnectionRight(conns', puzzles', d)
  BY <1>10
<1>. HIDE DEF N, P
<1>. QED
  BY <1>5, <1>6, <1>7, <1>8, <1>11, <1>12, <1>13, StepKeeps

LEMMA RequestRefusedKeeps ==
  ASSUME IInv, NEW h \in Host, NEW p \in net, p.to = h, p.type = "ConnectRequest",
         NEW old, old = mConnectionList[h],
         checkSolution(puzzles[h], p.nonce, p.serverNonce),
         puzzles' = [puzzles EXCEPT ![h] = NonceAdded(@, p.nonce, p.serverNonce)],
         conns' = Terminated(old),
         mConnectionList' = [mConnectionList EXCEPT ![h] = @ \ old],
         net' = net \union DisconnectPackets(old) \union {RejectPacket(h, p, "Refused")},
         rejected' = WithRefusal(h, p),
         UNCHANGED <<scenario, mPendingConnections>>
  PROVE  IInv'
<1>1. old \in SUBSET mConnectionList[h]
  OBVIOUS
<1>2. PuzzlesLater /\ IsUsed(puzzles'[h], p.nonce, p.serverNonce)
  BY ReceivedFacts, LaterWhenAdded DEF IInv
<1>3. SendsTruth
  <2>1. \A q \in DisconnectPackets(old) : q \in PacketSet /\ PacketRight(conns', puzzles', q)
    BY <1>1, ClosingSends
  <2>2. /\ RejectPacket(h, p, "Refused") \in PacketSet
        /\ PacketRight(conns', puzzles', RejectPacket(h, p, "Refused"))
    BY RejectRight
  <2>. QED
    BY <2>1, <2>2 DEF SendsTruth
<1>4. /\ Len(conns') = Len(conns)
      /\ \A c \in ConnId : conns'[c] = IF c \in old THEN Ended(conns[c]) ELSE conns[c]
  BY <1>1, TerminatedFacts
<1>5. Ids(conns') = ConnId
  BY <1>4 DEF Ids, ConnId
<1>6. NotRefused(conns', h, {<<p.nonce, p.serverNonce>>})
  <2>1. ASSUME NEW c \in Ids(conns'), conns'[c].owner = h, conns'[c].state = "Connected"
        PROVE  FALSE
    BY <1>4, <1>5, <2>1, TypeFacts, EndedFacts DEF ConnectionRight
  <2>. QED
    BY <2>1 DEF NotRefused
<1>7. RefusalRight(conns', puzzles', mPendingConnections'[h], h, p.nonce, p.serverNonce)
  <2>1. p.seq \in ConnId /\ p.seq \notin old /\ conns'[p.seq] = conns[p.seq]
    BY <1>4, RequestFacts, TypeFacts, PeerFacts DEF IsDirect
  <2>2. IsDirect(conns', p.seq, Peer(h))
    BY <1>5, <2>1, RequestFacts DEF IsDirect
  <2>. QED
    BY <1>2, <1>5, <2>1, <2>2, RequestFacts DEF RefusalRight
<1>8. Refuses(h)
  BY <1>6, <1>7, ReceivedFacts, AnotherRefusal
<1>. QED
  BY <1>1, <1>2, <1>3, <1>8, ClosingKeeps

LEMMA ConnectRequestKeeps ==
  ASSUME IInv, NEW h \in Host, NEW p \in net, p.to = h, handleConnectRequest(h, p)
  PROVE  IInv'
<1>. DEFINE c == Len(conns) + 1
            old == findConnection(h, p.from)
            cp == [NewConnection(h, p.from, "NotConnected", p.nonce, p.serverNonce,
                                 FALSE, FALSE) EXCEPT !.recvSeq = p.seq, !.sends = 0]
            dp == Becomes(cp, "Connected", "onConnectionEstablished")
<1>1. /\ p.type = "ConnectRequest" /\ old = mConnectionList[h]
      /\ checkSolution(puzzles[h], p.nonce, p.serverNonce)
      /\ puzzles' = [puzzles EXCEPT ![h] = NonceAdded(@, p.nonce, p.serverNonce)]
      /\ UNCHANGED <<scenario, mPendingConnections>>
  BY ReceivedFacts DEF handleConnectRequest
<1>2. /\ cp \in Connection
      /\ cp.owner = h /\ cp.addr = p.from /\ cp.nonce = p.nonce
      /\ cp.serverNonce = p.serverNonce /\ ~cp.initiator /\ ~cp.arranged
      /\ cp.recvSeq = p.seq /\ cp.told = << >>
  <2>1. "NotConnected" \in State /\ << >> \in Tales
    BY DEF State, Tales
  <2>. QED
    BY <2>1, ReceivedFacts DEF NewConnection, Connection
<1>3. CASE /\ conns' = Append(Terminated(old), dp)
           /\ mConnectionList' = [mConnectionList EXCEPT ![h] = (@ \ old) \union {c}]
           /\ net' = net \union DisconnectPackets(old) \union {AcceptPacket(c, dp)}
           /\ UNCHANGED rejected
  <2>. HIDE DEF c, old, cp
  <2>. QED
    BY <1>1, <1>2, <1>3, RequestGrantedKeeps DEF c
<1>4. CASE /\ conns' = Terminated(old)
           /\ mConnectionList' = [mConnectionList EXCEPT ![h] = @ \ old]
           /\ net' = net \union DisconnectPackets(old) \union {RejectPacket(h, p, "Refused")}
           /\ rejected' = WithRefusal(h, p)
  <2>. HIDE DEF old
  <2>. QED
    BY <1>1, <1>4, RequestRefusedKeeps
<1>. QED
  BY <1>3, <1>4 DEF handleConnectRequest

LEMMA ArrangedAnsweredKeeps ==
  ASSUME IInv, NEW h \in Host, NEW p \in net, p.to = h, p.type = "ArrangedConnectRequest",
         NEW c \in mPendingConnections[h], ~conns[c].initiator, conns[c].nonce = p.nonce,
         conns[c].serverNonce = p.serverNonce,
         NEW old, old = mConnectionList[h],
         NEW cp \in Connection, SameRequest(cp, conns[c]),
         cp.owner = h, cp.addr = Peer(h), ~cp.initiator, cp.arranged,
         cp.recvSeq = p.seq, ToldRight(cp),
         UNCHANGED <<scenario, puzzles>>,
         conns' = [Terminated(old) EXCEPT ![c] = cp],
         mPendingConnections' = PendingWithout(h, c),
         \/ /\ cp.state = "Connected"
            /\ mConnectionList' = [mConnectionList EXCEPT ![h] = (@ \ old) \union {c}]
            /\ net' = net \union DisconnectPackets(old) \union {AcceptPacket(c, cp)}
            /\ UNCHANGED rejected
         \/ /\ cp.state # "Connected"
            /\ mConnectionList' = [mConnectionList EXCEPT ![h] = @ \ old]
            /\ net' = net \union DisconnectPackets(old) \union {RejectPacket(h, p, "Refused")}
            /\ rejected' = WithRefusal(h, p)
  PROVE  IInv'
<1>. DEFINE P == mPendingConnections[h] \ {c}
            N == {c}
<1>1. /\ c \in ConnId /\ c \in Nat /\ conns[c].owner = h /\ conns[c].arranged
      /\ c \notin mConnectionList[h] /\ old \in SUBSET mConnectionList[h]
      /\ mConnectionList[h] \subseteq ConnId
  BY TypeFacts, PendingFacts, ArrangedRequestFacts
<1>2. Lists(h, N, cp, old, P)
  <2>1. mConnectionList' = [mConnectionList EXCEPT
          ![h] = (@ \ (old \union N)) \union {d \in N : cp.state = "Connected"}]
    <3>1. CASE cp.state = "Connected"
      <4>1. (mConnectionList[h] \ old) \union {c}
              = (mConnectionList[h] \ (old \union N)) \union {d \in N : cp.state = "Connected"}
        BY <1>1, <3>1
      <4>. QED
        BY <3>1, <4>1
    <3>2. CASE cp.state # "Connected"
      <4>1. (mConnectionList[h] \ old)
              = (mConnectionList[h] \ (old \union N)) \union {d \in N : cp.state = "Connected"}
        BY <1>1, <3>2
      <4>. QED
        BY <3>2, <4>1
    <3>. QED
      BY <3>1, <3>2
  <2>2. mPendingConnections' = [mPendingConnections EXCEPT ![h] = P]
    BY SameLists
  <2>. QED
    BY <2>1, <2>2 DEF Lists
<1>3. Changes(h, N, cp, old, P)
  BY <1>1, <1>2, Replaced
<1>4. OldConnectionMay(h, c, cp, P)
  <2>1. cp.initiator = conns[c].initiator /\ cp.arranged = conns[c].arranged
    BY <1>1, TypeFacts DEF Connection
  <2>. QED
    BY <1>1, <2>1 DEF OldConnectionMay
<1>5. Allowed(h, N, cp, P)
  <2>1. cp.serverNonce <= scenario.arranged
    BY <1>1 DEF IInv, FewArranged, SameRequest
  <2>. QED
    BY <1>1, <1>4, <2>1 DEF Allowed
<1>6. PuzzlesLater
  BY LaterWhenSame DEF IInv
<1>7. Evolves(conns, conns') /\ Ids(conns') = ConnId /\ conns'[c] = cp
  <2>1. Evolves(conns, conns')
    BY <1>3, <1>5, StepFacts
  <2>2. Ids(conns') = ConnId \union {c} /\ conns'[c] = cp
    BY <1>3 DEF Changes
  <2>. QED
    BY <1>1, <2>1, <2>2
<1>8. ConnectionRight(conns', puzzles', c)
  <2>1. /\ p.seq \in ConnId /\ IsArranged(conns, p.seq, Peer(h)) /\ p.seq \in Ids(conns)
        /\ conns[p.seq].nonce = p.nonce
    BY ArrangedRequestFacts, TypeFacts
  <2>2. /\ IsArranged(conns', p.seq, Peer(h)) /\ conns'[p.seq].nonce = p.nonce
        /\ p.seq \in Ids(conns')
    BY <1>7, <2>1 DEF IsArranged, Evolves, SameRequest
  <2>3. NoncesRight(conns', puzzles', c)
    BY <1>1, <1>6, <1>7, NoncesKept
  <2>4. EndRight(conns', c)
    BY <1>7, <2>2 DEF EndRight, SameRequest
  <2>5. AddressRight(cp)
    BY DEF AddressRight
  <2>. QED
    BY <1>7, <2>2, <2>3, <2>4, <2>5 DEF ConnectionRight
<1>9. \A q \in DisconnectPackets(old) : q \in PacketSet /\ PacketRight(conns', puzzles', q)
  BY <1>1, ClosingSends
<1>10. /\ Changes(h, N, cp, old, P) /\ Allowed(h, N, cp, P)
       /\ \A d \in N : ConnectionRight(conns', puzzles', d)
       /\ P \subseteq mPendingConnections[h] \union mConnectionList[h]
       /\ cp.state = "Connected" => N \subseteq mPendingConnections[h] \union mConnectionList[h]
  BY <1>3, <1>5, <1>8
<1>11. mPendingConnections'[h] = P
  BY <1>3 DEF Changes, IInv, Types
<1>12. c \notin P
  OBVIOUS
<1>13. SendsTruth /\ Refuses(h)
  <2>1. CASE cp.state = "Connected"
    <3>1. /\ conns'[c] \in Connection /\ conns'[c].owner = h
          /\ ~conns'[c].initiator /\ conns'[c].addr = Peer(h)
          /\ c \in Ids(conns') /\ conns'[c] = cp
      BY <1>1, <1>7
    <3>2. /\ AcceptPacket(c, conns'[c]) \in PacketSet
          /\ PacketRight(conns', puzzles', AcceptPacket(c, conns'[c]))
      BY <1>1, <3>1, AcceptRight
    <3>3. SendsTruth
      BY <1>9, <2>1, <3>1, <3>2 DEF SendsTruth
    <3>. QED
      BY <2>1, <3>3, SameRefusals
  <2>2. CASE cp.state # "Connected"
    <3>1. /\ RejectPacket(h, p, "Refused") \in PacketSet
          /\ PacketRight(conns', puzzles', RejectPacket(h, p, "Refused"))
      BY RejectRight
    <3>2. SendsTruth
      BY <1>9, <2>2, <3>1 DEF SendsTruth
    <3>3. IsGone(conns', P, h, p.nonce)
      <4>1. /\ c \in Ids(conns') /\ IsArranged(conns', c, h) /\ conns'[c].nonce = p.nonce
            /\ conns'[c].state # "Connected"
        BY <1>1, <1>7, <2>2 DEF IsArranged, SameRequest
      <4>. QED
        BY <1>12, <4>1 DEF IsGone
    <3>4. NotRefused(conns', h, {<<p.nonce, p.serverNonce>>})
      <4>1. ASSUME NEW d \in Ids(conns'), conns'[d].owner = h, conns'[d].state = "Connected"
            PROVE  FALSE
        <5>1. d \in ConnId \ N
          BY <1>7, <2>2, <4>1
        <5>2. /\ conns[d].state = "Connected" /\ d \notin old
              /\ conns[d].owner = h
          BY <1>3, <1>5, <4>1, <5>1, StepFacts DEF SameParameters
        <5>. QED
          BY <5>1, <5>2, TypeFacts
      <4>. QED
        BY <4>1 DEF NotRefused
    <3>5. RefusalRight(conns', puzzles', mPendingConnections'[h], h, p.nonce, p.serverNonce)
      BY <1>11, <3>3 DEF RefusalRight
    <3>6. Refuses(h)
      BY <2>2, <3>4, <3>5, ReceivedFacts, AnotherRefusal
    <3>. QED
      BY <3>2, <3>6
  <2>. QED
    BY <2>1, <2>2
<1>. HIDE DEF N, P
<1>. QED
  BY <1>6, <1>10, <1>13, StepKeeps

LEMMA ArrangedRequestKeeps ==
  ASSUME IInv, NEW h \in Host, NEW p \in net, p.to = h, handleArrangedConnectRequest(h, p)
  PROVE  IInv'
<1>. DEFINE old == findConnection(h, p.from)
<1>1. /\ p.type = "ArrangedConnectRequest" /\ old = mConnectionList[h]
      /\ UNCHANGED <<scenario, puzzles>>
  BY ReceivedFacts DEF handleArrangedConnectRequest
<1>2. PICK c \in mPendingConnections[h] :
        LET cp == [conns[c] EXCEPT !.addr = p.from, !.recvSeq = p.seq]
            dp == Becomes(cp, "Connected", "onConnectionEstablished")
        IN
        /\ ~conns[c].initiator /\ conns[c].nonce = p.nonce
        /\ conns[c].serverNonce = p.serverNonce
        /\ mPendingConnections' = PendingWithout(h, c)
        /\ \/ /\ conns' = [Terminated(old) EXCEPT ![c] = dp]
              /\ mConnectionList' = [mConnectionList EXCEPT ![h] = (@ \ old) \union {c}]
              /\ net' = net \union DisconnectPackets(old) \union {AcceptPacket(c, dp)}
              /\ UNCHANGED rejected
           \/ /\ conns' = [Terminated(old) EXCEPT ![c] = cp]
              /\ mConnectionList' = [mConnectionList EXCEPT ![h] = @ \ old]
              /\ net' = net \union DisconnectPackets(old) \union {RejectPacket(h, p, "Refused")}
              /\ rejected' = WithRefusal(h, p)
  BY FirstIsOne DEF handleArrangedConnectRequest
<1>. DEFINE cp == [conns[c] EXCEPT !.addr = p.from, !.recvSeq = p.seq]
            dp == Becomes(cp, "Connected", "onConnectionEstablished")
<1>3. /\ conns[c] \in Connection /\ conns[c].owner = h /\ conns[c].told = << >>
      /\ conns[c].state # "Connected" /\ conns[c].arranged /\ ~conns[c].initiator
  BY <1>1, <1>2, PendingFacts, ArrangedRequestFacts
<1>4. /\ cp \in Connection /\ cp.owner = h /\ cp.addr = Peer(h)
      /\ cp.initiator = conns[c].initiator /\ cp.arranged = conns[c].arranged
      /\ cp.nonce = conns[c].nonce /\ cp.serverNonce = conns[c].serverNonce
      /\ cp.recvSeq = p.seq /\ cp.told = << >> /\ cp.state = conns[c].state
  BY <1>3, ReceivedFacts DEF Connection
<1>5. /\ dp \in Connection /\ SameParameters(dp, cp) /\ dp.state = "Connected"
      /\ ToldRight(dp)
  <2>. HIDE DEF cp
  <2>. QED
    BY <1>4, EstablishedFacts
<1>. HIDE DEF old, cp, dp
<1>6. SameRequest(cp, conns[c]) /\ ToldRight(cp) /\ ~cp.initiator /\ cp.arranged
  BY <1>3, <1>4, TaleFacts DEF SameRequest, ToldRight
<1>7. /\ SameRequest(dp, conns[c]) /\ ~dp.initiator /\ dp.arranged
      /\ dp.owner = h /\ dp.addr = Peer(h) /\ dp.recvSeq = p.seq
  BY <1>4, <1>5, <1>6 DEF SameRequest, SameParameters
<1>8. CASE /\ conns' = [Terminated(old) EXCEPT ![c] = dp]
           /\ mConnectionList' = [mConnectionList EXCEPT ![h] = (@ \ old) \union {c}]
           /\ net' = net \union DisconnectPackets(old) \union {AcceptPacket(c, dp)}
           /\ UNCHANGED rejected
  BY <1>1, <1>2, <1>5, <1>7, <1>8, ArrangedAnsweredKeeps
<1>9. CASE /\ conns' = [Terminated(old) EXCEPT ![c] = cp]
           /\ mConnectionList' = [mConnectionList EXCEPT ![h] = @ \ old]
           /\ net' = net \union DisconnectPackets(old) \union {RejectPacket(h, p, "Refused")}
           /\ rejected' = WithRefusal(h, p)
  BY <1>1, <1>2, <1>3, <1>4, <1>6, <1>9, ArrangedAnsweredKeeps
<1>. QED
  BY <1>2, <1>8, <1>9 DEF old, cp, dp

-----------------------------------------------------------------------------
(* Steps in which a connection is made.                                    *)
LEMMA NewPendingKeeps ==
  ASSUME IInv, NEW h \in Host, NEW c, c = Len(conns) + 1, NEW cp \in Connection,
         NEW old \in SUBSET mConnectionList[h], NEW P,
         UNCHANGED <<scenario, puzzles, rejected>>,
         conns' = Append(Terminated(old), cp),
         mPendingConnections' = [mPendingConnections EXCEPT ![h] = P],
         mConnectionList' = [mConnectionList EXCEPT ![h] = @ \ old],
         P \subseteq mPendingConnections[h] \union {c},
         PendingRight(cp), cp.owner = h, cp.recvSeq = 0, AddressRight(cp),
         NewConnectionMay(h, cp),
         IF cp.arranged
           THEN /\ cp.initiator <=> h \in Starters
                /\ cp.serverNonce \in 1 .. scenario.arranged
                /\ cp.nonce = ArrangedNonce(cp.serverNonce)
           ELSE /\ h \in Starters /\ cp.serverNonce = 0 /\ cp.nonce = OwnNonce(c, 0),
         net' \subseteq net \union DisconnectPackets(old) \union Requests(c, cp),
         StaysOne(h, P)
  PROVE  IInv'
<1>. DEFINE N == {c}
<1>1. /\ c \notin ConnId /\ c \in Nat /\ mConnectionList[h] \subseteq ConnId
      /\ cp.state # "Connected" /\ cp.told = << >> /\ scenario.arranged \in Nat
  BY NumberFacts, TypeFacts, NetInterfaceAssumption DEF PendingRight, IInv, Types
<1>2. Lists(h, N, cp, old, P)
  <2>1. mConnectionList[h] \ old
          = (mConnectionList[h] \ (old \union N)) \union {d \in N : cp.state = "Connected"}
    BY <1>1
  <2>. QED
    BY <2>1 DEF Lists
<1>3. Changes(h, N, cp, old, P)
  BY <1>2, Added
<1>4. Allowed(h, N, cp, P)
  BY <1>1 DEF Allowed
<1>5. PuzzlesLater /\ Refuses(h)
  BY LaterWhenSame, SameRefusals DEF IInv
<1>6. Evolves(conns, conns') /\ c \in Ids(conns') /\ conns'[c] = cp
  <2>1. Evolves(conns, conns')
    BY <1>3, <1>4, StepFacts
  <2>2. Ids(conns') = ConnId \union {c} /\ conns'[c] = cp
    BY <1>3 DEF Changes
  <2>. QED
    BY <2>1, <2>2
<1>7. NoncesRight(conns', puzzles', c)
  <2>1. CASE cp.arranged
    <3>1. /\ cp.initiator <=> h \in Starters
          /\ cp.serverNonce \in Nat \ {0}
          /\ cp.nonce = ArrangedNonce(cp.serverNonce)
      BY <1>1, <2>1
    <3>. QED
      BY <1>6, <2>1, <3>1 DEF NoncesRight
  <2>2. CASE ~cp.arranged
    <3>1. cp.initiator
      BY <2>2 DEF PendingRight
    <3>2. 0 <= puzzles[Peer(h)].mCurrentNonce
      BY PuzzleTypes, PeerFacts DEF IInv
    <3>. QED
      BY <1>6, <2>2, <3>1, <3>2 DEF NoncesRight
  <2>. QED
    BY <2>1, <2>2
<1>8. ConnectionRight(conns', puzzles', c)
  BY <1>1, <1>6, <1>7, TaleFacts DEF ConnectionRight, EndRight, ToldRight
<1>9. SendsTruth
  <2>1. \A q \in DisconnectPackets(old) : q \in PacketSet /\ PacketRight(conns', puzzles', q)
    BY ClosingSends
  <2>2. \A q \in Requests(c, cp) : q \in PacketSet /\ PacketRight(conns', puzzles', q)
    <3>1. SameParameters(conns'[c], cp)
      BY <1>6 DEF SameParameters
    <3>. QED
      BY <1>1, <1>6, <1>7, <3>1, SentRight
  <2>. QED
    BY <2>1, <2>2 DEF SendsTruth
<1>10. \A d \in N : ConnectionRight(conns', puzzles', d)
  BY <1>8
<1>. HIDE DEF N
<1>. QED
  BY <1>3, <1>4, <1>5, <1>9, <1>10, StepKeeps

LEMMA StartArrangedKeeps ==
  ASSUME IInv, NEW h \in Host, NEW k \in 1 .. scenario.arranged,
         startArrangedConnection(h, k)
  PROVE  IInv'
<1>. DEFINE c == Len(conns) + 1
            cp == NewConnection(h, NoAddress, "SendingPunchPackets", ArrangedNonce(k),
                                k, h \in Starters, TRUE)
            P == (mPendingConnections[h] \ findPendingConnection(h, NoAddress)) \union {c}
<1>1. /\ \A d \in ConnId : conns[d].owner = h => conns[d].nonce # ArrangedNonce(k)
      /\ mPendingConnections' = [mPendingConnections EXCEPT ![h] = P]
      /\ mConnectionList' = [mConnectionList EXCEPT ![h] = @ \ {}]
      /\ conns' = Append(conns, cp)
      /\ net' = net \union {PunchPacket(c, cp)}
      /\ UNCHANGED <<scenario, puzzles, rejected>>
  BY AddressFacts DEF startArrangedConnection, addPendingConnection, Superseded
<1>2. scenario.arranged \in Nat /\ k \in Nat \ {0}
  BY NetInterfaceAssumption DEF IInv, Types
<1>3. /\ cp \in Connection /\ cp.owner = h /\ cp.addr = NoAddress
      /\ cp.state = "SendingPunchPackets" /\ cp.nonce = ArrangedNonce(k)
      /\ cp.serverNonce = k /\ cp.initiator = (h \in Starters) /\ cp.arranged
      /\ cp.recvSeq = 0 /\ cp.told = << >>
  <2>1. /\ "SendingPunchPackets" \in State /\ << >> \in Tales
        /\ ArrangedNonce(k) \in AnyNonce /\ (h \in Starters) \in BOOLEAN
    BY <1>2, NonceFacts DEF State, Tales
  <2>. QED
    BY <1>2, <2>1 DEF NewConnection, Connection
<1>4. conns' = Append(Terminated({}), cp) /\ {} \in SUBSET mConnectionList[h]
  BY <1>1, NothingTerminated
<1>5. P \subseteq mPendingConnections[h] \union {c}
  OBVIOUS
<1>. HIDE DEF cp, P, c
<1>6. PendingRight(cp) /\ AddressRight(cp) /\ NewConnectionMay(h, cp)
  BY <1>1, <1>3 DEF PendingRight, AddressRight, NewConnectionMay
<1>7. StaysOne(h, P)
  BY <1>2 DEF StaysOne
<1>8. net' \subseteq net \union DisconnectPackets({}) \union Requests(c, cp)
  BY <1>1 DEF Requests
<1>9. IF cp.arranged
        THEN /\ cp.initiator <=> h \in Starters
             /\ cp.serverNonce \in 1 .. scenario.arranged
             /\ cp.nonce = ArrangedNonce(cp.serverNonce)
        ELSE /\ h \in Starters /\ cp.serverNonce = 0 /\ cp.nonce = OwnNonce(c, 0)
  BY <1>3
<1>10. c = Len(conns) + 1
  BY DEF c
<1>. QED
  BY <1>1, <1>3, <1>4, <1>5, <1>6, <1>7, <1>8, <1>9, <1>10, NewPendingKeeps

LEMMA StartKeeps ==
  ASSUME IInv, NEW h \in Host, startConnection(h)
  PROVE  IInv'
<1>. DEFINE c == Len(conns) + 1
            cp == NewConnection(h, Peer(h), "AwaitingChallengeResponse",
                                OwnNonce(c, 0), 0, TRUE, FALSE)
            P == (mPendingConnections[h] \ findPendingConnection(h, Peer(h))) \union {c}
            old == mConnectionList[h]
<1>1. /\ h \in Starters
      /\ mPendingConnections' = [mPendingConnections EXCEPT ![h] = P]
      /\ mConnectionList' = [mConnectionList EXCEPT ![h] = @ \ old]
      /\ conns' = Append(Terminated(old), cp)
      /\ net' = net \union DisconnectPackets(old) \union {ChallengeRequest(c, cp)}
      /\ UNCHANGED <<scenario, puzzles, rejected>>
  BY AddressFacts DEF startConnection, addPendingConnection, Superseded
<1>2. c \in Nat \ {0} /\ Peer(h) \in Host
  BY NumberFacts, PeerFacts
<1>3. /\ cp \in Connection /\ cp.owner = h /\ cp.addr = Peer(h)
      /\ cp.state = "AwaitingChallengeResponse" /\ cp.nonce = OwnNonce(c, 0)
      /\ cp.serverNonce = 0 /\ cp.initiator /\ ~cp.arranged
      /\ cp.recvSeq = 0 /\ cp.told = << >>
  <2>1. /\ "AwaitingChallengeResponse" \in State /\ << >> \in Tales
        /\ OwnNonce(c, 0) \in AnyNonce
    BY <1>2, NonceFacts DEF State, Tales
  <2>. HIDE DEF c
  <2>. QED
    BY <1>2, <2>1 DEF NewConnection, Connection
<1>4. P \subseteq mPendingConnections[h] \union {c} /\ old \in SUBSET mConnectionList[h]
  OBVIOUS
<1>5. StaysOne(h, P)
  <2>. SUFFICES ASSUME scenario.arranged = 0
                PROVE  \A d, e \in P \union mConnectionList'[h] : d = e
    BY DEF StaysOne
  <2>1. mConnectionList'[h] = {}
    BY <1>1 DEF IInv, Types
  <2>2. ASSUME NEW d \in mPendingConnections[h]
        PROVE  d \in findPendingConnection(h, Peer(h))
    <3>1. /\ conns[d].owner = h /\ NoncesRight(conns, puzzles, d)
          /\ conns[d].arranged => conns[d].serverNonce <= scenario.arranged
          /\ AddressRight(conns[d]) /\ d \in Nat
      BY PendingFacts DEF ConnectionRight, IInv, FewArranged
    <3>2. conns[d].addr = Peer(h)
      BY <3>1 DEF NoncesRight, AddressRight
    <3>3. \A e \in mPendingConnections[h] : d = e
      BY DEF IInv, OneAtATime
    <3>4. d <= d
      BY <3>1
    <3>. QED
      BY <3>2, <3>3, <3>4 DEF findPendingConnection, FirstOf
  <2>3. P = {c}
    BY <2>2
  <2>. QED
    BY <2>1, <2>3
<1>. HIDE DEF cp, P, c, old
<1>6. PendingRight(cp) /\ AddressRight(cp) /\ NewConnectionMay(h, cp)
  BY <1>3 DEF PendingRight, AddressRight, NewConnectionMay
<1>7. net' \subseteq net \union DisconnectPackets(old) \union Requests(c, cp)
  BY <1>1 DEF Requests
<1>8. IF cp.arranged
        THEN /\ cp.initiator <=> h \in Starters
             /\ cp.serverNonce \in 1 .. scenario.arranged
             /\ cp.nonce = ArrangedNonce(cp.serverNonce)
        ELSE /\ h \in Starters /\ cp.serverNonce = 0 /\ cp.nonce = OwnNonce(c, 0)
  BY <1>1, <1>3
<1>9. c = Len(conns) + 1
  BY DEF c
<1>. QED
  BY <1>1, <1>3, <1>4, <1>5, <1>6, <1>7, <1>8, <1>9, NewPendingKeeps

-----------------------------------------------------------------------------
LEMMA InitRight ==
  ASSUME Init PROVE IInv
<1>1. /\ conns = << >> /\ net = {} /\ scenario \in Scenarios
      /\ \A h \in Host : /\ mPendingConnections[h] = {} /\ mConnectionList[h] = {}
                         /\ rejected[h] = {} /\ puzzles[h] = NewPuzzles
  BY DEF Init
<1>2. Len(conns) = 0 /\ conns \in Seq(Connection)
  BY <1>1
<1>3. ConnId = {} /\ Ids(conns) = {}
  BY <1>2 DEF ConnId, Ids
<1>4. Types
  <2>1. NewPuzzles \in Puzzles
    BY DEF NewPuzzles, Puzzles
  <2>. QED
    BY <1>1, <1>2, <1>3, <2>1 DEF Types, Init
<1>5. PuzzlesRight
  <2>1. scenario.ticks \in Nat
    BY <1>1, NetInterfaceAssumption
  <2>. QED
    BY <1>1, <2>1 DEF PuzzlesRight, NewPuzzles
<1>6. ListsRight(conns, mPendingConnections, mConnectionList)
  BY <1>1, <1>3 DEF ListsRight
<1>7. ConnectionsRight /\ RequestsDiffer(conns) /\ PacketsRight /\ FewArranged
  BY <1>1, <1>3 DEF ConnectionsRight, RequestsDiffer, PacketsRight, FewArranged
<1>8. RefusalsRight /\ OneAtATime
  BY <1>1, <1>3 DEF RefusalsRight, NotRefused, OneAtATime
<1>. QED
  BY <1>4, <1>5, <1>6, <1>7, <1>8 DEF IInv

LEMMA ReceiveKeeps ==
  ASSUME IInv, NEW h \in Host, NEW p \in net, p.to = h, ProcessPacket(h, p)
  PROVE  IInv'
BY ChallengeRequestKeeps, ChallengeResponseKeeps, ConnectRequestAgainKeeps,
   ConnectRequestUnsolvedKeeps, ConnectRequestKeeps, AcceptKeeps, RejectKeeps,
   PunchKeeps, ArrangedRequestAgainKeeps, ArrangedRequestKeeps, HandleDisconnectKeeps
   DEF ProcessPacket

LEMMA NextKeeps ==
  ASSUME IInv, [Next]_vars
  PROVE  IInv'
<1>1. CASE Next
  <2>. PICK h \in Host :
         \/ startConnection(h)
         \/ \E k \in 1 .. scenario.arranged : startArrangedConnection(h, k)
         \/ \E p \in net : p.to = h /\ ProcessPacket(h, p)
         \/ continuePuzzleSolution(h)
         \/ \E c \in ConnId : \/ disconnect(h, c)
                              \/ TimerExpires(h, c)
                              \/ ConnectionTimesOut(h, c)
         \/ tick(h)
    BY <1>1 DEF Next
  <2>1. CASE startConnection(h)
    BY <2>1, StartKeeps
  <2>2. ASSUME NEW k \in 1 .. scenario.arranged, startArrangedConnection(h, k)
        PROVE  IInv'
    BY <2>2, StartArrangedKeeps
  <2>3. ASSUME NEW p \in net, p.to = h, ProcessPacket(h, p)
        PROVE  IInv'
    BY <2>3, ReceiveKeeps
  <2>4. CASE continuePuzzleSolution(h)
    BY <2>4, ContinueKeeps
  <2>5. ASSUME NEW c \in ConnId, disconnect(h, c)
        PROVE  IInv'
    BY <2>5, DisconnectKeeps
  <2>6. ASSUME NEW c \in ConnId, TimerExpires(h, c)
        PROVE  IInv'
    BY <2>6, RetryKeeps, GiveUpKeeps DEF TimerExpires
  <2>7. ASSUME NEW c \in ConnId, ConnectionTimesOut(h, c)
        PROVE  IInv'
    BY <2>7, ConnectionTimesOutKeeps
  <2>8. CASE tick(h)
    BY <2>8, TickKeeps
  <2>. QED
    BY <2>1, <2>2, <2>3, <2>4, <2>5, <2>6, <2>7, <2>8
<1>2. CASE UNCHANGED vars
  BY <1>2 DEF vars, hostVars, IInv, Types, ListsRight, PuzzlesRight, ConnectionsRight,
     RequestsDiffer, PacketsRight, RefusalsRight, FewArranged, OneAtATime, ConnId
<1>. QED
  BY <1>1, <1>2

(* Every reachable state satisfies the inductive invariant.                *)
THEOREM Invariant == Spec => []IInv
<1>. QED
  BY InitRight, NextKeeps, PTL DEF Spec

-----------------------------------------------------------------------------
(* The nonces and sequence numbers of connections stay within the bounds   *)
(* that the connections and the renewals of the puzzle set, and the table  *)
(* holds the connections that are connected (netInterface.cpp).            *)
THEOREM TypesAreRight == Spec => []TypeOK
<1>1. ASSUME IInv PROVE TypeOK
  <2>1. /\ scenario.arranged \in Nat /\ scenario.ticks \in Nat /\ Len(conns) \in Nat
    BY <1>1, NumberFacts, NetInterfaceAssumption DEF IInv, Types
  <2>2. ASSUME NEW c \in ConnId
        PROVE  /\ conns[c].owner \in Host
               /\ conns[c].addr \in Host \union {NoAddress}
               /\ conns[c].state \in State
               /\ conns[c].nonce \in Nonce
               /\ conns[c].serverNonce \in ServerNonce
               /\ conns[c].recvSeq \in 0 .. Len(conns)
    <3>1. /\ conns[c] \in Connection /\ ConnectionRight(conns, puzzles, c)
          /\ conns[c].arranged => conns[c].serverNonce <= scenario.arranged
      BY <1>1, TypeFacts DEF IInv, FewArranged
    <3>2. conns[c].recvSeq \in 0 .. Len(conns)
      BY <2>1, <3>1 DEF ConnectionRight, Ids
    <3>3. /\ conns[c].owner \in Host /\ Peer(conns[c].owner) \in Host
          /\ \A h \in Host : /\ puzzles[h].mCurrentNonce \in Nat
                             /\ puzzles[h].mCurrentNonce <= scenario.ticks + 1
      <4>1. Types /\ PuzzlesRight
        BY <1>1 DEF IInv
      <4>2. \A h \in Host : /\ puzzles[h].mCurrentNonce \in Nat
                            /\ puzzles[h].mLastNonce \in Nat
                            /\ puzzles[h].mCurrentNonce = puzzles[h].mLastNonce + 1
                            /\ puzzles[h].mLastNonce <= scenario.ticks
        BY <4>1, PuzzleTypes DEF PuzzlesRight
      <4>3. conns[c].owner \in Host /\ Peer(conns[c].owner) \in Host
        BY <3>1, PeerFacts DEF Connection
      <4>. QED
        BY <2>1, <4>2, <4>3
    <3>4. conns[c].serverNonce \in ServerNonce
      <4>1. conns[c].serverNonce \in Nat
        BY <3>1 DEF Connection
      <4>2. conns[c].arranged \/ conns[c].serverNonce <= scenario.ticks + 1
        <5>1. NoncesRight(conns, puzzles, c)
          BY <3>1 DEF ConnectionRight
        <5>2. \A h \in Host : conns[c].serverNonce <= puzzles[h].mCurrentNonce
                               => conns[c].serverNonce <= scenario.ticks + 1
          BY <2>1, <3>3, <4>1
        <5>3. CASE ~conns[c].arranged /\ conns[c].initiator
          BY <3>3, <5>1, <5>2, <5>3 DEF NoncesRight
        <5>4. CASE ~conns[c].arranged /\ ~conns[c].initiator
          BY <3>3, <5>1, <5>2, <5>4 DEF NoncesRight, IsUsed
        <5>. QED
          BY <5>3, <5>4
      <4>. QED
        BY <2>1, <3>1, <4>1, <4>2 DEF ServerNonce
    <3>5. \E i \in -scenario.arranged .. Len(conns), retry \in {0, 1} :
            conns[c].nonce = <<i, retry>>
      <4>1. CASE conns[c].arranged
        <5>1. /\ conns[c].serverNonce \in Nat
              /\ conns[c].nonce = <<-conns[c].serverNonce, 0>>
          BY <3>1, <4>1 DEF ConnectionRight, NoncesRight, ArrangedNonce
        <5>2. -conns[c].serverNonce \in -scenario.arranged .. Len(conns)
          BY <2>1, <3>1, <4>1, <5>1
        <5>. QED
          BY <5>1, <5>2
      <4>2. CASE ~conns[c].arranged /\ conns[c].initiator
        <5>1. conns[c].nonce \in {<<c, 0>>, <<c, 1>>}
          BY <3>1, <4>2 DEF ConnectionRight, NoncesRight, OwnNonce
        <5>2. c \in -scenario.arranged .. Len(conns)
          BY <2>1 DEF ConnId
        <5>. QED
          BY <5>1, <5>2
      <4>3. CASE ~conns[c].arranged /\ ~conns[c].initiator
        <5>1. /\ conns[c].nonce \in {<<conns[c].recvSeq, 0>>, <<conns[c].recvSeq, 1>>}
          BY <3>1, <4>3 DEF ConnectionRight, NoncesRight, OwnNonce
        <5>2. conns[c].recvSeq \in -scenario.arranged .. Len(conns)
          BY <2>1, <3>2
        <5>. QED
          BY <5>1, <5>2
      <4>. QED
        BY <4>1, <4>2, <4>3
    <3>6. conns[c].nonce \in Nonce
      BY <3>5 DEF Nonce
    <3>. QED
      BY <3>1, <3>2, <3>4, <3>6 DEF Connection
  <2>3. \A h \in Host :
          /\ mConnectionList[h] =
               {c \in ConnId : conns[c].owner = h /\ conns[c].state = "Connected"}
          /\ \A c \in mPendingConnections[h] : conns[c].owner = h
    BY <1>1 DEF IInv, ListsRight, Ids, ConnId
  <2>. QED
    BY <2>2, <2>3 DEF TypeOK
<1>. QED
  BY <1>1, Invariant, PTL

(* A solution of a puzzle makes at most one connection, whatever is        *)
(* repeated, delayed or reordered, and however often the puzzle is renewed *)
(* in between (ClientPuzzleManager::checkSolution).                        *)
THEOREM SolutionsAreUsedOnce == Spec => []SolutionUsedOnce
<1>1. ASSUME IInv PROVE SolutionUsedOnce
  BY <1>1, TypeFacts DEF IInv, RequestsDiffer, SolutionUsedOnce, Accepted, IsAccepted
<1>. QED
  BY <1>1, Invariant, PTL

(* What a host has refused is never there again (handleConnectRequest,     *)
(* handleArrangedConnectRequest).                                          *)
THEOREM RefusalsAreFinal == Spec => []RefusalIsFinal
<1>1. ASSUME IInv PROVE RefusalIsFinal
  BY <1>1, TypeFacts DEF IInv, RefusalsRight, NotRefused, RefusalIsFinal
<1>. QED
  BY <1>1, Invariant, PTL

(* Two connections that are there for the same request know each other's   *)
(* number, and one of them is the initiator.                               *)
THEOREM EndsMatch == Spec => []EndsAgree
<1>1. ASSUME IInv PROVE EndsAgree
  <2>. SUFFICES ASSUME NEW h \in Host, NEW c \in mConnectionList[h],
                       NEW d \in mConnectionList[Peer(h)],
                       SameRequest(conns[c], conns[d])
                PROVE  /\ conns[c].recvSeq = d
                       /\ conns[d].recvSeq = c
                       /\ conns[c].initiator # conns[d].initiator
    BY DEF EndsAgree
  <2>1. /\ Peer(h) \in Host /\ Peer(h) # h /\ Peer(Peer(h)) = h
        /\ h \in Starters <=> Peer(h) \notin Starters
    BY PeerFacts
  <2>2. /\ c \in ConnId /\ d \in ConnId /\ c \in Nat \ {0} /\ d \in Nat \ {0}
        /\ c \in Ids(conns) /\ d \in Ids(conns)
        /\ conns[c].owner = h /\ conns[d].owner = Peer(h)
        /\ conns[c].state = "Connected" /\ conns[d].state = "Connected"
        /\ NoncesRight(conns, puzzles, c) /\ NoncesRight(conns, puzzles, d)
        /\ EndRight(conns, c) /\ EndRight(conns, d)
        /\ conns[c].initiator \in BOOLEAN /\ conns[d].initiator \in BOOLEAN
    BY <1>1, <2>1, TypeFacts DEF ConnectionRight, ConnId, Connection
  <2>3. conns[c].nonce = conns[d].nonce
    BY DEF SameRequest
  <2>4. \A e \in Ids(conns) : e \in Nat \ {0} /\ NoncesRight(conns, puzzles, e)
    BY <1>1, TypeFacts DEF ConnectionRight, Ids
  \* Of two ends with the same nonce, one is not direct and one accepted.
  <2>5. ASSUME NEW e \in Ids(conns)
        PROVE  /\ conns[e].arranged => \E k \in Nat \ {0} : conns[e].nonce = ArrangedNonce(k)
               /\ ~conns[e].arranged =>
                    \E k \in Ids(conns) :
                      /\ conns[e].nonce \in {OwnNonce(k, 0), OwnNonce(k, 1)}
                      /\ IF conns[e].initiator THEN k = e
                           ELSE k = conns[e].recvSeq /\ conns[k].owner = Peer(conns[e].owner)
    BY <2>4 DEF NoncesRight, IsDirect
  <2>6. \A e, f \in Ids(conns) : conns[e].nonce = conns[f].nonce =>
          (conns[e].arranged <=> conns[f].arranged)
    BY <2>4, <2>5, NonceFacts
  <2>7. CASE conns[c].arranged
    <3>1. conns[d].arranged
      BY <2>2, <2>3, <2>6, <2>7
    <3>2. conns[c].initiator # conns[d].initiator
      BY <2>1, <2>2, <2>7, <3>1 DEF NoncesRight
    <3>3. \A e, f \in Ids(conns) : conns[e].owner = conns[f].owner /\ conns[e].arranged
            /\ conns[f].arranged /\ conns[e].nonce = conns[f].nonce => e = f
      BY <1>1 DEF IInv, RequestsDiffer
    <3>4. ASSUME NEW e \in Ids(conns), NEW f \in Ids(conns), conns[e].arranged, conns[f].arranged,
                 EndRight(conns, e), conns[e].state = "Connected",
                 conns[f].owner = Peer(conns[e].owner), conns[f].nonce = conns[e].nonce,
                 conns[e].initiator \in BOOLEAN
          PROVE  conns[e].recvSeq = f
      <4>1. /\ conns[e].recvSeq \in Ids(conns)
            /\ conns[conns[e].recvSeq].owner = Peer(conns[e].owner)
            /\ conns[conns[e].recvSeq].nonce = conns[e].nonce
        BY <3>4 DEF EndRight, SameRequest, IsArranged
      <4>. QED
        BY <2>6, <3>3, <3>4, <4>1
    <3>. QED
      BY <2>1, <2>2, <2>3, <2>7, <3>1, <3>2, <3>4
  <2>8. CASE ~conns[c].arranged
    <3>1. ~conns[d].arranged
      BY <2>2, <2>3, <2>6, <2>8
    <3>2. conns[c].initiator # conns[d].initiator
      <4>1. \A i, k \in Ids(conns) : conns[c].nonce \in {OwnNonce(i, 0), OwnNonce(i, 1)}
              /\ conns[d].nonce \in {OwnNonce(k, 0), OwnNonce(k, 1)} => i = k
        BY <2>3, <2>4, NonceFacts
      <4>2. CASE conns[c].initiator /\ conns[d].initiator
        BY <2>1, <2>2, <2>5, <2>8, <3>1, <4>1, <4>2
      <4>3. CASE ~conns[c].initiator /\ ~conns[d].initiator
        BY <2>1, <2>2, <2>5, <2>8, <3>1, <4>1, <4>3
      <4>. QED
        BY <2>2, <4>2, <4>3
    <3>3. ASSUME NEW e \in Ids(conns), NEW f \in Ids(conns),
                 ~conns[e].arranged, ~conns[f].arranged,
                 conns[e].initiator, ~conns[f].initiator,
                 EndRight(conns, e), conns[e].state = "Connected",
                 conns[f].owner = Peer(conns[e].owner), SameRequest(conns[f], conns[e])
          PROVE  conns[e].recvSeq = f /\ conns[f].recvSeq = e
      <4>1. conns[f].recvSeq = e
        BY <2>4, <2>5, <3>3, NonceFacts DEF SameRequest
      <4>2. /\ conns[e].recvSeq \in Ids(conns)
            /\ conns[conns[e].recvSeq].owner = Peer(conns[e].owner)
            /\ ~conns[conns[e].recvSeq].initiator
            /\ SameRequest(conns[conns[e].recvSeq], conns[e])
        BY <3>3 DEF EndRight
      <4>3. ~conns[conns[e].recvSeq].arranged
        BY <2>6, <3>3, <4>2 DEF SameRequest
      <4>4. conns[e].recvSeq = f
        BY <1>1, <3>3, <4>2, <4>3 DEF IInv, RequestsDiffer, IsAccepted, SameRequest
      <4>. QED
        BY <4>1, <4>4
    <3>4. CASE conns[c].initiator /\ ~conns[d].initiator
      BY <2>2, <2>8, <3>1, <3>3, <3>4 DEF SameRequest
    <3>5. CASE ~conns[c].initiator /\ conns[d].initiator
      BY <2>1, <2>2, <2>8, <3>1, <3>3, <3>5 DEF SameRequest
    <3>. QED
      BY <2>2, <3>2, <3>4, <3>5
  <2>. QED
    BY <2>7, <2>8
<1>. QED
  BY <1>1, Invariant, PTL

(* Without arranged connections a host has one connection for an address   *)
(* (addPendingConnection, handleConnectRequest).                           *)
THEOREM AddressesDiffer == Spec => []OneConnectionPerAddress
<1>1. ASSUME IInv PROVE OneConnectionPerAddress
  BY <1>1 DEF IInv, OneAtATime, OneConnectionPerAddress
<1>. QED
  BY <1>1, Invariant, PTL

(* An application hears of a connection in the order of its life           *)
(* (onConnectTerminated, onConnectionEstablished, onConnectionTerminated). *)
THEOREM ApplicationsAreToldInOrder == Spec => []ToldInOrder
<1>1. ASSUME IInv PROVE ToldInOrder
  <2>. SUFFICES ASSUME NEW c \in ConnId
                PROVE  /\ conns[c].told \in Tales
                       /\ c \in mPendingConnections[conns[c].owner] => conns[c].told = << >>
                       /\ c \in mConnectionList[conns[c].owner] <=>
                            conns[c].told = <<"onConnectionEstablished">>
    BY DEF ToldInOrder, Tales
  <2>1. conns[c] \in Connection /\ conns[c].owner \in Host /\ ToldRight(conns[c])
    BY <1>1, TypeFacts DEF ConnectionRight
  <2>. QED
    BY <1>1, <2>1, TypeFacts DEF Connection, ToldRight, PendingRight
<1>. QED
  BY <1>1, Invariant, PTL
=============================================================================
