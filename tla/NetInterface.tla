----------------------------- MODULE NetInterface -----------------------------
(***************************************************************************)
(* How connections begin and end (netInterface.cpp, clientPuzzle.cpp): the *)
(* two-phase handshake with its client puzzle, the handshake of arranged   *)
(* connections, refusal, disconnection and the timeouts of all these.      *)
(*                                                                         *)
(* Two hosts, each with one NetInterface at one address.  A datagram that  *)
(* was sent may be received any number of times, at any later time, in any *)
(* order, or never: net only grows.  Time is left out: a timer may expire  *)
(* whenever it runs.  Nonces never repeat, and what is encrypted or hashed *)
(* is authentic: keys, identity tokens and the search for a solution leave *)
(* no trace but the step in which it is found.                             *)
(*                                                                         *)
(* Connections are numbered as they are created and are never deleted      *)
(* here; the initial send sequence of a connection is its number.  They    *)
(* are added to mPendingConnections in this order, and Vector::erase keeps *)
(* it: the list is a set, and its first element the least.                 *)
(***************************************************************************)
EXTENDS Integers, Sequences, FiniteSets

CONSTANTS
  Host,                 \* the addresses of the two NetInterfaces
  NoAddress,            \* the address of a connection that has none yet
  Starters,             \* the host whose application connects, and which is
                        \* the initiator of arranged connections
  Allowing,             \* the hosts with mAllowConnections
  ChallengeRetryCount,
  ConnectRetryCount,
  PunchRetryCount,
  Scenarios,            \* bounds of the model: how often in one behaviour
                        \* connect() is called, the master arranges a
                        \* connection, and the puzzle is renewed
  Abandons              \* may disconnect() be called in any state?

ASSUME NetInterfaceAssumption ==
  /\ \E g, h \in Host : g # h /\ Host = {g, h} /\ Starters = {h}
  /\ NoAddress \notin Host
  /\ Allowing \subseteq Host
  /\ {ChallengeRetryCount, ConnectRetryCount, PunchRetryCount} \subseteq Nat
  /\ Scenarios \subseteq [starts : Nat, arranged : Nat, ticks : Nat]
  /\ Abandons \in BOOLEAN

VARIABLES
  scenario,      \* bound of the model: never changes
  conns,         \* the connections: their parameters and state, by number
  mPendingConnections,
  mConnectionList,
  puzzles,       \* mPuzzleManager of each host
  net,           \* the datagrams sent so far
  rejected,      \* history: what each host has refused
  abandoned      \* history: connections the application has disconnected

hostVars == <<mPendingConnections, mConnectionList>>
vars == <<scenario, conns, hostVars, puzzles, net, rejected, abandoned>>

Peer(h) == CHOOSE g \in Host : g # h

ConnId == 1 .. Len(conns)

\* A nonce is known by the connection that drew it, and which of its two it
\* is; those of an arranged connection are drawn by the master.
NoNonce == <<0, 0>>
OwnNonce(c, retry) == <<c, retry>>
ArrangedNonce(k) == <<-k, 0>>

(* Connections of h are looked up by the address of the other side.        *)
findConnection(h, addr) == {c \in mConnectionList[h] : conns[c].addr = addr}

FirstOf(C) == {c \in C : \A d \in C : c <= d}

findPendingConnection(h, addr) ==
  FirstOf({c \in mPendingConnections[h] : conns[c].addr = addr})

PendingWithout(h, c) == [mPendingConnections EXCEPT ![h] = @ \ {c}]

-----------------------------------------------------------------------------
(* ClientPuzzleManager: the current and the last server nonce, each with   *)
(* the table of the client nonces that have solved it.                     *)
NewPuzzles ==
  [mCurrentNonce |-> 1, mLastNonce |-> 0,
   mCurrentNonceTable |-> {}, mLastNonceTable |-> {}]

Renewed_SameTables(m) ==
  [mCurrentNonce |-> m.mCurrentNonce + 1, mLastNonce |-> m.mCurrentNonce,
   mCurrentNonceTable |-> {}, mLastNonceTable |-> m.mLastNonceTable]
Renewed(m) ==
  [mCurrentNonce |-> m.mCurrentNonce + 1, mLastNonce |-> m.mCurrentNonce,
   mCurrentNonceTable |-> {}, mLastNonceTable |-> m.mCurrentNonceTable]

\* The table for a server nonce, if there is one.
TableFor(m, serverNonce) ==
  IF serverNonce = m.mCurrentNonce THEN {"mCurrentNonceTable"}
  ELSE IF serverNonce = m.mLastNonce THEN {"mLastNonceTable"} ELSE {}

checkSolution_Repeats(m, nonce, serverNonce) == TableFor(m, serverNonce) # {}
checkSolution(m, nonce, serverNonce) ==
  \E table \in TableFor(m, serverNonce) : nonce \notin m[table]

\* checkAdd
NonceAdded(m, nonce, serverNonce) ==
  [field \in DOMAIN m |-> IF field \in TableFor(m, serverNonce)
                            THEN m[field] \union {nonce} ELSE m[field]]

-----------------------------------------------------------------------------
Init ==
  /\ scenario \in Scenarios
  /\ conns = << >>
  /\ mPendingConnections = [h \in Host |-> {}]
  /\ mConnectionList = [h \in Host |-> {}]
  /\ puzzles = [h \in Host |-> NewPuzzles]
  /\ net = {}
  /\ rejected = [h \in Host |-> {}]
  /\ abandoned = {}

Packet(type, from, to, nonce, serverNonce, seq, reason) ==
  [type |-> type, from |-> from, to |-> to, nonce |-> nonce,
   serverNonce |-> serverNonce, seq |-> seq, reason |-> reason]

\* A packet of connection c, whose parameters are cp, to the address in them.
PacketOf(type, c, cp) ==
  Packet(type, cp.owner, cp.addr, cp.nonce, cp.serverNonce, c, "")

ChallengeRequest(c, cp) ==
  [PacketOf("ConnectChallengeRequest", c, cp) EXCEPT !.serverNonce = 0]

\* sendPunchPackets sends to the possible addresses of the other host.
PunchPacket(c, cp) == [PacketOf("Punch", c, cp) EXCEPT !.to = Peer(cp.owner)]

RequestPacket(c, cp) ==
  PacketOf(IF cp.arranged THEN "ArrangedConnectRequest" ELSE "ConnectRequest", c, cp)

NewConnection(owner, addr, state, nonce, serverNonce, initiator, isArranged) ==
  [owner |-> owner, addr |-> addr, state |-> state, nonce |-> nonce,
   serverNonce |-> serverNonce, initiator |-> initiator, arranged |-> isArranged,
   retried |-> FALSE, sends |-> 1, recvSeq |-> 0, told |-> << >>]

\* A connection changes its state, and its application is told.
Becomes(cp, state, callback) ==
  [cp EXCEPT !.state = state, !.told = Append(@, callback)]

\* disconnect() and handleDisconnect() for those of D, which are connected.
Terminated_StateKept(D) ==
  [c \in ConnId |-> IF c \in D
     THEN [conns[c] EXCEPT !.told = Append(@, "onConnectionTerminated")] ELSE conns[c]]
Terminated(D) ==
  [c \in ConnId |-> IF c \in D
     THEN Becomes(conns[c], "Disconnected", "onConnectionTerminated") ELSE conns[c]]

DisconnectPackets(D) == {PacketOf("Disconnect", c, conns[c]) : c \in D}

-----------------------------------------------------------------------------
(* addPendingConnection makes way for the new connection: one to the same  *)
(* address that is pending is dropped, one that is established closed.     *)
Superseded_KeepsOld(h, addr) == {}
Superseded(h, addr) == findConnection(h, addr)

addPendingConnection(h, c, addr) ==
  LET old == Superseded(h, addr) IN
  /\ mPendingConnections' =
       [mPendingConnections EXCEPT
          ![h] = (@ \ findPendingConnection(h, addr)) \union {c}]
  /\ mConnectionList' = [mConnectionList EXCEPT ![h] = @ \ old]

Started == {c \in ConnId : conns[c].initiator /\ ~conns[c].arranged}

(* connect(): startConnection and its first ConnectChallengeRequest.       *)
startConnection(h) ==
  LET c == Len(conns) + 1
      addr == Peer(h)
      cp == NewConnection(h, addr, "AwaitingChallengeResponse",
                          OwnNonce(c, 0), 0, TRUE, FALSE)
      old == Superseded(h, addr)
  IN
  /\ h \in Starters
  /\ Cardinality(Started) < scenario.starts      \* bound of the model
  /\ addPendingConnection(h, c, addr)
  /\ conns' = Append(Terminated(old), cp)
  /\ net' = net \union DisconnectPackets(old) \union {ChallengeRequest(c, cp)}
  /\ UNCHANGED <<scenario, puzzles, rejected, abandoned>>

(* connectArranged(): the master gives both hosts the nonces, and each     *)
(* begins to send punch packets when it hears of it.                       *)
startArrangedConnection(h, k) ==
  LET c == Len(conns) + 1
      cp == NewConnection(h, NoAddress, "SendingPunchPackets", ArrangedNonce(k),
                          k, h \in Starters, TRUE)
  IN
  /\ \A d \in ConnId : conns[d].owner = h => conns[d].nonce # ArrangedNonce(k)
  /\ addPendingConnection(h, c, NoAddress)
  /\ conns' = Append(conns, cp)
  /\ net' = net \union {PunchPacket(c, cp)}
  /\ UNCHANGED <<scenario, puzzles, rejected, abandoned>>

-----------------------------------------------------------------------------
(* The server remembers nothing of a challenge.                            *)
handleConnectChallengeRequest(h, p) ==
  /\ p.type = "ConnectChallengeRequest"
  /\ h \in Allowing
  /\ net' = net \union
       {Packet("ConnectChallengeResponse", h, p.from, p.nonce,
               puzzles[h].mCurrentNonce, 0, "")}
  /\ UNCHANGED <<scenario, conns, hostVars, puzzles, rejected, abandoned>>

\* solvePuzzle has found the solution, or is to be continued.
Solved(c, cp, solved) ==
  /\ conns' = [conns EXCEPT ![c] =
       IF solved THEN [cp EXCEPT !.state = "AwaitingConnectResponse",
                                 !.sends = @ + 1]
                 ELSE cp]
  /\ net' = IF solved THEN net \union {RequestPacket(c, cp)} ELSE net

handleConnectChallengeResponse(h, p) ==
  /\ p.type = "ConnectChallengeResponse"
  /\ \E c \in findPendingConnection(h, p.from), solved \in BOOLEAN :
       /\ conns[c].state = "AwaitingChallengeResponse"
       /\ conns[c].nonce = p.nonce
       /\ Solved(c, [conns[c] EXCEPT !.serverNonce = p.serverNonce,
                                     !.state = "ComputingPuzzleSolution",
                                     !.sends = 0], solved)
  /\ UNCHANGED <<scenario, hostVars, puzzles, rejected, abandoned>>

(* processConnections goes on with the first puzzle only.                  *)
continuePuzzleSolution(h) ==
  /\ \E c \in FirstOf({c \in mPendingConnections[h] :
                          conns[c].state = "ComputingPuzzleSolution"}) :
       Solved(c, conns[c], TRUE)
  /\ UNCHANGED <<scenario, hostVars, puzzles, rejected, abandoned>>

AcceptPacket(c, cp) == PacketOf("ConnectAccept", c, cp)

RejectPacket(h, p, reason) ==
  Packet("ConnectReject", h, p.from, p.nonce, p.serverNonce, 0, reason)

WithRefusal(h, p) ==
  [rejected EXCEPT ![h] = @ \union {<<p.nonce, p.serverNonce>>}]

\* A connection that was there for the same request, and one that was not.
SameRequest(cp, p) == cp.nonce = p.nonce /\ cp.serverNonce = p.serverNonce

(* The accept was lost: it is sent again.                                  *)
ConnectRequestAgain(h, p) ==
  /\ p.type = "ConnectRequest"
  /\ h \in Allowing
  /\ \E c \in findConnection(h, p.from) :
       /\ SameRequest(conns[c], p)
       /\ net' = net \union {AcceptPacket(c, conns[c])}
  /\ UNCHANGED <<scenario, conns, hostVars, puzzles, rejected, abandoned>>

ConnectRequestUnsolved(h, p) ==
  /\ p.type = "ConnectRequest"
  /\ h \in Allowing
  /\ \A c \in findConnection(h, p.from) : ~SameRequest(conns[c], p)
  /\ ~checkSolution(puzzles[h], p.nonce, p.serverNonce)
  /\ net' = net \union {RejectPacket(h, p, "Puzzle")}
  /\ rejected' = WithRefusal(h, p)
  /\ UNCHANGED <<scenario, conns, hostVars, puzzles, abandoned>>

(* The solution is right: an older connection of that address is closed,   *)
(* and the new one is there if its readConnectRequest agrees.  (To refuse  *)
(* without a word, or for want of the class, looks as if the packet that   *)
(* says so was lost.)                                                      *)
handleConnectRequest(h, p) ==
  LET c == Len(conns) + 1
      old == findConnection(h, p.from)
      cp == [NewConnection(h, p.from, "NotConnected", p.nonce, p.serverNonce,
                           FALSE, FALSE) EXCEPT !.recvSeq = p.seq, !.sends = 0]
      established == Becomes(cp, "Connected", "onConnectionEstablished")
      closing == net \union DisconnectPackets(old)
  IN
  /\ p.type = "ConnectRequest"
  /\ h \in Allowing
  /\ \A d \in old : ~SameRequest(conns[d], p)
  /\ checkSolution(puzzles[h], p.nonce, p.serverNonce)
  /\ puzzles' = [puzzles EXCEPT ![h] = NonceAdded(@, p.nonce, p.serverNonce)]
  /\ \/ /\ conns' = Append(Terminated(old), established)
        /\ mConnectionList' = [mConnectionList EXCEPT ![h] = (@ \ old) \union {c}]
        /\ net' = closing \union {AcceptPacket(c, established)}
        /\ UNCHANGED rejected
     \/ /\ conns' = Terminated(old)
        /\ mConnectionList' = [mConnectionList EXCEPT ![h] = @ \ old]
        /\ net' = closing \union {RejectPacket(h, p, "Refused")}
        /\ rejected' = WithRefusal(h, p)
  /\ UNCHANGED <<scenario, mPendingConnections, abandoned>>

(* readConnectAccept may refuse; the connection is then dropped silently.  *)
IsAwaited_AnyNonce(cp, p) == cp.state = "AwaitingConnectResponse"
IsAwaited(cp, p) ==
  /\ cp.state = "AwaitingConnectResponse"
  /\ SameRequest(cp, p)

handleConnectAccept(h, p) ==
  /\ p.type = "ConnectAccept"
  /\ \E c \in findPendingConnection(h, p.from), agrees \in BOOLEAN :
       LET cp == [conns[c] EXCEPT !.recvSeq = p.seq] IN
       /\ IsAwaited(conns[c], p)
       /\ mPendingConnections' = PendingWithout(h, c)
       /\ mConnectionList' =
            [mConnectionList EXCEPT ![h] = IF agrees THEN @ \union {c} ELSE @]
       /\ conns' = [conns EXCEPT ![c] =
            IF agrees THEN Becomes(cp, "Connected", "onConnectionEstablished") ELSE cp]
  /\ UNCHANGED <<scenario, puzzles, net, rejected, abandoned>>

(* A connection whose puzzle failed starts over once, with a new nonce.    *)
handleConnectReject(h, p) ==
  /\ p.type = "ConnectReject"
  /\ \E c \in findPendingConnection(h, p.from) :
       LET again == [conns[c] EXCEPT !.retried = TRUE, !.nonce = OwnNonce(c, 1),
                                     !.state = "AwaitingChallengeResponse",
                                     !.sends = 1]
       IN
       /\ conns[c].state \in {"AwaitingChallengeResponse", "AwaitingConnectResponse"}
       /\ SameRequest(conns[c], p)
       /\ IF p.reason = "Puzzle" /\ ~conns[c].retried
            THEN /\ conns' = [conns EXCEPT ![c] = again]
                 /\ net' = net \union {ChallengeRequest(c, again)}
                 /\ UNCHANGED mPendingConnections
            ELSE /\ conns' = [conns EXCEPT ![c] =
                      Becomes(@, "ConnectRejected", "onConnectTerminated")]
                 /\ mPendingConnections' = PendingWithout(h, c)
                 /\ UNCHANGED net
  /\ UNCHANGED <<scenario, mConnectionList, puzzles, rejected, abandoned>>

-----------------------------------------------------------------------------
(* A punch packet got through to the initiator: it knows the address now,  *)
(* and requests the connection.  (The other host only learns addresses.)   *)
handlePunch(h, p) ==
  /\ p.type = "Punch"
  /\ \E c \in FirstOf({c \in mPendingConnections[h] :
                          /\ conns[c].state = "SendingPunchPackets"
                          /\ conns[c].initiator
                          /\ conns[c].serverNonce = p.serverNonce}) :
       LET cp == [conns[c] EXCEPT !.addr = p.from, !.sends = 1,
                                  !.state = "AwaitingConnectResponse"]
       IN
       /\ conns[c].nonce = p.nonce
       /\ conns' = [conns EXCEPT ![c] = cp]
       /\ net' = net \union {RequestPacket(c, cp)}
  /\ UNCHANGED <<scenario, hostVars, puzzles, rejected, abandoned>>

ArrangedRequestAgain(h, p) ==
  /\ p.type = "ArrangedConnectRequest"
  /\ \E c \in findConnection(h, p.from) :
       /\ conns[c].nonce = p.nonce
       /\ net' = net \union {AcceptPacket(c, conns[c])}
  /\ UNCHANGED <<scenario, conns, hostVars, puzzles, rejected, abandoned>>

handleArrangedConnectRequest(h, p) ==
  LET old == findConnection(h, p.from)
      closing == net \union DisconnectPackets(old)
  IN
  /\ p.type = "ArrangedConnectRequest"
  /\ \A d \in old : conns[d].nonce # p.nonce
  /\ \E c \in FirstOf({c \in mPendingConnections[h] :
                          /\ conns[c].state = "SendingPunchPackets"
                          /\ ~conns[c].initiator
                          /\ conns[c].nonce = p.nonce}) :
       LET cp == [conns[c] EXCEPT !.addr = p.from, !.recvSeq = p.seq]
           established == Becomes(cp, "Connected", "onConnectionEstablished")
       IN
       /\ conns[c].serverNonce = p.serverNonce
       /\ mPendingConnections' = PendingWithout(h, c)
       /\ \/ /\ conns' = [Terminated(old) EXCEPT ![c] = established]
             /\ mConnectionList' = [mConnectionList EXCEPT ![h] = (@ \ old) \union {c}]
             /\ net' = closing \union {AcceptPacket(c, established)}
             /\ UNCHANGED rejected
          \/ /\ conns' = [Terminated(old) EXCEPT ![c] = cp]
             /\ mConnectionList' = [mConnectionList EXCEPT ![h] = @ \ old]
             /\ net' = closing \union {RejectPacket(h, p, "Refused")}
             /\ rejected' = WithRefusal(h, p)
  /\ UNCHANGED <<scenario, puzzles, abandoned>>

-----------------------------------------------------------------------------
(* disconnect(), by the application or for an error while reading: nothing *)
(* happens to a connection that is solving a puzzle or sending punches.    *)
Abandonable(c) ==
  Abandons \/ conns[c].state \notin {"ComputingPuzzleSolution", "SendingPunchPackets"}

disconnect(h, c) ==
  /\ c \in mPendingConnections[h] \union mConnectionList[h]
  /\ c \notin abandoned                            \* bound: once for each
  /\ Abandonable(c)
  /\ abandoned' = abandoned \union {c}
  /\ \/ /\ conns[c].state \in {"AwaitingChallengeResponse", "AwaitingConnectResponse"}
        /\ conns' = [conns EXCEPT ![c].told = Append(@, "onConnectTerminated")]
        /\ mPendingConnections' = PendingWithout(h, c)
        /\ UNCHANGED <<mConnectionList, net>>
     \/ /\ conns[c].state = "Connected"
        /\ conns' = Terminated({c})
        /\ mConnectionList' = [mConnectionList EXCEPT ![h] = @ \ {c}]
        /\ net' = net \union DisconnectPackets({c})
        /\ UNCHANGED mPendingConnections
     \/ /\ conns[c].state \in {"ComputingPuzzleSolution", "SendingPunchPackets"}
        /\ UNCHANGED <<conns, hostVars, net>>
  /\ UNCHANGED <<scenario, puzzles, rejected>>

handleDisconnect(h, p) ==
  /\ p.type = "Disconnect"
  /\ \E c \in findConnection(h, p.from) :
       /\ SameRequest(conns[c], p)
       /\ conns' = Terminated({c})
       /\ mConnectionList' = [mConnectionList EXCEPT ![h] = @ \ {c}]
  /\ UNCHANGED <<scenario, mPendingConnections, puzzles, net, rejected, abandoned>>

-----------------------------------------------------------------------------
(* processConnections.  The timer of a pending connection expires: what it *)
(* waits for is asked for once more, or it is given up.                    *)
RetryCount(cp) ==
  CASE cp.state = "AwaitingChallengeResponse" -> ChallengeRetryCount
    [] cp.state = "AwaitingConnectResponse"   -> ConnectRetryCount
    [] cp.state = "SendingPunchPackets"       -> PunchRetryCount
    [] cp.state = "ComputingPuzzleSolution"   -> -1       \* not started again

PacketSentAgain(c, cp) ==
  CASE cp.state = "AwaitingChallengeResponse" -> ChallengeRequest(c, cp)
    [] cp.state = "AwaitingConnectResponse"   -> RequestPacket(c, cp)
    [] cp.state = "SendingPunchPackets"       -> PunchPacket(c, cp)

Counted_Never(sends) == sends
Counted(sends) == sends + 1

Retry(h, c) ==
  /\ conns[c].sends <= RetryCount(conns[c])
  /\ conns' = [conns EXCEPT ![c].sends = Counted(@)]
  /\ net' = net \union {PacketSentAgain(c, conns[c])}
  /\ UNCHANGED <<scenario, hostVars, puzzles, rejected, abandoned>>

GiveUp_StaysPending(h, c) ==
  /\ conns[c].sends > RetryCount(conns[c])
  /\ conns' = [conns EXCEPT ![c] = Becomes(@, "ConnectTimedOut", "onConnectTerminated")]
  /\ UNCHANGED <<scenario, hostVars, puzzles, net, rejected, abandoned>>

GiveUp(h, c) ==
  /\ conns[c].sends > RetryCount(conns[c])
  /\ conns' = [conns EXCEPT ![c] = Becomes(@, "ConnectTimedOut", "onConnectTerminated")]
  /\ mPendingConnections' = PendingWithout(h, c)
  /\ UNCHANGED <<scenario, mConnectionList, puzzles, net, rejected, abandoned>>

TimerExpires(h, c) == c \in mPendingConnections[h] /\ (Retry(h, c) \/ GiveUp(h, c))

(* checkTimeout of an established connection: its pings went unanswered.   *)
ConnectionTimesOut(h, c) ==
  /\ c \in mConnectionList[h]
  /\ conns' = [conns EXCEPT ![c] = Becomes(@, "TimedOut", "onConnectionTerminated")]
  /\ mConnectionList' = [mConnectionList EXCEPT ![h] = @ \ {c}]
  /\ UNCHANGED <<scenario, mPendingConnections, puzzles, net, rejected, abandoned>>

(* mPuzzleManager.tick(): a new server nonce.                              *)
tick(h) ==
  /\ h \in Allowing
  /\ puzzles[h].mLastNonce < scenario.ticks        \* bound of the model
  /\ puzzles' = [puzzles EXCEPT ![h] = Renewed(@)]
  /\ UNCHANGED <<scenario, conns, hostVars, net, rejected, abandoned>>

-----------------------------------------------------------------------------
ProcessPacket(h, p) ==
  \/ handleConnectChallengeRequest(h, p)
  \/ handleConnectChallengeResponse(h, p)
  \/ ConnectRequestAgain(h, p)
  \/ ConnectRequestUnsolved(h, p)
  \/ handleConnectRequest(h, p)
  \/ handleConnectAccept(h, p)
  \/ handleConnectReject(h, p)
  \/ handlePunch(h, p)
  \/ ArrangedRequestAgain(h, p)
  \/ handleArrangedConnectRequest(h, p)
  \/ handleDisconnect(h, p)

Next ==
  \E h \in Host :
    \/ startConnection(h)
    \/ \E k \in 1 .. scenario.arranged : startArrangedConnection(h, k)
    \/ \E p \in net : p.to = h /\ ProcessPacket(h, p)
    \/ continuePuzzleSolution(h)
    \/ \E c \in ConnId : \/ disconnect(h, c)
                         \/ TimerExpires(h, c)
                         \/ ConnectionTimesOut(h, c)
    \/ tick(h)

Spec == Init /\ [][Next]_vars

-----------------------------------------------------------------------------
Nonce == {<<c, retry>> : c \in -scenario.arranged .. Len(conns), retry \in {0, 1}}
ServerNonce == 0 .. scenario.ticks + scenario.arranged + 1

State ==
  {"NotConnected", "AwaitingChallengeResponse", "SendingPunchPackets",
   "ComputingPuzzleSolution", "AwaitingConnectResponse", "ConnectTimedOut",
   "ConnectRejected", "Connected", "Disconnected", "TimedOut"}

TypeOK ==
  /\ \A c \in ConnId :
       /\ conns[c].owner \in Host
       /\ conns[c].addr \in Host \union {NoAddress}
       /\ conns[c].state \in State
       /\ conns[c].nonce \in Nonce
       /\ conns[c].serverNonce \in ServerNonce
       /\ conns[c].recvSeq \in 0 .. Len(conns)
  /\ \A h \in Host :
       /\ mConnectionList[h] = {c \in ConnId : conns[c].owner = h /\ conns[c].state = "Connected"}
       /\ \A c \in mPendingConnections[h] : conns[c].owner = h

(* A solution makes at most one connection, however often and however late *)
(* its ConnectRequest comes: the nonce of the client stays in a table for  *)
(* as long as the nonce of the server is accepted (checkSolution).         *)
Accepted == {c \in ConnId : ~conns[c].initiator /\ ~conns[c].arranged}

SolutionUsedOnce ==
  \A c, d \in Accepted :
    c # d /\ conns[c].owner = conns[d].owner => ~SameRequest(conns[c], conns[d])

(* A request that was refused never has a connection again: a client that  *)
(* gives up after a ConnectReject leaves nothing behind on the server.     *)
RefusalIsFinal ==
  \A h \in Host : \A c \in mConnectionList[h] :
    <<conns[c].nonce, conns[c].serverNonce>> \notin rejected[h]

(* The ends of one connection start with each other's sequence numbers,    *)
(* and exactly one of them is its initiator.                               *)
EndsAgree ==
  \A h \in Host : \A c \in mConnectionList[h], d \in mConnectionList[Peer(h)] :
    SameRequest(conns[c], conns[d]) =>
      /\ conns[c].recvSeq = d
      /\ conns[d].recvSeq = c
      /\ conns[c].initiator # conns[d].initiator

(* findConnection has one answer: connected packets are dispatched by the  *)
(* address they come from.  (The address of an arranged connection is not  *)
(* known when addPendingConnection looks for an older one, and so two of   *)
(* them may meet at one address.)                                          *)
OneConnectionPerAddress ==
  scenario.arranged = 0 => \A h \in Host : \A c, d \in mConnectionList[h] :
    conns[c].addr = conns[d].addr => c = d

(* An application hears of a connection in the order of its life: that it  *)
(* failed, or that it is there and then that it is gone; each at most once *)
(* and nothing while it is pending.                                        *)
ToldInOrder ==
  \A c \in ConnId :
    /\ conns[c].told \in
         {<< >>, <<"onConnectTerminated">>, <<"onConnectionEstablished">>,
          <<"onConnectionEstablished", "onConnectionTerminated">>}
    /\ c \in mPendingConnections[conns[c].owner] => conns[c].told = << >>
    /\ c \in mConnectionList[conns[c].owner] <=>
         conns[c].told = <<"onConnectionEstablished">>

(* disconnect() "Disconnects the given connection and removes it from the  *)
(* NetInterface" (tnlNetInterface.h): a connection that the application    *)
(* has given up is never there again.                                      *)
DisconnectIsHeeded == \A h \in Host : mConnectionList[h] \intersect abandoned = {}

-----------------------------------------------------------------------------
(* Liveness.  The interface's process() is called for ever, so that timers *)
(* run out.                                                                *)
Fairness == \A h \in Host : WF_vars(\E c \in ConnId : TimerExpires(h, c))

FairSpec == Spec /\ Fairness

(* No attempt to connect is left pending, whatever is lost.                *)
PendingIsResolved == \A h \in Host : []<>(mPendingConnections[h] = {})
=============================================================================
