---------------------------- MODULE ConnectionTable ----------------------------
(***************************************************************************)
(* The connections of a NetInterface: mConnectionList, a vector from which *)
(* removal moves the last element into the hole, and mConnectionHashTable, *)
(* an open hash table by address in which removal places again what        *)
(* follows.  Also the loop of processConnections that removes what has     *)
(* timed out, and calls the application, which may disconnect others and   *)
(* connect new ones, in the middle of it.                                  *)
(***************************************************************************)
EXTENDS Integers, Sequences, FiniteSets, FiniteSetsExt, Functions

CONSTANTS
  Connection,
  NULL,
  Hash,          \* the hash of each address
  Addresses,     \* which address each connection can have, in all
  InitialSize    \* of the hash table

Address == DOMAIN Hash

ASSUME HashAssumption == Hash \in [Address -> Nat]
ASSUME AddressesAssumption == Addresses \subseteq [Connection -> Address]
ASSUME NULLAssumption == NULL \notin Connection
ASSUME InitialSizeAssumption == InitialSize \in Nat /\ InitialSize > 2

VARIABLES
  address,                \* of each connection; it does not change
  mConnectionList,        \* the elements of the vector
  memory,                 \* and what lies behind them, of elements erased
  mConnectionHashTable,   \* its size is that of its domain
  i,                      \* variable of the loop, from 1, or 0 outside it
  timedOut                \* the connection whose onConnectionTerminated runs

loop == <<i, timedOut>>
lists == <<mConnectionList, memory, mConnectionHashTable>>
vars == <<address, lists, loop>>

Connected == Range(mConnectionList)

Empty(size) == [slot \in 0 .. size - 1 |-> NULL]

Init ==
  /\ address \in Addresses
  /\ mConnectionList = <<>> /\ memory = <<>>
  /\ mConnectionHashTable = Empty(InitialSize)
  /\ i = 0 /\ timedOut = NULL

-----------------------------------------------------------------------------
TableSize(t) == Cardinality(DOMAIN t)

\* The slot that is k slots after the one of the hash.
Slot(t, hash, k) == (hash + k) % TableSize(t)

\* How far from the slot of the hash the slots are that are NULL.
Free(t, hash) == {k \in 0 .. TableSize(t) - 1 : t[Slot(t, hash, k)] = NULL}

\* The slots an address is looked for in: up to the first that is NULL.
Probed(t, hash) == {k \in 0 .. TableSize(t) - 1 : \A f \in Free(t, hash) : k < f}

\* findConnection: the first with the address in the slots that are probed.
findConnection(t, a) ==
  LET same == {k \in Probed(t, Hash[a]) :
                 address[t[Slot(t, Hash[a], k)]] = a}
  IN  IF same = {} THEN NULL ELSE t[Slot(t, Hash[a], Min(same))]

\* A connection goes to the first free slot from that of its hash.
Put(t, conn) ==
  LET hash == Hash[address[conn]]
  IN  [t EXCEPT ![Slot(t, hash, Min(Free(t, hash)))] = conn]

\* The table with the connections of the list put in, in its order.
Filled(t, list) ==
  LET f[k \in 0 .. Len(list)] == IF k = 0 THEN t ELSE Put(f[k - 1], list[k])
  IN  f[Len(list)]

\* Faulty variant: what was in the table is not cleared.
Grown_NotCleared(t, list) ==
  Filled([slot \in 0 .. 4 * Len(list) - 2 |->
            IF slot \in DOMAIN t THEN t[slot] ELSE NULL], list)

\* The table when it grows.
Grown(t, list) == Filled(Empty(4 * Len(list) - 1), list)

\* What is in the slot is taken out and put in again.
PutAgain(t, slot) ==
  IF t[slot] = NULL THEN t ELSE Put([t EXCEPT ![slot] = NULL], t[slot])

\* After k slots that follow the one.
AfterSlots(t, slot) ==
  LET f[k \in 0 .. TableSize(t)] ==
        IF k = 0 THEN t ELSE PutAgain(f[k - 1], Slot(t, slot, k))
  IN  f

\* Faulty variant: the slots that follow end with the table.
Rehashed_ToTheEnd(t, slot) ==
  LET after == AfterSlots(t, slot)
      Ends(k) == slot + k + 1 >= TableSize(t) \/ after[k][slot + k + 1] = NULL
  IN  after[CHOOSE k \in 0 .. TableSize(t) - 1 : Ends(k) /\ \A j \in 0 .. k - 1 : ~Ends(j)]

\* The connections after a slot that has become free are taken out and put
\* in again, up to the first slot that is NULL.
Rehashed(t, slot) ==
  LET after == AfterSlots(t, slot)
      Ends(k) == after[k][Slot(t, slot, k + 1)] = NULL
  IN  after[CHOOSE k \in 0 .. TableSize(t) - 1 : Ends(k) /\ \A j \in 0 .. k - 1 : ~Ends(j)]

Removed(t, conn) ==
  LET slot == CHOOSE s \in DOMAIN t : t[s] = conn
  IN  Rehashed([t EXCEPT ![slot] = NULL], slot)

\* Faulty variant: the elements behind move up.
Erased_InOrder(list, conn) == SelectSeq(list, LAMBDA c : c # conn)

\* Vector::erase_fast: the last element takes the place of the one erased.
Erased(list, conn) ==
  [k \in 1 .. Len(list) - 1 |-> IF list[k] = conn THEN list[Len(list)] ELSE list[k]]

-----------------------------------------------------------------------------
addConnection(conn) ==
  /\ mConnectionList' = Append(mConnectionList, conn)
  /\ memory' = IF memory = <<>> THEN <<>> ELSE Tail(memory)
  /\ mConnectionHashTable' =
       IF Len(mConnectionList') > TableSize(mConnectionHashTable) \div 2
         THEN Grown(mConnectionHashTable, mConnectionList')
         ELSE Put(mConnectionHashTable, conn)

removeConnection(conn) ==
  /\ mConnectionList' = Erased(mConnectionList, conn)
  /\ memory' = <<mConnectionList[Len(mConnectionList)]>> \o memory
  /\ mConnectionHashTable' = Removed(mConnectionHashTable, conn)

\* A connection is established, by a packet or by connectLocal.  In the loop
\* only connectLocal can do so, when the application is told that another has
\* timed out.  Left out: that it has then disconnected so many before that the
\* loop looks behind the end of the vector, where the new element would go.
Connect(conn) ==
  /\ \/ i = 0
     \/ timedOut # NULL /\ i <= Len(mConnectionList)
  /\ conn \notin Connected
  /\ addConnection(conn)
  /\ UNCHANGED <<address, loop>>

\* A connection ends, or the application ends it when it is told that
\* another, which is no longer Connected, has timed out.
Disconnect(conn) ==
  /\ conn \in Connected \ {timedOut}
  /\ i = 0 \/ timedOut # NULL
  /\ removeConnection(conn)
  /\ UNCHANGED <<address, loop>>

-----------------------------------------------------------------------------
\* processConnections, the loop over mConnectionList.
StartTimeouts ==
  /\ i = 0
  /\ i' = 1
  /\ UNCHANGED <<address, lists, timedOut>>

NotTimedOut ==
  /\ i \in 1 .. Len(mConnectionList) /\ timedOut = NULL
  /\ i' = i + 1
  /\ UNCHANGED <<address, lists, timedOut>>

\* The connection times out, and the application is told.
TimedOut ==
  /\ i \in 1 .. Len(mConnectionList) /\ timedOut = NULL
  /\ timedOut' = mConnectionList[i]
  /\ UNCHANGED <<address, lists, i>>

\* When that returns mConnectionList[i] is read again, which can be past the
\* end of the vector: it reads the memory there.
Again == (mConnectionList \o memory)[i]

RemoveTimedOut ==
  /\ timedOut # NULL
  /\ Again \in Connected
  /\ removeConnection(Again)
  /\ timedOut' = NULL
  /\ UNCHANGED <<address, i>>

EndTimeouts ==
  /\ i > Len(mConnectionList) /\ timedOut = NULL
  /\ i' = 0
  /\ UNCHANGED <<address, lists, timedOut>>

Next ==
  \/ \E conn \in Connection : Connect(conn) \/ Disconnect(conn)
  \/ StartTimeouts \/ NotTimedOut \/ TimedOut \/ RemoveTimedOut \/ EndTimeouts

Spec == Init /\ [][Next]_vars

-----------------------------------------------------------------------------
\* Looking for an address finds a connection with it if there is one, and
\* nothing otherwise: no removal leaves a free slot between a connection and
\* the slot of its hash (removeConnection, "rehash all subsequent entries").
FindsConnected ==
  \A a \in Address :
    LET found == findConnection(mConnectionHashTable, a)
    IN  IF \E conn \in Connected : address[conn] = a
          THEN found \in Connected /\ address[found] = a
          ELSE found = NULL

\* The table holds each connection of the list once and nothing else, and a
\* slot is free: the search of removeConnection finds what it removes and the
\* loops of all others end.
TableMirrorsList ==
  /\ IsInjective(mConnectionList)
  /\ \A conn \in Connection :
       Cardinality({s \in DOMAIN mConnectionHashTable : mConnectionHashTable[s] = conn})
         = IF conn \in Connected THEN 1 ELSE 0
  /\ \E s \in DOMAIN mConnectionHashTable : mConnectionHashTable[s] = NULL

\* The connection that the loop removes is the one the application was told of,
\* whichever others it has disconnected and connected meanwhile.
ToldIsRemoved == timedOut # NULL => Again = timedOut
=============================================================================
