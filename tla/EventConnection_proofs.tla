------------------------ MODULE EventConnection_proofs ------------------------
(***************************************************************************)
(* Proofs about EventConnection: the invariant IInv, that every action     *)
(* keeps it, and what it says of the properties.                           *)
(***************************************************************************)
EXTENDS EventConnection, SequenceTheorems, WellFoundedInduction, TLAPS

-----------------------------------------------------------------------------
(* Induction over the natural numbers, with sets, and recursion.           *)

(* A set of natural numbers has a least one.                               *)
LEMMA LeastNat == ASSUME NEW T, T \subseteq Nat, T # {}
  PROVE \E x \in T : \A y \in T : x <= y
<1>. DEFINE R == OpToRel(<, Nat)
<1>1. IsWellFoundedOn(R, Nat)
  BY NatLessThanWellFounded
<1>2. \A x, y \in Nat : <<x, y>> \in R <=> x < y
  BY DEF OpToRel
<1>. HIDE DEF R
<1>3. PICK x \in T : \A y \in T : ~(<<y, x>> \in R)
  BY <1>1, WFMin
<1>4. ASSUME NEW y \in T PROVE x <= y
  <2>1. x \in Nat /\ y \in Nat
    OBVIOUS
  <2>2. ~(y < x)
    BY <1>2, <1>3, <2>1
  <2>. QED
    BY <2>1, <2>2
<1>. QED
  BY <1>4

(* Induction over the natural numbers.                                     *)
LEMMA NatSetInduction ==
  ASSUME NEW T, 0 \in T, \A n \in Nat : n \in T => n + 1 \in T
  PROVE  Nat \subseteq T
<1>1. SUFFICES ASSUME Nat \ T # {} PROVE FALSE
  OBVIOUS
<1>2. PICK x \in Nat \ T : \A y \in Nat \ T : x <= y
  BY <1>1, LeastNat
<1>3. x # 0 /\ x - 1 \in Nat /\ x - 1 \notin Nat \ T
  BY <1>2
<1>. QED
  BY <1>2, <1>3

\* f takes n steps in S from a, the kth of them with g[k].
Steps(f, n, S, a, g) ==
  f \in [0..n -> S] /\ f[0] = a /\ \A k \in 1..n : f[k] = g[k][f[k-1]]

(* There is a function that takes the steps: the recursive definitions f[k *)
(* \in 0 .. n] == ... here choose one.                                     *)
LEMMA RecursionExists ==
  ASSUME NEW n \in Nat, NEW S, NEW a \in S, NEW g \in [1..n -> [S -> S]]
  PROVE  \E f : Steps(f, n, S, a, g)
<1>. DEFINE T == {m \in Nat : m <= n =>
                   \E f \in [0..m -> S] : f[0] = a /\ \A k \in 1..m : f[k] = g[k][f[k-1]]}
<1>1. 0 \in T
  <2>. DEFINE f == [i \in 0..0 |-> a]
  <2>1. f \in [0..0 -> S] /\ f[0] = a
    OBVIOUS
  <2>. HIDE DEF f
  <2>2. \A k \in 1..0 : f[k] = g[k][f[k-1]]
    OBVIOUS
  <2>. QED
    BY <2>1, <2>2
<1>2. ASSUME NEW m \in Nat, m \in T PROVE m + 1 \in T
  <2>. SUFFICES ASSUME m + 1 <= n
         PROVE \E f \in [0..m+1 -> S] : f[0] = a /\ \A k \in 1..m+1 : f[k] = g[k][f[k-1]]
    OBVIOUS
  <2>1. PICK f \in [0..m -> S] : f[0] = a /\ \A k \in 1..m : f[k] = g[k][f[k-1]]
    BY <1>2
  <2>. DEFINE h == [i \in 0..m+1 |-> IF i = m + 1 THEN g[m + 1][f[m]] ELSE f[i]]
  <2>2. h \in [0..m+1 -> S]
    BY <2>1
  <2>3. h[0] = a
    BY <2>1
  <2>4. ASSUME NEW k \in 1..m+1 PROVE h[k] = g[k][h[k-1]]
    BY <2>1
  <2>. HIDE DEF h
  <2>. QED
    BY <2>2, <2>3, <2>4
<1>. HIDE DEF T
<1>3. n \in T
  BY <1>1, <1>2, NatSetInduction
<1>4. n <= n
  OBVIOUS
<1>. QED
  BY <1>3, <1>4 DEF T, Steps

-----------------------------------------------------------------------------
(* Every list is made of events of posted, which its ids therefore name.   *)
Mine(P, list) == \A i \in DOMAIN list : list[i].id \in DOMAIN P /\ list[i] = P[list[i].id]
Distinct(list) == \A i, j \in DOMAIN list : list[i].id = list[j].id => i = j
Sorted(list) == \A i, j \in DOMAIN list : i < j => list[i].mSeqCount < list[j].mSeqCount
UnguaranteedUp(list) ==
  \A i, j \in DOMAIN list :
    list[i].type = "Unguaranteed" /\ list[j].type = "Unguaranteed" /\ i < j
      => list[i].id < list[j].id
OrderedLast(list) ==
  \A i, j \in DOMAIN list :
    i < j /\ IsOrdered(list[i]) => IsOrdered(list[j]) /\ list[i].mSeqCount < list[j].mSeqCount

OrderedList(P, list) == Mine(P, list) /\ Sorted(list)
UnorderedList(P, list) == Mine(P, list) /\ Distinct(list) /\ UnguaranteedUp(list)
PacketList(P, list) == UnorderedList(P, list) /\ OrderedLast(list)

\* There is a list of events for every packet that is not answered.
ChannelInv(s) ==
  /\ InitSeq[s] <= notified[s] /\ notified[s] <= sent[s]
  /\ Len(eventLists[s]) = sent[s] - notified[s]
  /\ arrived[s] \subseteq InitSeq[s] + 1 .. sent[s]

\* Events are posted under a new id, ordered ones under a new number.
PostedInv(s) ==
  \A i \in DOMAIN posted[s] :
    /\ posted[s][i].id = i
    /\ IsOrdered(posted[s][i]) =>
         /\ posted[s][i].mSeqCount < mNextSendEventSeq[s]
         /\ \A j \in DOMAIN posted[s] :
              IsOrdered(posted[s][j]) /\ i < j =>
                posted[s][i].mSeqCount < posted[s][j].mSeqCount

\* Each list has the order that the code relies on.
ListsInv(s) ==
  /\ OrderedList(posted[s], mSendEventQueue[s])
  /\ OrderedList(posted[s], mNotifyEventList[s])
  /\ OrderedList(posted[s], mWaitSeqEvents[Peer(s)])
  /\ UnorderedList(posted[s], mUnorderedSendEventQueue[s])
  /\ UnorderedList(posted[s], processed[s])
  /\ \A p \in DOMAIN eventLists[s] : PacketList(posted[s], eventLists[s][p])

\* The ordered events among those of a list go in the order of posting, from
\* number b on, with none left out.
OrderedBelow(list, i) == {j \in DOMAIN list : j < i /\ IsOrdered(list[j])}
SeqOf(P, list, i) == P[list[i].id].mSeqCount
InOrderFrom(P, list, b) ==
  \A i \in DOMAIN list : IsOrdered(list[i]) =>
    {SeqOf(P, list, j) : j \in OrderedBelow(list, i)} = b .. SeqOf(P, list, i) - 1

\* The ids of the packets in flight, of what has come in from the others, and
\* of the events that go out in the order of posting.
Pk(s, p) == Ids(eventLists[s][p])
HasArrived(s, p) == notified[s] + p \in arrived[s]
StillReadable(s, p) == \A m \in arrived[s] : m < notified[s] + p
Got(s) == Ids(processed[s]) \union Ids(mWaitSeqEvents[Peer(s)])
Loose(P, ids) == {i \in ids : P[i].type = "Unguaranteed"}
Strict(P, ids) == {i \in ids : IsOrdered(P[i])}
Seqs(P, ids) == {P[i].mSeqCount : i \in Strict(P, ids)}
Below(A, B) == \A a \in A, b \in B : a < b

\* No event is in two packets.
PacketsApart(s) ==
  \A p, q \in DOMAIN eventLists[s] : p # q => Pk(s, p) \intersect Pk(s, q) = {}

\* The events of a packet that has not been read are new to the other side,
\* and in the window.
UnreadInv(s) ==
  \A p \in DOMAIN eventLists[s] : ~HasArrived(s, p) =>
    /\ Pk(s, p) \intersect Got(s) = {}
    /\ \A x \in Seqs(posted[s], Pk(s, p)) : x <= mLastAckedEventSeq[s] + EventWindow

\* Unguaranteed events: what is processed was posted before what is in
\* flight, and that before what is in the queue.
LooseInv(s) ==
  LET L(ids) == Loose(posted[s], ids)
      U == L(Ids(mUnorderedSendEventQueue[s]))
      D == L(Ids(processed[s]))
  IN
  /\ Below(D, U)
  /\ \A p \in DOMAIN eventLists[s] :
       /\ Below(L(Pk(s, p)), U)
       /\ StillReadable(s, p) => Below(D, L(Pk(s, p)))
       /\ \A q \in DOMAIN eventLists[s] : p < q => Below(L(Pk(s, p)), L(Pk(s, q)))

\* What the other side has read, while it is up.
ReadInv(s) ==
  LET r == Peer(s)
      done == Ids(processed[s])
  IN
  /\ open[r] =>
       /\ done \intersect Ids(mWaitSeqEvents[r]) = {}
       /\ Seqs(posted[s], done) = 0 .. mNextRecvEventSeq[r] - 1
       /\ mLastAckedEventSeq[s] < mNextRecvEventSeq[r]
       /\ Ids(mNotifyEventList[s]) \subseteq Got(s)
       /\ \A p \in DOMAIN eventLists[s] : HasArrived(s, p) =>
            /\ Pk(s, p) \subseteq Got(s)
            /\ Pk(s, p) \ done \subseteq Strict(posted[s], Pk(s, p))
  /\ Below({mNextRecvEventSeq[r]}, Seqs(posted[s], Ids(mWaitSeqEvents[r])))

\* Where the sender has its events, while it is up.
SenderInv(s) ==
  LET Q == Ids(mSendEventQueue[s])
      U == Ids(mUnorderedSendEventQueue[s])
      N == Ids(mNotifyEventList[s])
      told == delivered[s] \union undelivered[s]
  IN
  open[s] =>
    /\ (Q \union U \union undelivered[s]) \intersect Got(s) = {}
    /\ delivered[s] \intersect undelivered[s] = {}
    /\ N \intersect Q = {} /\ (N \union Q \union U) \intersect told = {}
    /\ \A p \in DOMAIN eventLists[s] : Pk(s, p) \intersect (N \union Q \union U \union told) = {}
    /\ Q \union U \union N \union told \union UNION {Pk(s, p) : p \in DOMAIN eventLists[s]}
         = DOMAIN posted[s]
    /\ open[Peer(s)] => delivered[s] \subseteq Ids(processed[s])

SideInv(s) ==
  /\ ChannelInv(s) /\ PostedInv(s) /\ ListsInv(s)
  /\ InOrderFrom(posted[s], processed[s], 0)
  /\ PacketsApart(s) /\ UnreadInv(s) /\ LooseInv(s) /\ ReadInv(s) /\ SenderInv(s)

IInv == TypeOK /\ \A s \in Side : SideInv(s)

-----------------------------------------------------------------------------
(* Lists.                                                                  *)
LEMMA TakeRest ==
  ASSUME NEW S, NEW list \in Seq(S), NEW k \in 0 .. Len(list)
  PROVE  /\ Take(list, k) \in Seq(S) /\ Len(Take(list, k)) = k
         /\ DOMAIN Take(list, k) = 1 .. k
         /\ \A i \in 1 .. k : Take(list, k)[i] = list[i]
         /\ Rest(list, k) \in Seq(S) /\ Len(Rest(list, k)) = Len(list) - k
         /\ DOMAIN Rest(list, k) = 1 .. Len(list) - k
         /\ \A i \in 1 .. Len(list) - k : Rest(list, k)[i] = list[k + i]
<1>1. /\ Len(list) \in Nat
      /\ \A i \in 1 .. Len(list) : list[i] \in S
  BY LenProperties, ElementOfSeq
<1>2. /\ Take(list, k) \in Seq(S) /\ Len(Take(list, k)) = k
      /\ \A i \in 1 .. k : Take(list, k)[i] = list[i]
  <2>1. \A i \in 1 .. k : list[i] \in S
    BY <1>1
  <2>. QED
    BY <1>1, <2>1, SubSeqProperties DEF Take
<1>3. /\ Rest(list, k) \in Seq(S) /\ Len(Rest(list, k)) = Len(list) - k
      /\ \A i \in 1 .. Len(list) - k : Rest(list, k)[i] = list[k + i]
  <2>1. \A i \in k + 1 .. Len(list) : list[i] \in S
    BY <1>1
  <2>2. /\ Rest(list, k) \in Seq(S)
        /\ Len(Rest(list, k)) = IF k + 1 <= Len(list) THEN Len(list) - (k + 1) + 1 ELSE 0
        /\ \A i \in 1 .. Len(list) - (k + 1) + 1 : Rest(list, k)[i] = list[k + 1 + i - 1]
    BY <1>1, <2>1, SubSeqProperties DEF Rest
  <2>3. Len(Rest(list, k)) = Len(list) - k
    BY <1>1, <2>2
  <2>4. \A i \in 1 .. Len(list) - k : k + 1 + i - 1 = k + i /\ Len(list) - (k + 1) + 1 = Len(list) - k
    BY <1>1
  <2>. QED
    BY <2>2, <2>3, <2>4
<1>. QED
  BY <1>2, <1>3, LenProperties

(* Two lists in one.                                                       *)
LEMMA Joined ==
  ASSUME NEW S, NEW a \in Seq(S), NEW b \in Seq(S)
  PROVE  /\ a \o b \in Seq(S) /\ Len(a \o b) = Len(a) + Len(b)
         /\ DOMAIN (a \o b) = 1 .. Len(a) + Len(b)
         /\ \A i \in 1 .. Len(a) : (a \o b)[i] = a[i]
         /\ \A i \in 1 .. Len(b) : (a \o b)[Len(a) + i] = b[i]
<1>1. Len(a) \in Nat /\ Len(b) \in Nat
  BY LenProperties
<1>2. /\ a \o b \in Seq(S) /\ Len(a \o b) = Len(a) + Len(b)
      /\ \A i \in 1 .. Len(a) + Len(b) :
           (a \o b)[i] = IF i <= Len(a) THEN a[i] ELSE b[i - Len(a)]
  BY ConcatProperties
<1>3. DOMAIN (a \o b) = 1 .. Len(a) + Len(b)
  BY <1>2, LenProperties
<1>. QED
  BY <1>1, <1>2, <1>3

\* The ids in a list.
LEMMA IdsElt ==
  ASSUME NEW list, NEW x
  PROVE  x \in Ids(list) <=> \E i \in DOMAIN list : list[i].id = x
BY DEF Ids

(* An id is in the first part of a list or in the rest of it; when no id   *)
(* is twice in the list it is not in both.                                 *)
LEMMA IdsTakeRest ==
  ASSUME NEW S, NEW list \in Seq(S), NEW k \in 0 .. Len(list)
  PROVE  /\ Ids(list) = Ids(Take(list, k)) \union Ids(Rest(list, k))
         /\ Distinct(list) =>
              /\ Ids(Take(list, k)) \intersect Ids(Rest(list, k)) = {}
              /\ Distinct(Take(list, k)) /\ Distinct(Rest(list, k))
<1>. DEFINE t == Take(list, k)
           r == Rest(list, k)
           n == Len(list)
<1>1. /\ DOMAIN t = 1 .. k /\ \A i \in 1 .. k : t[i] = list[i]
      /\ DOMAIN r = 1 .. n - k /\ \A i \in 1 .. n - k : r[i] = list[k + i]
  BY TakeRest
<1>2. n \in Nat /\ DOMAIN list = 1 .. n
  BY LenProperties
<1>. HIDE DEF t, r, n
<1>3. \A i \in k + 1 .. n : i - k \in 1 .. n - k /\ list[i] = r[i - k]
  BY <1>1, <1>2
<1>4. Ids(list) = Ids(t) \union Ids(r)
  <2>1. ASSUME NEW x \in Ids(list) PROVE x \in Ids(t) \union Ids(r)
    <3>1. PICK i \in 1 .. n : list[i].id = x
      BY <1>2, IdsElt
    <3>2. CASE i <= k
      BY <3>1, <3>2, <1>1, IdsElt
    <3>3. CASE i > k
      <4>1. i - k \in DOMAIN r /\ r[i - k].id = x
        BY <3>1, <3>3, <1>1, <1>2, <1>3
      <4>. QED
        BY <4>1, IdsElt
    <3>. QED
      BY <3>2, <3>3
  <2>2. ASSUME NEW x \in Ids(t) PROVE x \in Ids(list)
    BY <1>1, <1>2, IdsElt
  <2>3. ASSUME NEW x \in Ids(r) PROVE x \in Ids(list)
    <3>1. PICK i \in DOMAIN r : r[i].id = x
      BY IdsElt
    <3>2. k + i \in DOMAIN list /\ list[k + i].id = x
      BY <3>1, <1>1, <1>2
    <3>. QED
      BY <3>2, IdsElt
  <2>. QED
    BY <2>1, <2>2, <2>3
<1>5. ASSUME Distinct(list) PROVE Ids(t) \intersect Ids(r) = {} /\ Distinct(t) /\ Distinct(r)
  <2>1. ASSUME NEW x \in Ids(t), x \in Ids(r) PROVE FALSE
    <3>1. PICK i \in 1 .. k : list[i].id = x
      BY <1>1, IdsElt
    <3>2. PICK j \in DOMAIN r : r[j].id = x
      BY <2>1, IdsElt
    <3>3. i \in DOMAIN list /\ k + j \in DOMAIN list /\ i # k + j /\ list[k + j].id = x
      BY <1>1, <1>2, <3>2
    <3>. QED
      BY <1>5, <3>1, <3>3 DEF Distinct
  <2>2. Distinct(t)
    BY <1>1, <1>2, <1>5 DEF Distinct
  <2>3. Distinct(r)
    <3>. SUFFICES ASSUME NEW i \in DOMAIN r, NEW j \in DOMAIN r, r[i].id = r[j].id PROVE i = j
      BY DEF Distinct
    <3>1. k + i \in DOMAIN list /\ k + j \in DOMAIN list /\ list[k + i].id = list[k + j].id
      BY <1>1, <1>2
    <3>2. k + i = k + j
      BY <1>5, <3>1 DEF Distinct
    <3>. QED
      BY <1>1, <1>2, <3>2
  <2>. QED
    BY <2>1, <2>2, <2>3
<1>. QED
  BY <1>4, <1>5 DEF t, r

(* The ids of two lists in one.                                            *)
LEMMA IdsJoined ==
  ASSUME NEW S, NEW a \in Seq(S), NEW b \in Seq(S)
  PROVE  Ids(a \o b) = Ids(a) \union Ids(b)
<1>1. /\ DOMAIN a = 1 .. Len(a) /\ DOMAIN b = 1 .. Len(b)
      /\ Len(a) \in Nat /\ Len(b) \in Nat
  BY LenProperties
<1>2. /\ DOMAIN (a \o b) = 1 .. Len(a) + Len(b)
      /\ \A i \in 1 .. Len(a) : (a \o b)[i] = a[i]
      /\ \A i \in 1 .. Len(b) : (a \o b)[Len(a) + i] = b[i]
  BY Joined
<1>. DEFINE c == a \o b
<1>. HIDE DEF c
<1>3. \A i \in DOMAIN c : i \in 1 .. Len(a) \/ i - Len(a) \in 1 .. Len(b)
  BY <1>1, <1>2 DEF c
<1>4. \A i \in DOMAIN c :
        (i \in DOMAIN a /\ c[i] = a[i]) \/ (i - Len(a) \in DOMAIN b /\ c[i] = b[i - Len(a)])
  <2>. TAKE i \in DOMAIN c
  <2>1. CASE i \in 1 .. Len(a)
    BY <2>1, <1>1, <1>2 DEF c
  <2>2. CASE i - Len(a) \in 1 .. Len(b)
    <3>1. c[Len(a) + (i - Len(a))] = b[i - Len(a)]
      BY <2>2, <1>2 DEF c
    <3>2. Len(a) + (i - Len(a)) = i
      BY <1>1, <1>2 DEF c
    <3>. QED
      BY <2>2, <3>1, <3>2, <1>1
  <2>. QED
    BY <1>3, <2>1, <2>2
<1>5. \A i \in DOMAIN a : i \in DOMAIN c /\ c[i] = a[i]
  BY <1>1, <1>2 DEF c
<1>6. \A i \in DOMAIN b : Len(a) + i \in DOMAIN c /\ c[Len(a) + i] = b[i]
  BY <1>1, <1>2 DEF c
<1>7. ASSUME NEW x PROVE x \in Ids(c) <=> x \in Ids(a) \union Ids(b)
  <2>1. ASSUME x \in Ids(c) PROVE x \in Ids(a) \/ x \in Ids(b)
    <3>1. PICK i \in DOMAIN c : c[i].id = x
      BY <2>1, IdsElt
    <3>. QED
      BY <1>4, <3>1, IdsElt
  <2>2. ASSUME x \in Ids(a) PROVE x \in Ids(c)
    <3>1. PICK i \in DOMAIN a : a[i].id = x
      BY <2>2, IdsElt
    <3>. QED
      BY <1>5, <3>1, IdsElt
  <2>3. ASSUME x \in Ids(b) PROVE x \in Ids(c)
    <3>1. PICK i \in DOMAIN b : b[i].id = x
      BY <2>3, IdsElt
    <3>. QED
      BY <1>6, <3>1, IdsElt
  <2>. QED
    BY <2>1, <2>2, <2>3
<1>. QED
  BY <1>7 DEF c

-----------------------------------------------------------------------------
(* What holds of a list holds of its parts.                                *)
PartOf(a, list, d) ==
  /\ d \in Nat /\ DOMAIN a \subseteq Nat
  /\ \A i \in DOMAIN a : d + i \in DOMAIN list /\ a[i] = list[d + i]

(* A stretch of a list is in order when the list is.                       *)
LEMMA SubList ==
  ASSUME NEW P, NEW list, NEW a, NEW d, PartOf(a, list, d)
  PROVE  /\ OrderedList(P, list) => OrderedList(P, a)
         /\ UnorderedList(P, list) => UnorderedList(P, a)
         /\ PacketList(P, list) => PacketList(P, a)
<1>1. \A i \in DOMAIN a : d + i \in DOMAIN list /\ a[i] = list[d + i]
  BY DEF PartOf
<1>2. \A i, j \in DOMAIN a : /\ i < j => d + i < d + j
                             /\ d + i = d + j => i = j
  BY DEF PartOf
<1>3. ASSUME Mine(P, list) PROVE Mine(P, a)
  BY <1>1, <1>3 DEF Mine
<1>4. ASSUME Sorted(list) PROVE Sorted(a)
  <2>. SUFFICES ASSUME NEW i \in DOMAIN a, NEW j \in DOMAIN a, i < j
                PROVE  a[i].mSeqCount < a[j].mSeqCount
    BY DEF Sorted
  <2>. QED
    BY <1>1, <1>2, <1>4 DEF Sorted
<1>5. ASSUME Distinct(list) PROVE Distinct(a)
  <2>. SUFFICES ASSUME NEW i \in DOMAIN a, NEW j \in DOMAIN a, a[i].id = a[j].id
                PROVE  i = j
    BY DEF Distinct
  <2>1. d + i = d + j
    BY <1>1, <1>5 DEF Distinct
  <2>. QED
    BY <1>2, <2>1
<1>6. ASSUME UnguaranteedUp(list) PROVE UnguaranteedUp(a)
  <2>. SUFFICES ASSUME NEW i \in DOMAIN a, NEW j \in DOMAIN a, i < j,
                       a[i].type = "Unguaranteed", a[j].type = "Unguaranteed"
                PROVE  a[i].id < a[j].id
    BY DEF UnguaranteedUp
  <2>. QED
    BY <1>1, <1>2, <1>6 DEF UnguaranteedUp
<1>7. ASSUME OrderedLast(list) PROVE OrderedLast(a)
  <2>. SUFFICES ASSUME NEW i \in DOMAIN a, NEW j \in DOMAIN a, i < j, IsOrdered(a[i])
                PROVE  IsOrdered(a[j]) /\ a[i].mSeqCount < a[j].mSeqCount
    BY DEF OrderedLast
  <2>. QED
    BY <1>1, <1>2, <1>7 DEF OrderedLast
<1>. QED
  BY <1>3, <1>4, <1>5, <1>6, <1>7 DEF OrderedList, UnorderedList, PacketList

(* The first events of a list and the others are in order when the list    *)
(* is.                                                                     *)
LEMMA PartsRight ==
  ASSUME NEW P, NEW S, NEW list \in Seq(S), NEW k \in 0 .. Len(list)
  PROVE  /\ OrderedList(P, list) =>
              OrderedList(P, Take(list, k)) /\ OrderedList(P, Rest(list, k))
         /\ UnorderedList(P, list) =>
              UnorderedList(P, Take(list, k)) /\ UnorderedList(P, Rest(list, k))
         /\ PacketList(P, list) =>
              PacketList(P, Take(list, k)) /\ PacketList(P, Rest(list, k))
<1>. DEFINE t == Take(list, k)
           r == Rest(list, k)
           n == Len(list)
<1>1. /\ DOMAIN t = 1 .. k /\ \A i \in 1 .. k : t[i] = list[i]
      /\ DOMAIN r = 1 .. n - k /\ \A i \in 1 .. n - k : r[i] = list[k + i]
  BY TakeRest
<1>2. n \in Nat /\ DOMAIN list = 1 .. n /\ k \in Nat /\ n - k \in Nat
  BY LenProperties
<1>. HIDE DEF t, r, n
<1>3. PartOf(t, list, 0)
  BY <1>1, <1>2 DEF PartOf
<1>4. PartOf(r, list, k)
  BY <1>1, <1>2 DEF PartOf
<1>5. /\ OrderedList(P, list) => OrderedList(P, t)
      /\ UnorderedList(P, list) => UnorderedList(P, t)
      /\ PacketList(P, list) => PacketList(P, t)
  BY <1>3, SubList
<1>6. /\ OrderedList(P, list) => OrderedList(P, r)
      /\ UnorderedList(P, list) => UnorderedList(P, r)
      /\ PacketList(P, list) => PacketList(P, r)
  BY <1>4, SubList
<1>. QED
  BY <1>5, <1>6 DEF t, r

\* An id in a list of P's events names the event.
LEMMA IdOfMine ==
  ASSUME NEW P, NEW list, Mine(P, list), NEW x \in Ids(list)
  PROVE  x \in DOMAIN P /\ \E i \in DOMAIN list : list[i] = P[x] /\ list[i].id = x
<1>1. PICK i \in DOMAIN list : list[i].id = x
  BY IdsElt
<1>. QED
  BY <1>1 DEF Mine

\* A list of ordered events that is sorted has them once each.
LEMMA SortedOnce ==
  ASSUME NEW P, NEW list \in Seq(OrderedEvent), OrderedList(P, list)
  PROVE  PacketList(P, list)
<1>1. \A i \in DOMAIN list : list[i] \in OrderedEvent
  BY LenProperties, ElementOfSeq
<1>2. \A i \in DOMAIN list : IsOrdered(list[i]) /\ list[i].mSeqCount \in Nat
  BY <1>1 DEF OrderedEvent, IsOrdered
<1>3. \A i \in DOMAIN list : i \in Nat
  BY LenProperties
<1>4. Distinct(list)
  <2>. SUFFICES ASSUME NEW i \in DOMAIN list, NEW j \in DOMAIN list,
                       list[i].id = list[j].id, i < j
                PROVE  FALSE
    BY <1>3 DEF Distinct
  <2>1. list[i] = list[j]
    BY DEF OrderedList, Mine
  <2>2. list[i].mSeqCount < list[j].mSeqCount
    BY DEF OrderedList, Sorted
  <2>. QED
    BY <1>2, <2>1, <2>2
<1>5. UnguaranteedUp(list)
  BY <1>2 DEF UnguaranteedUp, IsOrdered
<1>6. OrderedLast(list)
  BY <1>2 DEF OrderedLast, OrderedList, Sorted
<1>. QED
  BY <1>4, <1>5, <1>6 DEF PacketList, UnorderedList, OrderedList

-----------------------------------------------------------------------------
(* The walk along an ordered list.                                         *)
LEMMA WalkedTo ==
  ASSUME NEW w \in Walk, NEW seq \in Nat
  PROVE  /\ Walked(w, seq) \in w.at .. Len(w.list)
         /\ \A i \in w.at + 1 .. Walked(w, seq) : w.list[i].mSeqCount < seq
         /\ Walked(w, seq) < Len(w.list) => w.list[Walked(w, seq) + 1].mSeqCount >= seq
<1>. DEFINE n == Len(w.list)
           T == {k \in w.at .. n : k < n => w.list[k + 1].mSeqCount >= seq}
           Stops(k) == /\ \A i \in w.at + 1 .. k : w.list[i].mSeqCount < seq
                       /\ k < n => w.list[k + 1].mSeqCount >= seq
<1>1. /\ w.list \in Seq(OrderedEvent) /\ w.at \in Nat /\ w.at <= n
      /\ n \in Nat
  BY LenProperties DEF Walk
<1>2. \A i \in 1 .. n : w.list[i].mSeqCount \in Nat
  <2>1. \A i \in 1 .. n : w.list[i] \in OrderedEvent
    BY <1>1, ElementOfSeq
  <2>. QED
    BY <2>1 DEF OrderedEvent
<1>. HIDE DEF n
<1>3. n \in T
  BY <1>1
<1>4. T \subseteq Nat
  BY <1>1
<1>5. PICK k \in T : \A y \in T : k <= y
  <2>. HIDE DEF T
  <2>. QED
    BY <1>3, <1>4, LeastNat
<1>6. ASSUME NEW i \in w.at + 1 .. k PROVE w.list[i].mSeqCount < seq
  <2>1. i - 1 \in w.at .. n /\ ~(k <= i - 1) /\ (i - 1) + 1 = i /\ i \in 1 .. n /\ i - 1 < n
    BY <1>1, <1>5
  <2>2. i - 1 \notin T
    <3>. HIDE DEF T
    <3>. QED
      BY <1>5, <2>1
  <2>3. ~(w.list[i].mSeqCount >= seq)
    BY <2>1, <2>2
  <2>. QED
    BY <1>2, <2>1, <2>3
<1>7. k \in w.at .. n /\ Stops(k)
  BY <1>5, <1>6
<1>8. Walked(w, seq) = CHOOSE j \in w.at .. n : Stops(j)
  BY DEF Walked, n
<1>. HIDE DEF Stops
<1>9. Walked(w, seq) \in w.at .. n /\ Stops(Walked(w, seq))
  BY <1>7, <1>8
<1>. QED
  BY <1>9 DEF Stops, n

\* m is the list with e put behind the first k.
PutBehind(m, list, e, k) ==
  /\ Len(m) = Len(list) + 1 /\ DOMAIN m = 1 .. Len(list) + 1
  /\ \A i \in 1 .. k : m[i] = list[i]
  /\ m[k + 1] = e
  /\ \A i \in k + 2 .. Len(list) + 1 : m[i] = list[i - 1]
  /\ Ids(m) = Ids(list) \union {e.id}

(* What a list is with an event behind the first k.                        *)
LEMMA PuttingBehind ==
  ASSUME NEW S, NEW list \in Seq(S), NEW e \in S, NEW k \in 0 .. Len(list), NEW m,
         m = Take(list, k) \o <<e>> \o Rest(list, k)
  PROVE  m \in Seq(S) /\ PutBehind(m, list, e, k)
<1>. DEFINE t == Take(list, k)
           r == Rest(list, k)
           n == Len(list)
           o == <<e>>
<1>1. /\ t \in Seq(S) /\ Len(t) = k /\ \A i \in 1 .. k : t[i] = list[i]
      /\ r \in Seq(S) /\ Len(r) = n - k /\ \A i \in 1 .. n - k : r[i] = list[k + i]
  BY TakeRest
<1>2. n \in Nat /\ k \in 0 .. n
  BY LenProperties
<1>3. o \in Seq(S) /\ Len(o) = 1 /\ o[1] = e /\ Ids(o) = {e.id}
  BY DEF Ids
<1>4. Ids(list) = Ids(t) \union Ids(r)
  BY IdsTakeRest
<1>. HIDE DEF t, r, n, o
<1>5. /\ t \o o \in Seq(S) /\ Len(t \o o) = k + 1
      /\ \A i \in 1 .. k : (t \o o)[i] = t[i]
      /\ (t \o o)[k + 1] = e
      /\ Ids(t \o o) = Ids(t) \union {e.id}
  <2>0. t \in Seq(S) /\ o \in Seq(S)
    BY <1>1, <1>3
  <2>1. /\ t \o o \in Seq(S) /\ Len(t \o o) = Len(t) + Len(o)
        /\ \A i \in 1 .. Len(t) : (t \o o)[i] = t[i]
        /\ \A i \in 1 .. Len(o) : (t \o o)[Len(t) + i] = o[i]
    BY <2>0, Joined
  <2>2. Ids(t \o o) = Ids(t) \union Ids(o)
    BY <1>1, <1>3, IdsJoined
  <2>. QED
    BY <1>1, <1>2, <1>3, <2>1, <2>2
<1>. DEFINE b == t \o o
<1>. HIDE DEF b
<1>6. m = b \o r
  BY DEF b, t, r, o
<1>7. b \in Seq(S)
  BY <1>5 DEF b
<1>8. /\ b \o r \in Seq(S) /\ Len(b \o r) = Len(b) + Len(r)
      /\ DOMAIN (b \o r) = 1 .. Len(b) + Len(r)
      /\ \A i \in 1 .. Len(b) : (b \o r)[i] = b[i]
      /\ \A i \in 1 .. Len(r) : (b \o r)[Len(b) + i] = r[i]
      /\ Ids(b \o r) = Ids(b) \union Ids(r)
  <2>1. r \in Seq(S)
    BY <1>1
  <2>2. Ids(b \o r) = Ids(b) \union Ids(r)
    BY <1>7, <2>1, IdsJoined
  <2>. QED
    BY <1>7, <2>1, <2>2, Joined
<1>9. /\ Len(b) = k + 1 /\ Len(r) = n - k /\ Len(b) + Len(r) = n + 1
      /\ \A i \in 1 .. k : b[i] = list[i]
      /\ b[k + 1] = e
      /\ Ids(b) = Ids(t) \union {e.id}
  BY <1>1, <1>2, <1>5 DEF b
<1>10. \A i \in 1 .. k : m[i] = list[i]
  BY <1>2, <1>6, <1>8, <1>9
<1>11. m[k + 1] = e
  <2>1. k + 1 \in 1 .. Len(b)
    BY <1>2, <1>9
  <2>. QED
    BY <1>6, <1>8, <1>9, <2>1
<1>12. ASSUME NEW i \in k + 2 .. n + 1 PROVE m[i] = list[i - 1]
  <2>1. i - (k + 1) \in 1 .. n - k /\ (k + 1) + (i - (k + 1)) = i /\ k + (i - (k + 1)) = i - 1
    BY <1>2
  <2>2. m[(k + 1) + (i - (k + 1))] = r[i - (k + 1)]
    BY <1>6, <1>8, <1>9, <2>1
  <2>3. r[i - (k + 1)] = list[k + (i - (k + 1))]
    BY <1>1, <2>1
  <2>. QED
    BY <2>1, <2>2, <2>3
<1>13. Ids(m) = Ids(list) \union {e.id}
  BY <1>4, <1>6, <1>8, <1>9
<1>14. m \in Seq(S) /\ Len(m) = n + 1 /\ DOMAIN m = 1 .. n + 1
  BY <1>6, <1>8, <1>9
<1>. QED
  BY <1>10, <1>11, <1>12, <1>13, <1>14 DEF n, PutBehind

(* An event that is not below any that the walk has passed is put where    *)
(* the order wants it, so the next one that is not below it can go on from *)
(* there.                                                                  *)
LEMMA Inserted ==
  ASSUME NEW P, NEW w \in Walk, NEW e \in OrderedEvent, NEW v, v = Insert(e)[w]
  PROVE  /\ v \in Walk
         /\ Ids(v.list) = Ids(w.list) \union {e.id}
         /\ /\ OrderedList(P, w.list)
            /\ e.id \in DOMAIN P /\ P[e.id] = e
            /\ \A i \in DOMAIN w.list : w.list[i].mSeqCount # e.mSeqCount
            /\ \A i \in 1 .. w.at : w.list[i].mSeqCount < e.mSeqCount
            =>
            /\ OrderedList(P, v.list)
            /\ \A i \in 1 .. v.at : v.list[i].mSeqCount <= e.mSeqCount
<1>. DEFINE k == Walked(w, e.mSeqCount)
           n == Len(w.list)
           m == Take(w.list, k) \o <<e>> \o Rest(w.list, k)
<1>1. v = [list |-> m, at |-> k + 1]
  BY DEF Insert
<1>2. w.list \in Seq(OrderedEvent) /\ w.at \in Nat /\ w.at <= n /\ n \in Nat /\ DOMAIN w.list = 1 .. n
  BY LenProperties DEF Walk
<1>3. e.mSeqCount \in Nat
  BY DEF OrderedEvent
<1>4. /\ k \in w.at .. n
      /\ \A i \in w.at + 1 .. k : w.list[i].mSeqCount < e.mSeqCount
      /\ k < n => w.list[k + 1].mSeqCount >= e.mSeqCount
  BY <1>3, WalkedTo
<1>5. k \in 0 .. n
  BY <1>2, <1>4
<1>. HIDE DEF k, m
<1>6. /\ m \in Seq(OrderedEvent) /\ Len(m) = n + 1 /\ DOMAIN m = 1 .. n + 1
      /\ \A i \in 1 .. k : m[i] = w.list[i]
      /\ m[k + 1] = e
      /\ \A i \in k + 2 .. n + 1 : m[i] = w.list[i - 1]
      /\ Ids(m) = Ids(w.list) \union {e.id}
  <2>1. m = Take(w.list, k) \o <<e>> \o Rest(w.list, k)
    BY DEF m
  <2>2. w.list \in Seq(OrderedEvent) /\ k \in 0 .. Len(w.list)
    BY <1>2, <1>5
  <2>. QED
    <3>1. m \in Seq(OrderedEvent) /\ PutBehind(m, w.list, e, k)
      BY <2>1, <2>2, PuttingBehind
    <3>. QED
      BY <3>1 DEF PutBehind
<1>. HIDE DEF n
<1>7. v \in Walk
  BY <1>1, <1>2, <1>5, <1>6 DEF Walk
<1>8. \A i \in 1 .. n : w.list[i].mSeqCount \in Nat
  <2>1. \A i \in 1 .. n : w.list[i] \in OrderedEvent
    BY <1>2, ElementOfSeq DEF n
  <2>. QED
    BY <2>1 DEF OrderedEvent
<1>9. ASSUME OrderedList(P, w.list),
             e.id \in DOMAIN P, P[e.id] = e,
             \A i \in DOMAIN w.list : w.list[i].mSeqCount # e.mSeqCount,
             \A i \in 1 .. w.at : w.list[i].mSeqCount < e.mSeqCount
      PROVE  /\ OrderedList(P, m)
             /\ \A i \in 1 .. k + 1 : m[i].mSeqCount <= e.mSeqCount
  <2>1. \A i \in 1 .. k : w.list[i].mSeqCount < e.mSeqCount
    BY <1>2, <1>4, <1>9
  <2>2. \A i, j \in 1 .. n : i < j => w.list[i].mSeqCount < w.list[j].mSeqCount
    BY <1>2, <1>9 DEF OrderedList, Sorted
  <2>3. \A i \in k + 1 .. n : e.mSeqCount < w.list[i].mSeqCount
    <3>. SUFFICES ASSUME NEW i \in k + 1 .. n PROVE e.mSeqCount < w.list[i].mSeqCount
      OBVIOUS
    <3>1. k + 1 \in 1 .. n /\ i \in 1 .. n /\ k < n
      BY <1>2, <1>5
    <3>2. e.mSeqCount < w.list[k + 1].mSeqCount
      BY <1>2, <1>3, <1>4, <1>8, <1>9, <3>1
    <3>3. CASE i = k + 1
      BY <3>2, <3>3
    <3>4. CASE k + 1 < i
      <4>1. w.list[k + 1].mSeqCount < w.list[i].mSeqCount
        BY <2>2, <3>1, <3>4
      <4>. QED
        BY <1>3, <1>8, <3>1, <3>2, <4>1
    <3>. QED
      BY <1>5, <3>3, <3>4
  <2>4. Mine(P, m)
    <3>. SUFFICES ASSUME NEW i \in 1 .. n + 1 PROVE m[i].id \in DOMAIN P /\ m[i] = P[m[i].id]
      BY <1>6 DEF Mine
    <3>1. Mine(P, w.list)
      BY <1>9 DEF OrderedList
    <3>2. CASE i \in 1 .. k
      <4>1. i \in DOMAIN w.list /\ m[i] = w.list[i]
        BY <1>2, <1>5, <1>6, <3>2
      <4>. QED
        BY <3>1, <4>1 DEF Mine
    <3>3. CASE i = k + 1
      BY <1>6, <1>9, <3>3
    <3>4. CASE i \in k + 2 .. n + 1
      <4>1. i - 1 \in 1 .. n
        BY <1>2, <1>5, <3>4
      <4>. QED
        BY <1>2, <1>6, <3>1, <3>4, <4>1 DEF Mine
    <3>5. i \in 1 .. k \/ i = k + 1 \/ i \in k + 2 .. n + 1
      BY <1>2, <1>5
    <3>. QED
      BY <3>2, <3>3, <3>4, <3>5, Zenon
  <2>5. Sorted(m)
    <3>. SUFFICES ASSUME NEW i \in 1 .. n + 1, NEW j \in 1 .. n + 1, i < j
                  PROVE  m[i].mSeqCount < m[j].mSeqCount
      BY <1>6 DEF Sorted
    <3>1. CASE j <= k
      <4>1. i \in 1 .. n /\ j \in 1 .. n /\ i \in 1 .. k /\ j \in 1 .. k
        BY <1>2, <1>5, <3>1
      <4>. QED
        BY <1>6, <2>2, <4>1
    <3>2. CASE j = k + 1
      <4>1. i \in 1 .. k
        BY <1>5, <3>2
      <4>. QED
        BY <1>6, <2>1, <3>2, <4>1
    <3>3. CASE j > k + 1
      <4>1. j \in k + 2 .. n + 1 /\ j - 1 \in k + 1 .. n /\ j - 1 \in 1 .. n
        BY <1>2, <1>5, <3>3
      <4>2. m[j] = w.list[j - 1]
        BY <1>6, <4>1
      <4>3. CASE i \in 1 .. k
        <5>1. i < j - 1 /\ i \in 1 .. n
          BY <1>2, <1>5, <4>1, <4>3
        <5>. QED
          BY <1>6, <2>2, <4>1, <4>2, <4>3, <5>1
      <4>4. CASE i = k + 1
        BY <1>6, <2>3, <4>1, <4>2, <4>4
      <4>5. CASE i \in k + 2 .. n + 1
        <5>1. i - 1 \in 1 .. n /\ i - 1 < j - 1
          BY <1>2, <1>5, <4>5
        <5>. QED
          BY <1>6, <2>2, <4>1, <4>2, <4>5, <5>1
      <4>. QED
        BY <1>5, <4>3, <4>4, <4>5
    <3>4. j <= k \/ j = k + 1 \/ j > k + 1
      BY <1>2, <1>5
    <3>. QED
      BY <3>1, <3>2, <3>3, <3>4
  <2>6. \A i \in 1 .. k + 1 : m[i].mSeqCount <= e.mSeqCount
    <3>. SUFFICES ASSUME NEW i \in 1 .. k + 1 PROVE m[i].mSeqCount <= e.mSeqCount
      OBVIOUS
    <3>1. CASE i = k + 1
      BY <1>3, <1>6, <3>1
    <3>2. CASE i \in 1 .. k
      BY <1>2, <1>3, <1>5, <1>6, <1>8, <2>1, <3>2
    <3>. QED
      BY <1>5, <3>1, <3>2
  <2>. QED
    BY <2>4, <2>5, <2>6 DEF OrderedList
<1>. QED
  BY <1>1, <1>6, <1>7, <1>9

(* The walk takes the events of a packet one by one.                       *)
LEMMA InsertingFn ==
  ASSUME NEW list \in Seq(OrderedEvent), NEW events \in Seq(Event), NEW f,
         f = Inserting(list, events)
  PROVE  /\ f \in [0 .. Len(events) -> Walk]
         /\ f[0] = [list |-> list, at |-> 0]
         /\ \A k \in 1 .. Len(events) :
              f[k] = IF IsOrdered(events[k]) THEN Insert(events[k])[f[k - 1]] ELSE f[k - 1]
<1>. DEFINE n == Len(events)
           a == [list |-> list, at |-> 0]
           g == [k \in 1 .. n |->
                   [w \in Walk |-> IF IsOrdered(events[k]) THEN Insert(events[k])[w] ELSE w]]
           IsF(h) == h = [k \in 0 .. n |->
                            IF k = 0 THEN a
                            ELSE IF IsOrdered(events[k]) THEN Insert(events[k])[h[k - 1]]
                                                         ELSE h[k - 1]]
<1>1. n \in Nat /\ a \in Walk
  BY LenProperties DEF Walk
<1>2. \A k \in 1 .. n : IsOrdered(events[k]) => events[k] \in OrderedEvent
  <2>1. \A k \in 1 .. n : events[k] \in Event
    BY ElementOfSeq
  <2>. QED
    BY <2>1 DEF Event, UnorderedEvent, IsOrdered
<1>3. g \in [1 .. n -> [Walk -> Walk]]
  <2>. SUFFICES ASSUME NEW k \in 1 .. n, NEW w \in Walk, IsOrdered(events[k])
                PROVE  Insert(events[k])[w] \in Walk
    OBVIOUS
  <2>. QED
    BY <1>2, Inserted
<1>4. PICK h : h \in [0 .. n -> Walk] /\ h[0] = a /\ \A k \in 1 .. n : h[k] = g[k][h[k - 1]]
  <2>. HIDE DEF n, a, g
  <2>1. PICK h : Steps(h, n, Walk, a, g)
    BY <1>1, <1>3, RecursionExists
  <2>. QED
    BY <2>1 DEF Steps
<1>5. \A k \in 1 .. n : h[k] = IF IsOrdered(events[k]) THEN Insert(events[k])[h[k - 1]] ELSE h[k - 1]
  <2>. SUFFICES ASSUME NEW k \in 1 .. n
                PROVE  h[k] = IF IsOrdered(events[k]) THEN Insert(events[k])[h[k - 1]] ELSE h[k - 1]
    OBVIOUS
  <2>1. k - 1 \in 0 .. n
    BY <1>1
  <2>2. h[k - 1] \in Walk
    BY <1>4, <2>1
  <2>3. g[k] = [w \in Walk |-> IF IsOrdered(events[k]) THEN Insert(events[k])[w] ELSE w]
    OBVIOUS
  <2>4. h[k] = g[k][h[k - 1]]
    BY <1>4
  <2>. QED
    BY <2>2, <2>3, <2>4
<1>6. IsF(h)
  <2>. DEFINE R(k) == IF k = 0 THEN a
                      ELSE IF IsOrdered(events[k]) THEN Insert(events[k])[h[k - 1]] ELSE h[k - 1]
  <2>1. \A k \in 0 .. n : h[k] = R(k)
    <3>. SUFFICES ASSUME NEW k \in 0 .. n PROVE h[k] = R(k)
      OBVIOUS
    <3>1. CASE k = 0
      BY <1>4, <3>1
    <3>2. CASE k \in 1 .. n
      BY <1>5, <3>2
    <3>. QED
      BY <1>1, <3>1, <3>2
  <2>. HIDE DEF R
  <2>2. h = [k \in 0 .. n |-> R(k)]
    BY <1>4, <2>1
  <2>. QED
    BY <2>2 DEF R
<1>7. f = CHOOSE h2 : IsF(h2)
  BY DEF Inserting
<1>8. IsF(f)
  <2>. HIDE DEF IsF
  <2>. QED
    BY <1>6, <1>7
<1>9. f[0] = a /\ \A k \in 1 .. n : f[k] = IF IsOrdered(events[k]) THEN Insert(events[k])[f[k - 1]] ELSE f[k - 1]
  <2>. DEFINE R(k) == IF k = 0 THEN a
                      ELSE IF IsOrdered(events[k]) THEN Insert(events[k])[f[k - 1]] ELSE f[k - 1]
  <2>1. f = [k \in 0 .. n |-> R(k)]
    BY <1>8
  <2>. HIDE DEF R
  <2>2. \A k \in 0 .. n : f[k] = R(k)
    BY <2>1
  <2>3. 0 \in 0 .. n /\ \A k \in 1 .. n : k \in 0 .. n /\ k # 0
    BY <1>1
  <2>4. f[0] = R(0) /\ \A k \in 1 .. n : f[k] = R(k)
    BY <2>2, <2>3
  <2>. QED
    BY <2>3, <2>4 DEF R
<1>10. DOMAIN f = 0 .. n
  BY <1>8
<1>11. \A k \in 0 .. n : f[k] \in Walk
  <2>. DEFINE T == {k \in Nat : k <= n => f[k] \in Walk}
  <2>1. 0 \in T
    BY <1>1, <1>9
  <2>2. ASSUME NEW k \in Nat, k \in T PROVE k + 1 \in T
    <3>. SUFFICES ASSUME k + 1 <= n PROVE f[k + 1] \in Walk
      OBVIOUS
    <3>1. f[k] \in Walk /\ k + 1 \in 1 .. n /\ (k + 1) - 1 = k
      BY <1>1, <2>2
    <3>2. f[k + 1] = IF IsOrdered(events[k + 1]) THEN Insert(events[k + 1])[f[k]] ELSE f[k]
      BY <1>9, <3>1
    <3>3. CASE IsOrdered(events[k + 1])
      BY <1>2, <3>1, <3>2, <3>3, Inserted
    <3>. QED
      BY <3>1, <3>2, <3>3
  <2>. HIDE DEF T
  <2>3. Nat \subseteq T
    BY <2>1, <2>2, NatSetInduction
  <2>. QED
    BY <1>1, <2>3 DEF T
<1>12. f \in [0 .. n -> Walk]
  BY <1>8, <1>11
<1>. QED
  BY <1>9, <1>12

\* The ids of the ordered ones of the first k events.
OrderedUpTo(events, k) == {events[i].id : i \in {j \in 1 .. k : IsOrdered(events[j])}}

(* A list with the ordered events of a packet is a list of ordered events. *)
LEMMA WithOrderedType ==
  ASSUME NEW list \in Seq(OrderedEvent), NEW events \in Seq(Event)
  PROVE  WithOrdered(list, events) \in Seq(OrderedEvent)
<1>. DEFINE f == Inserting(list, events)
<1>1. f \in [0 .. Len(events) -> Walk]
  BY InsertingFn
<1>2. Len(events) \in 0 .. Len(events)
  BY LenProperties
<1>3. f[Len(events)] \in Walk
  BY <1>1, <1>2
<1>. QED
  BY <1>3 DEF WithOrdered, Walk

(* The ids of the ordered ones among the events of a list.                 *)
LEMMA StrictIds ==
  ASSUME NEW P, NEW events \in Seq(Event), Mine(P, events)
  PROVE  OrderedUpTo(events, Len(events)) = Strict(P, Ids(events))
<1>1. DOMAIN events = 1 .. Len(events)
  BY LenProperties
<1>2. ASSUME NEW x \in OrderedUpTo(events, Len(events)) PROVE x \in Strict(P, Ids(events))
  <2>1. PICK i \in DOMAIN events : IsOrdered(events[i]) /\ events[i].id = x
    BY <1>1 DEF OrderedUpTo
  <2>2. events[i] = P[x]
    BY <2>1 DEF Mine
  <2>3. x \in Ids(events)
    BY <2>1, IdsElt
  <2>. QED
    BY <2>1, <2>2, <2>3 DEF Strict
<1>3. ASSUME NEW x \in Strict(P, Ids(events)) PROVE x \in OrderedUpTo(events, Len(events))
  <2>1. x \in Ids(events) /\ IsOrdered(P[x])
    BY DEF Strict
  <2>2. PICK i \in DOMAIN events : events[i] = P[x] /\ events[i].id = x
    BY <2>1, IdOfMine
  <2>. QED
    BY <1>1, <2>1, <2>2 DEF OrderedUpTo
<1>. QED
  BY <1>2, <1>3

SeqsDiffer(P) ==
  \A i, j \in DOMAIN P :
    IsOrdered(P[i]) /\ IsOrdered(P[j]) /\ P[i].mSeqCount = P[j].mSeqCount => i = j

(* The list in its order, with all ordered events of the packet and no     *)
(* other: what packetReceived, packetDropped and readPacket rely on when   *)
(* they walk on from where the last event was put.                         *)
LEMMA WithOrderedRight ==
  ASSUME NEW P, NEW list \in Seq(OrderedEvent), NEW events \in Seq(Event),
         OrderedList(P, list), PacketList(P, events), SeqsDiffer(P),
         Ids(list) \intersect Ids(events) = {}
  PROVE  /\ OrderedList(P, WithOrdered(list, events))
         /\ Ids(WithOrdered(list, events)) = Ids(list) \union Strict(P, Ids(events))
<1>. DEFINE f == Inserting(list, events)
           n == Len(events)
           Ahead(k) == \A i \in 1 .. f[k].at : \A j \in k + 1 .. n :
                         IsOrdered(events[j]) => f[k].list[i].mSeqCount < events[j].mSeqCount
           Phi(k) == /\ OrderedList(P, f[k].list)
                     /\ Ids(f[k].list) = Ids(list) \union OrderedUpTo(events, k)
                     /\ Ahead(k)
           T == {k \in Nat : k <= n => Phi(k)}
<1>1. n \in Nat /\ DOMAIN events = 1 .. n
  BY LenProperties
<1>2. /\ f \in [0 .. n -> Walk] /\ f[0] = [list |-> list, at |-> 0]
      /\ \A k \in 1 .. n : f[k] = IF IsOrdered(events[k]) THEN Insert(events[k])[f[k - 1]] ELSE f[k - 1]
  BY InsertingFn
<1>. HIDE DEF f, n
<1>3. \A k \in 1 .. n : events[k] \in Event
  BY ElementOfSeq DEF n
<1>4. \A k \in 1 .. n : IsOrdered(events[k]) => events[k] \in OrderedEvent /\ events[k].mSeqCount \in Nat
  BY <1>3 DEF Event, OrderedEvent, UnorderedEvent, IsOrdered
<1>5. /\ \A k \in 1 .. n : events[k].id \in DOMAIN P /\ events[k] = P[events[k].id]
      /\ \A i, j \in 1 .. n : events[i].id = events[j].id => i = j
      /\ \A i, j \in 1 .. n : i < j /\ IsOrdered(events[i]) =>
           IsOrdered(events[j]) /\ events[i].mSeqCount < events[j].mSeqCount
  BY <1>1 DEF PacketList, UnorderedList, Mine, Distinct, OrderedLast
<1>6. 0 \in T
  <2>1. f[0].list = list /\ f[0].at = 0
    BY <1>2
  <2>2. OrderedUpTo(events, 0) = {}
    BY DEF OrderedUpTo
  <2>3. Ahead(0)
    BY <2>1
  <2>. QED
    BY <2>1, <2>2, <2>3
<1>7. ASSUME NEW k \in Nat, k \in T PROVE k + 1 \in T
  <2>. SUFFICES ASSUME k + 1 <= n PROVE Phi(k + 1)
    OBVIOUS
  <2>. DEFINE e == events[k + 1]
              w == f[k]
              v == f[k + 1]
  <2>1. k + 1 \in 1 .. n /\ k \in 0 .. n /\ (k + 1) - 1 = k /\ k <= n
    BY <1>1
  <2>2. Phi(k)
    BY <1>7, <2>1
  <2>3. w \in Walk /\ v = IF IsOrdered(e) THEN Insert(e)[w] ELSE w
    BY <1>2, <2>1
  <2>4. CASE ~IsOrdered(e)
    <3>1. v = w
      BY <2>3, <2>4
    <3>2. OrderedUpTo(events, k + 1) = OrderedUpTo(events, k)
      <4>1. {j \in 1 .. k + 1 : IsOrdered(events[j])} = {j \in 1 .. k : IsOrdered(events[j])}
        BY <2>4
      <4>. QED
        BY <4>1 DEF OrderedUpTo
    <3>3. Ahead(k + 1)
      BY <2>2, <3>1
    <3>. QED
      BY <2>2, <3>1, <3>2, <3>3
  <2>5. CASE IsOrdered(e)
    <3>1. e \in OrderedEvent /\ e.mSeqCount \in Nat /\ e.id \in DOMAIN P /\ P[e.id] = e
      BY <1>4, <1>5, <2>1, <2>5
    <3>2. w.list \in Seq(OrderedEvent) /\ Mine(P, w.list)
      BY <2>2, <2>3 DEF Walk, OrderedList
    <3>3. ASSUME NEW i \in DOMAIN w.list, w.list[i].mSeqCount = e.mSeqCount PROVE FALSE
      <4>. DEFINE x == w.list[i].id
      <4>1. w.list[i] \in OrderedEvent
        BY <3>2, LenProperties, ElementOfSeq
      <4>2. x \in DOMAIN P /\ P[x] = w.list[i]
        BY <3>2 DEF Mine
      <4>3. IsOrdered(P[x])
        BY <4>1, <4>2 DEF OrderedEvent, IsOrdered
      <4>4. x = e.id
        BY <2>5, <3>1, <3>3, <4>2, <4>3 DEF SeqsDiffer
      <4>5. x \in Ids(w.list)
        BY IdsElt
      <4>6. CASE x \in Ids(list)
        <5>1. e.id \in Ids(events)
          BY <1>1, <2>1, IdsElt
        <5>. QED
          BY <4>4, <4>6, <5>1
      <4>7. CASE x \in OrderedUpTo(events, k)
        <5>1. PICK j \in 1 .. k : events[j].id = x
          BY <4>7 DEF OrderedUpTo
        <5>2. j \in 1 .. n /\ j # k + 1
          BY <1>1, <2>1
        <5>. QED
          BY <1>5, <2>1, <4>4, <5>1, <5>2
      <4>. QED
        BY <2>2, <4>5, <4>6, <4>7
    <3>4. \A i \in 1 .. w.at : w.list[i].mSeqCount < e.mSeqCount
      BY <1>1, <2>1, <2>2, <2>5
    <3>5. v = Insert(e)[w]
      BY <2>3, <2>5
    <3>6. /\ v \in Walk
          /\ Ids(v.list) = Ids(w.list) \union {e.id}
          /\ OrderedList(P, v.list)
          /\ \A i \in 1 .. v.at : v.list[i].mSeqCount <= e.mSeqCount
      <4>. HIDE DEF e, w, v
      <4>. QED
        BY <2>2, <2>3, <3>1, <3>3, <3>4, <3>5, Inserted DEF w
    <3>7. OrderedUpTo(events, k + 1) = OrderedUpTo(events, k) \union {e.id}
      <4>1. {j \in 1 .. k + 1 : IsOrdered(events[j])} = {j \in 1 .. k : IsOrdered(events[j])} \union {k + 1}
        BY <2>5
      <4>. QED
        BY <4>1 DEF OrderedUpTo
    <3>8. Ahead(k + 1)
      <4>. SUFFICES ASSUME NEW i \in 1 .. v.at, NEW j \in (k + 1) + 1 .. n, IsOrdered(events[j])
                    PROVE  v.list[i].mSeqCount < events[j].mSeqCount
        OBVIOUS
      <4>1. j \in 1 .. n /\ k + 1 < j
        BY <2>1
      <4>2. e.mSeqCount < events[j].mSeqCount
        BY <1>5, <2>1, <2>5, <4>1
      <4>3. v.list[i].mSeqCount <= e.mSeqCount
        BY <3>6
      <4>4. v.list[i].mSeqCount \in Nat
        <5>1. v.list \in Seq(OrderedEvent) /\ v.at \in Nat /\ v.at <= Len(v.list)
          BY <3>6 DEF Walk
        <5>2. i \in 1 .. Len(v.list)
          BY <5>1, LenProperties
        <5>3. v.list[i] \in OrderedEvent
          BY <5>1, <5>2, ElementOfSeq
        <5>. QED
          BY <5>3 DEF OrderedEvent
      <4>. QED
        BY <1>4, <3>1, <4>1, <4>2, <4>3, <4>4
    <3>. QED
      BY <2>2, <3>6, <3>7, <3>8
  <2>. QED
    BY <2>4, <2>5
<1>. HIDE DEF T
<1>8. n \in T
  BY <1>1, <1>6, <1>7, NatSetInduction
<1>9. Phi(n)
  BY <1>1, <1>8 DEF T
<1>10. OrderedUpTo(events, n) = Strict(P, Ids(events))
  BY StrictIds DEF n, PacketList, UnorderedList
<1>. QED
  BY <1>9, <1>10 DEF WithOrdered, f, n

RunOf(list, next, k) ==
  /\ k \in 0 .. Len(list)
  /\ \A i \in 1 .. k : list[i].mSeqCount = next + i - 1
  /\ k < Len(list) => list[k + 1].mSeqCount # next + k

(* There is a run at the head of a list that continues from a number,      *)
(* perhaps empty.                                                          *)
LEMMA RunRight ==
  ASSUME NEW list \in Seq(OrderedEvent), NEW next \in Nat
  PROVE  RunOf(list, next, RunLength(list, next))
<1>. DEFINE n == Len(list)
           T == {j \in 0 .. n : j < n => list[j + 1].mSeqCount # next + j}
           Stops(j) == /\ \A i \in 1 .. j : list[i].mSeqCount = next + i - 1
                       /\ j < n => list[j + 1].mSeqCount # next + j
<1>1. n \in Nat
  BY LenProperties
<1>. HIDE DEF n
<1>2. PICK j \in T : \A y \in T : j <= y
  <2>1. n \in T /\ T \subseteq Nat
    BY <1>1
  <2>. HIDE DEF T
  <2>. QED
    BY <2>1, LeastNat
<1>3. ASSUME NEW i \in 1 .. j PROVE list[i].mSeqCount = next + i - 1
  <2>1. i - 1 \in 0 .. n /\ ~(j <= i - 1) /\ (i - 1) + 1 = i /\ i - 1 < n /\ next + (i - 1) = next + i - 1
    BY <1>1, <1>2
  <2>2. i - 1 \notin T
    <3>. HIDE DEF T
    <3>. QED
      BY <1>2, <2>1
  <2>3. list[(i - 1) + 1].mSeqCount = next + (i - 1)
    BY <2>1, <2>2
  <2>. QED
    BY <2>1, <2>3
<1>4. j \in 0 .. n /\ Stops(j)
  BY <1>2, <1>3
<1>5. RunLength(list, next) = CHOOSE m \in 0 .. n : Stops(m)
  BY DEF RunLength, n
<1>. HIDE DEF Stops
<1>. DEFINE k == RunLength(list, next)
<1>6. k \in 0 .. n /\ Stops(k)
  BY <1>4, <1>5
<1>. QED
  BY <1>6 DEF Stops, n, RunOf

(* A packet with the ordered events last has one place where they begin,   *)
(* at which the receiver leaves its unguaranteed phase.                    *)
LEMMA PhaseRight ==
  ASSUME NEW events \in Seq(Event), OrderedLast(events), NEW k, k = UnguaranteedPhase(events)
  PROVE  /\ k \in 0 .. Len(events)
         /\ \A i \in DOMAIN events : IsOrdered(events[i]) <=> i > k
<1>. DEFINE n == Len(events)
           T == {j \in 0 .. n : j < n => IsOrdered(events[j + 1])}
           Phase(j) == \A i \in DOMAIN events : IsOrdered(events[i]) <=> i > j
<1>1. n \in Nat /\ DOMAIN events = 1 .. n
  BY LenProperties
<1>. HIDE DEF n
<1>2. PICK j \in T : \A y \in T : j <= y
  <2>1. n \in T /\ T \subseteq Nat
    BY <1>1
  <2>. HIDE DEF T
  <2>. QED
    BY <2>1, LeastNat
<1>3. ASSUME NEW i \in 1 .. n, i <= j PROVE ~IsOrdered(events[i])
  <2>1. i - 1 \in 0 .. n /\ ~(j <= i - 1) /\ (i - 1) + 1 = i /\ i - 1 < n
    BY <1>1, <1>2, <1>3
  <2>2. i - 1 \notin T
    <3>. HIDE DEF T
    <3>. QED
      BY <1>2, <2>1
  <2>. QED
    BY <2>1, <2>2
<1>4. ASSUME NEW i \in 1 .. n, i > j PROVE IsOrdered(events[i])
  <2>1. j \in 0 .. n /\ j < n /\ j + 1 \in 1 .. n
    BY <1>1, <1>2, <1>4
  <2>2. IsOrdered(events[j + 1])
    BY <1>2, <2>1
  <2>3. i = j + 1 \/ j + 1 < i
    BY <1>4, <2>1
  <2>. QED
    BY <1>1, <2>1, <2>2, <2>3 DEF OrderedLast
<1>5. j \in 0 .. n /\ Phase(j)
  <2>1. j \in 0 .. n
    BY <1>2
  <2>2. ASSUME NEW i \in DOMAIN events PROVE IsOrdered(events[i]) <=> i > j
    <3>1. i \in 1 .. n
      BY <1>1
    <3>2. i <= j \/ i > j
      BY <2>1, <3>1
    <3>3. i <= j => ~(i > j)
      BY <2>1, <3>1
    <3>. QED
      BY <1>3, <1>4, <3>1, <3>2, <3>3
  <2>. QED
    BY <2>1, <2>2
<1>6. k = CHOOSE m \in 0 .. n : Phase(m)
  BY DEF UnguaranteedPhase, n
<1>. HIDE DEF Phase
<1>7. k \in 0 .. n /\ Phase(k)
  BY <1>5, <1>6
<1>. QED
  BY <1>7 DEF Phase, n

\* A guaranteed event more, at the head.
LEMMA PutFirst ==
  ASSUME NEW P, NEW queue \in Seq(UnorderedEvent), NEW e \in UnorderedEvent, NEW q,
         q = <<e>> \o queue
  PROVE  /\ q \in Seq(UnorderedEvent)
         /\ Ids(q) = Ids(queue) \union {e.id}
         /\ UnorderedList(P, queue) /\ e.id \in DOMAIN P /\ P[e.id] = e
              /\ e.type = "Guaranteed" /\ e.id \notin Ids(queue)
            => UnorderedList(P, q)
<1>. DEFINE o == <<e>>
           n == Len(queue)
<1>1. o \in Seq(UnorderedEvent) /\ Len(o) = 1 /\ o[1] = e /\ Ids(o) = {e.id}
  BY DEF Ids
<1>2. n \in Nat /\ DOMAIN queue = 1 .. n
  BY LenProperties
<1>. HIDE DEF o, n
<1>3. o \in Seq(UnorderedEvent) /\ q = o \o queue
  BY <1>1 DEF o
<1>4. Ids(q) = Ids(queue) \union {e.id}
  <2>1. Ids(q) = Ids(o) \union Ids(queue)
    BY <1>3, IdsJoined
  <2>. QED
    BY <1>1, <2>1
<1>5. /\ q \in Seq(UnorderedEvent) /\ Len(q) = Len(o) + Len(queue)
      /\ DOMAIN q = 1 .. Len(o) + Len(queue)
      /\ \A i \in 1 .. Len(o) : q[i] = o[i]
      /\ \A i \in 1 .. Len(queue) : q[Len(o) + i] = queue[i]
  BY <1>3, Joined
<1>6. /\ DOMAIN q = 1 .. n + 1
      /\ q[1] = e
      /\ \A i \in 2 .. n + 1 : i - 1 \in DOMAIN queue /\ q[i] = queue[i - 1]
  <2>1. DOMAIN q = 1 .. n + 1
    BY <1>1, <1>2, <1>5 DEF n
  <2>2. q[1] = e
    BY <1>1, <1>5
  <2>3. ASSUME NEW i \in 2 .. n + 1 PROVE i - 1 \in DOMAIN queue /\ q[i] = queue[i - 1]
    <3>1. i - 1 \in 1 .. n /\ 1 + (i - 1) = i
      BY <1>2
    <3>2. q[1 + (i - 1)] = queue[i - 1]
      BY <1>1, <1>5, <3>1 DEF n
    <3>. QED
      BY <1>2, <3>1, <3>2
  <2>. QED
    BY <2>1, <2>2, <2>3
<1>7. ASSUME UnorderedList(P, queue), e.id \in DOMAIN P, P[e.id] = e,
             e.type = "Guaranteed", e.id \notin Ids(queue)
      PROVE  UnorderedList(P, q)
  <2>0. \A i \in DOMAIN q : i = 1 \/ i \in 2 .. n + 1
    BY <1>2, <1>6
  <2>1. Mine(P, q)
    <3>. SUFFICES ASSUME NEW i \in DOMAIN q PROVE q[i].id \in DOMAIN P /\ q[i] = P[q[i].id]
      BY DEF Mine
    <3>1. CASE i = 1
      BY <1>6, <1>7, <3>1
    <3>2. CASE i \in 2 .. n + 1
      BY <1>6, <1>7, <3>2 DEF UnorderedList, Mine
    <3>. QED
      BY <2>0, <3>1, <3>2
  <2>2. \A i \in 2 .. n + 1 : q[i].id # e.id
    BY <1>6, <1>7, IdsElt
  <2>3. ASSUME NEW i \in 2 .. n + 1, NEW j \in 2 .. n + 1, q[i].id = q[j].id PROVE i = j
    <3>1. i - 1 = j - 1
      BY <1>6, <1>7, <2>3 DEF UnorderedList, Distinct
    <3>. QED
      BY <1>2, <3>1
  <2>4. Distinct(q)
    <3>. SUFFICES ASSUME NEW i \in DOMAIN q, NEW j \in DOMAIN q, q[i].id = q[j].id PROVE i = j
      BY DEF Distinct
    <3>1. i = 1 \/ i \in 2 .. n + 1
      BY <2>0
    <3>2. j = 1 \/ j \in 2 .. n + 1
      BY <2>0
    <3>. QED
      BY <1>6, <2>2, <2>3, <3>1, <3>2
  <2>5. UnguaranteedUp(q)
    <3>. SUFFICES ASSUME NEW i \in DOMAIN q, NEW j \in DOMAIN q, i < j,
                         q[i].type = "Unguaranteed", q[j].type = "Unguaranteed"
                  PROVE  q[i].id < q[j].id
      BY DEF UnguaranteedUp
    <3>1. i \in 2 .. n + 1 /\ j \in 2 .. n + 1
      BY <1>6, <1>7, <2>0
    <3>2. i - 1 \in DOMAIN queue /\ j - 1 \in DOMAIN queue /\ i - 1 < j - 1
          /\ q[i] = queue[i - 1] /\ q[j] = queue[j - 1]
      BY <1>2, <1>6, <3>1
    <3>. QED
      BY <1>7, <3>2 DEF UnorderedList, UnguaranteedUp
  <2>. QED
    BY <2>1, <2>4, <2>5 DEF UnorderedList
<1>. QED
  BY <1>4, <1>5, <1>7

\* The guaranteed ones of the first k events are put before the queue.
LEMMA AgainFn ==
  ASSUME NEW queue \in Seq(UnorderedEvent), NEW events \in Seq(Event)
  PROVE  \E f : /\ UnorderedAgain(queue, events) = f[Len(events)]
                /\ f \in [0 .. Len(events) -> Seq(UnorderedEvent)]
                /\ f[0] = queue
                /\ \A k \in 1 .. Len(events) :
                     f[k] = IF events[k].type = "Guaranteed" THEN <<events[k]>> \o f[k - 1]
                                                             ELSE f[k - 1]
<1>. DEFINE n == Len(events)
           Q == Seq(UnorderedEvent)
           Again(k) == events[k].type = "Guaranteed"
           g == [k \in 1 .. n |-> [q \in Q |-> IF Again(k) THEN <<events[k]>> \o q ELSE q]]
           IsF(h) == h = [k \in 0 .. n |->
                            IF k = 0 THEN queue
                            ELSE IF Again(k) THEN <<events[k]>> \o h[k - 1] ELSE h[k - 1]]
           f == CHOOSE h2 : IsF(h2)
<1>1. n \in Nat /\ queue \in Q
  BY LenProperties
<1>2. \A k \in 1 .. n : Again(k) => events[k] \in UnorderedEvent
  <2>1. \A k \in 1 .. n : events[k] \in Event
    BY ElementOfSeq
  <2>. QED
    BY <2>1 DEF Event, OrderedEvent
<1>3. \A k \in 1 .. n : \A q \in Q : Again(k) => <<events[k]>> \o q \in Q
  BY <1>2, PutFirst
<1>. HIDE DEF Again
<1>4. g \in [1 .. n -> [Q -> Q]]
  <2>. HIDE DEF Q
  <2>. QED
    BY <1>3
<1>5. PICK h : h \in [0 .. n -> Q] /\ h[0] = queue /\ \A k \in 1 .. n : h[k] = g[k][h[k - 1]]
  <2>. HIDE DEF n, Q, g
  <2>1. PICK h : Steps(h, n, Q, queue, g)
    BY <1>1, <1>4, RecursionExists
  <2>. QED
    BY <2>1 DEF Steps
<1>6. \A k \in 1 .. n : h[k] = IF Again(k) THEN <<events[k]>> \o h[k - 1] ELSE h[k - 1]
  <2>. SUFFICES ASSUME NEW k \in 1 .. n
                PROVE  h[k] = IF Again(k) THEN <<events[k]>> \o h[k - 1] ELSE h[k - 1]
    OBVIOUS
  <2>1. k - 1 \in 0 .. n
    BY <1>1
  <2>2. h[k - 1] \in Q
    BY <1>5, <2>1
  <2>. HIDE DEF Q
  <2>3. g[k] = [q \in Q |-> IF Again(k) THEN <<events[k]>> \o q ELSE q]
    OBVIOUS
  <2>4. h[k] = g[k][h[k - 1]]
    BY <1>5
  <2>. QED
    BY <2>2, <2>3, <2>4
<1>7. IsF(h)
  <2>. DEFINE R(k) == IF k = 0 THEN queue
                      ELSE IF Again(k) THEN <<events[k]>> \o h[k - 1] ELSE h[k - 1]
  <2>1. \A k \in 0 .. n : h[k] = R(k)
    <3>. SUFFICES ASSUME NEW k \in 0 .. n PROVE h[k] = R(k)
      OBVIOUS
    <3>1. CASE k = 0
      BY <1>5, <3>1
    <3>2. CASE k \in 1 .. n
      BY <1>6, <3>2
    <3>. QED
      BY <1>1, <3>1, <3>2
  <2>. HIDE DEF R
  <2>2. h = [k \in 0 .. n |-> R(k)]
    BY <1>5, <2>1
  <2>. QED
    BY <2>2 DEF R
<1>8. IsF(f)
  <2>. HIDE DEF IsF
  <2>. QED
    BY <1>7
<1>. DEFINE S(k) == IF k = 0 THEN queue
                    ELSE IF Again(k) THEN <<events[k]>> \o f[k - 1] ELSE f[k - 1]
<1>9. f = [k \in 0 .. n |-> S(k)]
  <2>. HIDE DEF f
  <2>. QED
    BY <1>8
<1>10. UnorderedAgain(queue, events) = f[n]
  BY DEF UnorderedAgain, Again
<1>. HIDE DEF f, S, Q
<1>11. \A k \in 0 .. n : f[k] = S(k)
  BY <1>9
<1>12. 0 \in 0 .. n /\ \A k \in 1 .. n : k \in 0 .. n /\ k # 0
  BY <1>1
<1>13. f[0] = queue
  BY <1>11, <1>12 DEF S
<1>14. \A k \in 1 .. n : f[k] = IF Again(k) THEN <<events[k]>> \o f[k - 1] ELSE f[k - 1]
  <2>. SUFFICES ASSUME NEW k \in 1 .. n
                PROVE  f[k] = IF Again(k) THEN <<events[k]>> \o f[k - 1] ELSE f[k - 1]
    OBVIOUS
  <2>1. f[k] = S(k) /\ k # 0
    BY <1>11, <1>12
  <2>. QED
    BY <2>1 DEF S
<1>15. \A k \in 0 .. n : f[k] \in Q
  <2>. DEFINE T == {k \in Nat : k <= n => f[k] \in Q}
  <2>1. 0 \in T
    BY <1>1, <1>13
  <2>2. ASSUME NEW k \in Nat, k \in T PROVE k + 1 \in T
    <3>. SUFFICES ASSUME k + 1 <= n PROVE f[k + 1] \in Q
      OBVIOUS
    <3>1. f[k] \in Q /\ k + 1 \in 1 .. n /\ (k + 1) - 1 = k
      BY <1>1, <2>2
    <3>2. f[k + 1] = IF Again(k + 1) THEN <<events[k + 1]>> \o f[k] ELSE f[k]
      BY <1>14, <3>1
    <3>. QED
      BY <1>3, <3>1, <3>2
  <2>. HIDE DEF T
  <2>3. Nat \subseteq T
    BY <2>1, <2>2, NatSetInduction
  <2>. QED
    BY <1>1, <2>3 DEF T
<1>16. f \in [0 .. n -> Q]
  BY <1>9, <1>15
<1>. QED
  BY <1>10, <1>13, <1>14, <1>16 DEF Again, Q

GuaranteedUpTo(events, k) == {events[i].id : i \in {j \in 1 .. k : events[j].type = "Guaranteed"}}
Guaranteed(P, ids) == {i \in ids : P[i].type = "Guaranteed"}

(* The ids of the guaranteed ones among the events of a list.              *)
LEMMA GuaranteedIds ==
  ASSUME NEW P, NEW events \in Seq(Event), Mine(P, events)
  PROVE  GuaranteedUpTo(events, Len(events)) = Guaranteed(P, Ids(events))
<1>1. DOMAIN events = 1 .. Len(events)
  BY LenProperties
<1>2. ASSUME NEW x \in GuaranteedUpTo(events, Len(events)) PROVE x \in Guaranteed(P, Ids(events))
  <2>1. PICK i \in DOMAIN events : events[i].type = "Guaranteed" /\ events[i].id = x
    BY <1>1 DEF GuaranteedUpTo
  <2>2. events[i] = P[x]
    BY <2>1 DEF Mine
  <2>3. x \in Ids(events)
    BY <2>1, IdsElt
  <2>. QED
    BY <2>1, <2>2, <2>3 DEF Guaranteed
<1>3. ASSUME NEW x \in Guaranteed(P, Ids(events)) PROVE x \in GuaranteedUpTo(events, Len(events))
  <2>1. x \in Ids(events) /\ P[x].type = "Guaranteed"
    BY DEF Guaranteed
  <2>2. PICK i \in DOMAIN events : events[i] = P[x] /\ events[i].id = x
    BY <2>1, IdOfMine
  <2>. QED
    BY <1>1, <2>1, <2>2 DEF GuaranteedUpTo
<1>. QED
  BY <1>2, <1>3

(* After packetDropped the queue has its events and the guaranteed ones of *)
(* the packet, each once, and the unguaranteed ones are in the order of    *)
(* posting as before.                                                      *)
LEMMA AgainRight ==
  ASSUME NEW P, NEW queue \in Seq(UnorderedEvent), NEW events \in Seq(Event)
  PROVE  /\ UnorderedAgain(queue, events) \in Seq(UnorderedEvent)
         /\ UnorderedList(P, queue) /\ PacketList(P, events) /\ Ids(queue) \intersect Ids(events) = {}
            => /\ UnorderedList(P, UnorderedAgain(queue, events))
               /\ Ids(UnorderedAgain(queue, events)) = Ids(queue) \union Guaranteed(P, Ids(events))
<1>. DEFINE n == Len(events)
<1>1. n \in Nat /\ DOMAIN events = 1 .. n
  BY LenProperties
<1>2. PICK f : /\ UnorderedAgain(queue, events) = f[n]
               /\ f \in [0 .. n -> Seq(UnorderedEvent)]
               /\ f[0] = queue
               /\ \A k \in 1 .. n : f[k] = IF events[k].type = "Guaranteed"
                                           THEN <<events[k]>> \o f[k - 1] ELSE f[k - 1]
  BY AgainFn
<1>. HIDE DEF n
<1>3. f[n] \in Seq(UnorderedEvent)
  BY <1>1, <1>2
<1>4. ASSUME UnorderedList(P, queue), PacketList(P, events), Ids(queue) \intersect Ids(events) = {}
      PROVE  UnorderedList(P, f[n]) /\ Ids(f[n]) = Ids(queue) \union Guaranteed(P, Ids(events))
  <2>. DEFINE Phi(k) == /\ UnorderedList(P, f[k])
                        /\ Ids(f[k]) = Ids(queue) \union GuaranteedUpTo(events, k)
              T == {k \in Nat : k <= n => Phi(k)}
  <2>1. /\ \A k \in 1 .. n : events[k].id \in DOMAIN P /\ events[k] = P[events[k].id]
        /\ \A i, j \in 1 .. n : events[i].id = events[j].id => i = j
    BY <1>1, <1>4 DEF PacketList, UnorderedList, Mine, Distinct
  <2>2. 0 \in T
    <3>1. GuaranteedUpTo(events, 0) = {}
      BY DEF GuaranteedUpTo
    <3>. QED
      BY <1>2, <1>4, <3>1
  <2>3. ASSUME NEW k \in Nat, k \in T PROVE k + 1 \in T
    <3>. SUFFICES ASSUME k + 1 <= n PROVE Phi(k + 1)
      OBVIOUS
    <3>. DEFINE e == events[k + 1]
                q == f[k]
                v == f[k + 1]
    <3>1. k + 1 \in 1 .. n /\ k \in 0 .. n /\ (k + 1) - 1 = k /\ k <= n
      BY <1>1
    <3>2. Phi(k)
      BY <2>3, <3>1
    <3>3. q \in Seq(UnorderedEvent) /\ v = IF e.type = "Guaranteed" THEN <<e>> \o q ELSE q
      BY <1>2, <3>1
    <3>4. CASE e.type # "Guaranteed"
      <4>1. GuaranteedUpTo(events, k + 1) = GuaranteedUpTo(events, k)
        <5>1. {j \in 1 .. k + 1 : events[j].type = "Guaranteed"} = {j \in 1 .. k : events[j].type = "Guaranteed"}
          BY <3>4
        <5>. QED
          BY <5>1 DEF GuaranteedUpTo
      <4>. QED
        BY <3>2, <3>3, <3>4, <4>1
    <3>5. CASE e.type = "Guaranteed"
      <4>1. e \in UnorderedEvent
        <5>1. e \in Event
          BY <3>1, ElementOfSeq DEF n
        <5>. QED
          BY <3>5, <5>1 DEF Event, OrderedEvent
      <4>2. e.id \in DOMAIN P /\ P[e.id] = e
        BY <2>1, <3>1
      <4>3. e.id \notin Ids(queue)
        <5>1. e.id \in Ids(events)
          BY <1>1, <3>1, IdsElt
        <5>. QED
          BY <1>4, <5>1
      <4>4. e.id \notin GuaranteedUpTo(events, k)
        <5>. SUFFICES ASSUME NEW j \in 1 .. k, events[j].id = e.id PROVE FALSE
          BY DEF GuaranteedUpTo
        <5>1. j \in 1 .. n /\ j # k + 1
          BY <1>1, <3>1
        <5>. QED
          BY <2>1, <3>1, <5>1
      <4>5. UnorderedList(P, v) /\ Ids(v) = Ids(q) \union {e.id}
        <5>. HIDE DEF e, q, v
        <5>1. v = <<e>> \o q /\ e.id \notin Ids(q) /\ UnorderedList(P, q)
          BY <3>2, <3>3, <3>5, <4>3, <4>4 DEF q
        <5>. QED
          BY <3>3, <3>5, <4>1, <4>2, <5>1, PutFirst
      <4>6. GuaranteedUpTo(events, k + 1) = GuaranteedUpTo(events, k) \union {e.id}
        <5>1. {j \in 1 .. k + 1 : events[j].type = "Guaranteed"}
                = {j \in 1 .. k : events[j].type = "Guaranteed"} \union {k + 1}
          BY <3>5
        <5>. QED
          BY <5>1 DEF GuaranteedUpTo
      <4>. QED
        BY <3>2, <4>5, <4>6
    <3>. QED
      BY <3>4, <3>5
  <2>. HIDE DEF T
  <2>4. n \in T
    BY <1>1, <2>2, <2>3, NatSetInduction
  <2>5. Phi(n)
    BY <1>1, <2>4 DEF T
  <2>6. GuaranteedUpTo(events, n) = Guaranteed(P, Ids(events))
    BY <1>4, GuaranteedIds DEF n, PacketList, UnorderedList
  <2>. QED
    BY <2>5, <2>6
<1>. QED
  BY <1>2, <1>3, <1>4

-----------------------------------------------------------------------------
(* Lists put together.                                                     *)
LEMMA JoinedAt ==
  ASSUME NEW S, NEW a \in Seq(S), NEW b \in Seq(S), NEW c, c = a \o b
  PROVE  /\ \A i \in DOMAIN c :
              \/ i \in DOMAIN a /\ c[i] = a[i]
              \/ i - Len(a) \in DOMAIN b /\ c[i] = b[i - Len(a)]
         /\ \A i \in DOMAIN a : i \in DOMAIN c /\ c[i] = a[i]
         /\ \A i \in DOMAIN b : Len(a) + i \in DOMAIN c /\ c[Len(a) + i] = b[i]
         /\ DOMAIN a = 1 .. Len(a) /\ DOMAIN b = 1 .. Len(b) /\ Len(a) \in Nat /\ Len(b) \in Nat
<1>1. /\ DOMAIN a = 1 .. Len(a) /\ DOMAIN b = 1 .. Len(b)
      /\ Len(a) \in Nat /\ Len(b) \in Nat
  BY LenProperties
<1>2. /\ DOMAIN c = 1 .. Len(a) + Len(b)
      /\ \A i \in 1 .. Len(a) : c[i] = a[i]
      /\ \A i \in 1 .. Len(b) : c[Len(a) + i] = b[i]
  BY Joined
<1>3. ASSUME NEW i \in DOMAIN c
      PROVE  (i \in DOMAIN a /\ c[i] = a[i]) \/ (i - Len(a) \in DOMAIN b /\ c[i] = b[i - Len(a)])
  <2>1. i \in 1 .. Len(a) \/ i - Len(a) \in 1 .. Len(b)
    BY <1>1, <1>2
  <2>2. CASE i \in 1 .. Len(a)
    BY <1>1, <1>2, <2>2
  <2>3. CASE i - Len(a) \in 1 .. Len(b)
    <3>1. c[Len(a) + (i - Len(a))] = b[i - Len(a)] /\ Len(a) + (i - Len(a)) = i
      BY <1>1, <1>2, <2>3
    <3>. QED
      BY <1>1, <2>3, <3>1
  <2>. QED
    BY <2>1, <2>2, <2>3
<1>4. \A i \in DOMAIN a : i \in DOMAIN c /\ c[i] = a[i]
  BY <1>1, <1>2
<1>5. \A i \in DOMAIN b : Len(a) + i \in DOMAIN c /\ c[Len(a) + i] = b[i]
  BY <1>1, <1>2
<1>. QED
  BY <1>1, <1>3, <1>4, <1>5

(* Unguaranteed events remain in order when those of a second list come    *)
(* behind them and were all posted later.                                  *)
LEMMA JoinUnordered ==
  ASSUME NEW P, NEW S, NEW a \in Seq(S), NEW b \in Seq(S), NEW c, c = a \o b,
         UnorderedList(P, a), UnorderedList(P, b),
         Ids(a) \intersect Ids(b) = {}, Below(Loose(P, Ids(a)), Loose(P, Ids(b)))
  PROVE  UnorderedList(P, c)
<1>. DEFINE n == Len(a)
            At(i) == i - n
<1>1. /\ \A i \in DOMAIN c : \/ i \in DOMAIN a /\ c[i] = a[i]
                             \/ At(i) \in DOMAIN b /\ c[i] = b[At(i)]
      /\ DOMAIN a \subseteq Nat /\ DOMAIN b \subseteq Nat /\ n \in Nat /\ \A i \in DOMAIN a : i <= n
      /\ \A i \in DOMAIN b : i > 0
  BY JoinedAt
<1>2. Mine(P, c)
  <2>. SUFFICES ASSUME NEW i \in DOMAIN c PROVE c[i].id \in DOMAIN P /\ c[i] = P[c[i].id]
    BY DEF Mine
  <2>. HIDE DEF At
  <2>. QED
    BY <1>1 DEF UnorderedList, Mine
<1>3. DOMAIN c \subseteq Int
  <2>1. a \o b \in Seq(S)
    BY Joined
  <2>. QED
    BY <2>1, LenProperties
<1>4. \A i, j \in DOMAIN c : At(i) = At(j) => i = j
  BY <1>1, <1>3
<1>5. \A i, j \in DOMAIN c : i < j => At(i) < At(j)
  BY <1>1, <1>3
<1>6. \A i, j \in DOMAIN c : At(i) \in DOMAIN b /\ j \in DOMAIN a => j < i
  BY <1>1, <1>3
<1>. HIDE DEF At, n
<1>7. Distinct(c)
  <2>. SUFFICES ASSUME NEW i \in DOMAIN c, NEW j \in DOMAIN c, c[i].id = c[j].id PROVE i = j
    BY DEF Distinct
  <2>1. CASE i \in DOMAIN a /\ c[i] = a[i] /\ j \in DOMAIN a /\ c[j] = a[j]
    BY <2>1 DEF UnorderedList, Distinct
  <2>2. CASE At(i) \in DOMAIN b /\ c[i] = b[At(i)] /\ At(j) \in DOMAIN b /\ c[j] = b[At(j)]
    BY <1>4, <2>2 DEF UnorderedList, Distinct
  <2>3. CASE i \in DOMAIN a /\ c[i] = a[i] /\ At(j) \in DOMAIN b /\ c[j] = b[At(j)]
    BY <2>3, IdsElt
  <2>4. CASE At(i) \in DOMAIN b /\ c[i] = b[At(i)] /\ j \in DOMAIN a /\ c[j] = a[j]
    BY <2>4, IdsElt
  <2>. QED
    BY <1>1, <2>1, <2>2, <2>3, <2>4
<1>8. ASSUME NEW l, NEW i \in DOMAIN l, Mine(P, l), l[i].type = "Unguaranteed"
      PROVE  l[i].id \in Loose(P, Ids(l))
  BY <1>8, IdsElt DEF Mine, Loose
<1>9. UnguaranteedUp(c)
  <2>. SUFFICES ASSUME NEW i \in DOMAIN c, NEW j \in DOMAIN c, i < j,
                       c[i].type = "Unguaranteed", c[j].type = "Unguaranteed"
                PROVE  c[i].id < c[j].id
    BY DEF UnguaranteedUp
  <2>1. CASE i \in DOMAIN a /\ c[i] = a[i] /\ j \in DOMAIN a /\ c[j] = a[j]
    BY <2>1 DEF UnorderedList, UnguaranteedUp
  <2>2. CASE At(i) \in DOMAIN b /\ c[i] = b[At(i)] /\ At(j) \in DOMAIN b /\ c[j] = b[At(j)]
    BY <1>5, <2>2 DEF UnorderedList, UnguaranteedUp
  <2>3. CASE i \in DOMAIN a /\ c[i] = a[i] /\ At(j) \in DOMAIN b /\ c[j] = b[At(j)]
    <3>1. c[i].id \in Loose(P, Ids(a)) /\ c[j].id \in Loose(P, Ids(b))
      BY <1>8, <2>3 DEF UnorderedList
    <3>. QED
      BY <3>1 DEF Below
  <2>4. CASE At(i) \in DOMAIN b /\ c[i] = b[At(i)] /\ j \in DOMAIN a /\ c[j] = a[j]
    <3>1. j < i /\ i \in Int /\ j \in Int
      BY <1>3, <1>6, <2>4
    <3>. QED
      BY <3>1
  <2>. QED
    BY <1>1, <2>1, <2>2, <2>3, <2>4
<1>. QED
  BY <1>2, <1>7, <1>9 DEF UnorderedList

\* The types of the events that the ids in a list name.
LEMMA OrderedIds ==
  ASSUME NEW P, NEW list \in Seq(OrderedEvent), Mine(P, list)
  PROVE  Loose(P, Ids(list)) = {} /\ Strict(P, Ids(list)) = Ids(list)
<1>1. \A i \in DOMAIN list : list[i] \in OrderedEvent
  BY LenProperties, ElementOfSeq
<1>2. ASSUME NEW x \in Ids(list) PROVE IsOrdered(P[x]) /\ P[x].type # "Unguaranteed"
  <2>1. PICK i \in DOMAIN list : list[i] = P[x]
    BY IdOfMine
  <2>. QED
    BY <1>1, <2>1 DEF OrderedEvent, IsOrdered
<1>. QED
  BY <1>2 DEF Loose, Strict

(* A list of unordered events has no ordered one.                          *)
LEMMA UnorderedIds ==
  ASSUME NEW P, NEW list \in Seq(UnorderedEvent), Mine(P, list)
  PROVE  Strict(P, Ids(list)) = {}
<1>1. \A i \in DOMAIN list : list[i] \in UnorderedEvent
  BY LenProperties, ElementOfSeq
<1>2. ASSUME NEW x \in Ids(list) PROVE ~IsOrdered(P[x])
  <2>1. PICK i \in DOMAIN list : list[i] = P[x]
    BY IdOfMine
  <2>. QED
    BY <1>1, <2>1 DEF UnorderedEvent, IsOrdered
<1>. QED
  BY <1>2 DEF Strict

(* Both kinds of events are events.                                        *)
LEMMA EventTypes ==
  /\ OrderedEvent \subseteq Event /\ UnorderedEvent \subseteq Event
  /\ \A list \in Seq(OrderedEvent) : list \in Seq(Event)
  /\ \A list \in Seq(UnorderedEvent) : list \in Seq(Event)
<1>1. OrderedEvent \subseteq Event /\ UnorderedEvent \subseteq Event
  BY DEF Event
<1>. QED
  BY <1>1, SeqMonotonic

\* What WritePacket puts into a packet.
LEMMA PacketMade ==
  ASSUME NEW P, NEW u \in Seq(UnorderedEvent), NEW q \in Seq(OrderedEvent), NEW c, c = u \o q,
         UnorderedList(P, u), OrderedList(P, q)
  PROVE  /\ c \in Seq(Event) /\ PacketList(P, c) /\ Ids(c) = Ids(u) \union Ids(q)
<1>1. u \in Seq(Event) /\ q \in Seq(Event)
  BY EventTypes
<1>2. c \in Seq(Event) /\ Ids(c) = Ids(u) \union Ids(q)
  BY <1>1, Joined, IdsJoined
<1>3. PacketList(P, q) /\ UnorderedList(P, q)
  BY SortedOnce DEF PacketList
<1>4. Ids(u) \intersect Ids(q) = {} /\ Below(Loose(P, Ids(u)), Loose(P, Ids(q)))
  <2>1. Strict(P, Ids(u)) = {}
    BY UnorderedIds DEF UnorderedList
  <2>2. Strict(P, Ids(q)) = Ids(q) /\ Loose(P, Ids(q)) = {}
    BY OrderedIds DEF OrderedList
  <2>3. \A x : x \in Ids(u) /\ x \in Ids(q) => x \in Strict(P, Ids(u))
    BY <2>2 DEF Strict
  <2>. QED
    BY <2>1, <2>2, <2>3 DEF Below
<1>5. UnorderedList(P, c)
  BY <1>1, <1>3, <1>4, JoinUnordered
<1>6. OrderedLast(c)
  <2>. DEFINE n == Len(u)
              At(i) == i - n
  <2>1. /\ \A i \in DOMAIN c : \/ i \in DOMAIN u /\ c[i] = u[i]
                               \/ At(i) \in DOMAIN q /\ c[i] = q[At(i)]
        /\ DOMAIN u = 1 .. n /\ DOMAIN q \subseteq Nat \ {0} /\ n \in Nat
    BY <1>1, JoinedAt
  <2>2. DOMAIN c \subseteq Int
    BY <1>2, LenProperties
  <2>3. \A i, j \in DOMAIN c : i < j => At(i) < At(j)
    BY <2>1, <2>2
  <2>4. \A i, j \in DOMAIN c : At(i) \in DOMAIN q /\ j \in DOMAIN u => ~(i < j)
    BY <2>1, <2>2
  <2>5. \A i \in DOMAIN u : ~IsOrdered(u[i])
    <3>1. \A i \in DOMAIN u : u[i] \in UnorderedEvent
      BY LenProperties, ElementOfSeq
    <3>. QED
      BY <3>1 DEF UnorderedEvent, IsOrdered
  <2>. HIDE DEF At, n
  <2>. SUFFICES ASSUME NEW i \in DOMAIN c, NEW j \in DOMAIN c, i < j, IsOrdered(c[i])
                PROVE  IsOrdered(c[j]) /\ c[i].mSeqCount < c[j].mSeqCount
    BY DEF OrderedLast
  <2>6. At(i) \in DOMAIN q /\ c[i] = q[At(i)]
    BY <2>1, <2>5
  <2>7. At(j) \in DOMAIN q /\ c[j] = q[At(j)]
    BY <2>1, <2>4, <2>6
  <2>8. At(i) < At(j)
    BY <2>3
  <2>. QED
    BY <1>3, <2>6, <2>7, <2>8 DEF PacketList, OrderedLast
<1>. QED
  BY <1>2, <1>5, <1>6 DEF PacketList

-----------------------------------------------------------------------------
(* The order in which the ordered events of a list stand.                  *)
LEMMA OrderedInOrderIs ==
  OrderedInOrder <=> \A s \in Side : InOrderFrom(posted[s], processed[s], 0)
BY DEF OrderedInOrder, InOrderFrom, OrderedBefore, OrderedBelow, PostedSeq, SeqOf

(* The numbers of the ordered events in a list.                            *)
LEMMA SeqsOf ==
  ASSUME NEW P, NEW list, Mine(P, list)
  PROVE  Seqs(P, Ids(list)) = {SeqOf(P, list, j) : j \in {k \in DOMAIN list : IsOrdered(list[k])}}
<1>1. ASSUME NEW x \in Seqs(P, Ids(list))
      PROVE  x \in {SeqOf(P, list, j) : j \in {k \in DOMAIN list : IsOrdered(list[k])}}
  <2>1. PICK y \in Ids(list) : IsOrdered(P[y]) /\ P[y].mSeqCount = x
    BY DEF Seqs, Strict
  <2>2. PICK i \in DOMAIN list : list[i] = P[y] /\ list[i].id = y
    BY IdOfMine
  <2>. QED
    BY <2>1, <2>2 DEF SeqOf
<1>2. ASSUME NEW x \in {SeqOf(P, list, j) : j \in {k \in DOMAIN list : IsOrdered(list[k])}}
      PROVE  x \in Seqs(P, Ids(list))
  <2>1. PICK j \in DOMAIN list : IsOrdered(list[j]) /\ x = SeqOf(P, list, j)
    OBVIOUS
  <2>2. list[j].id \in Ids(list) /\ list[j] = P[list[j].id]
    BY IdsElt DEF Mine
  <2>. QED
    BY <2>1, <2>2 DEF Seqs, Strict, SeqOf
<1>. QED
  BY <1>1, <1>2

(* Events that continue from where a list ends go on in the order of       *)
(* posting.                                                                *)
LEMMA JoinInOrder ==
  ASSUME NEW P, NEW S, NEW a \in Seq(S), NEW b \in Seq(S), NEW c, c = a \o b,
         NEW z \in Nat, NEW x \in Nat, NEW y \in Nat, z <= x, x <= y, Mine(P, a), Mine(P, b),
         InOrderFrom(P, a, z), Seqs(P, Ids(a)) = z .. x - 1,
         InOrderFrom(P, b, x), Seqs(P, Ids(b)) \subseteq x .. y
  PROVE  InOrderFrom(P, c, z)
<1>. DEFINE n == Len(a)
            At(i) == i - n
<1>1. /\ \A i \in DOMAIN c : \/ i \in DOMAIN a /\ c[i] = a[i]
                             \/ At(i) \in DOMAIN b /\ c[i] = b[At(i)]
      /\ \A i \in DOMAIN a : i \in DOMAIN c /\ c[i] = a[i]
      /\ \A i \in DOMAIN b : n + i \in DOMAIN c /\ c[n + i] = b[i]
      /\ DOMAIN a = 1 .. n /\ DOMAIN b \subseteq Nat \ {0} /\ n \in Nat
  BY JoinedAt
<1>2. DOMAIN c \subseteq Int
  <2>1. a \o b \in Seq(S)
    BY Joined
  <2>. QED
    BY <2>1, LenProperties
<1>3. /\ \A i, j \in DOMAIN c : j < i => At(j) < At(i)
      /\ \A i, j \in DOMAIN c : At(j) \in DOMAIN b /\ i \in DOMAIN a => ~(j < i)
      /\ \A i, j \in DOMAIN c : j \in DOMAIN a /\ At(i) \in DOMAIN b => j < i
      /\ \A i \in DOMAIN c : \A k \in DOMAIN b : k < At(i) => n + k < i
      /\ \A k \in DOMAIN b : At(n + k) = k
  BY <1>1, <1>2
<1>. HIDE DEF n, At
<1>. SUFFICES ASSUME NEW i \in DOMAIN c, IsOrdered(c[i])
              PROVE  {SeqOf(P, c, j) : j \in OrderedBelow(c, i)} = z .. SeqOf(P, c, i) - 1
  BY DEF InOrderFrom
<1>4. CASE i \in DOMAIN a /\ c[i] = a[i]
  <2>1. OrderedBelow(c, i) = OrderedBelow(a, i)
    BY <1>1, <1>3, <1>4 DEF OrderedBelow
  <2>2. \A j \in OrderedBelow(a, i) : SeqOf(P, c, j) = SeqOf(P, a, j)
    BY <1>1 DEF OrderedBelow, SeqOf
  <2>3. SeqOf(P, c, i) = SeqOf(P, a, i)
    BY <1>4 DEF SeqOf
  <2>4. {SeqOf(P, a, j) : j \in OrderedBelow(a, i)} = z .. SeqOf(P, a, i) - 1
    BY <1>4 DEF InOrderFrom
  <2>. QED
    BY <2>1, <2>2, <2>3, <2>4
<1>5. CASE At(i) \in DOMAIN b /\ c[i] = b[At(i)]
  <2>. DEFINE m == SeqOf(P, b, At(i))
              A == {SeqOf(P, a, j) : j \in {k \in DOMAIN a : IsOrdered(a[k])}}
              B == {SeqOf(P, b, j) : j \in OrderedBelow(b, At(i))}
              C == {SeqOf(P, c, j) : j \in OrderedBelow(c, i)}
  <2>1. A = z .. x - 1
    BY SeqsOf
  <2>2. B = x .. m - 1
    BY <1>5 DEF InOrderFrom
  <2>3. m \in x .. y
    <3>1. m \in Seqs(P, Ids(b))
      BY <1>5, SeqsOf
    <3>. QED
      BY <3>1
  <2>4. SeqOf(P, c, i) = m
    BY <1>5 DEF SeqOf
  <2>5. ASSUME NEW v \in C PROVE v \in A \union B
    <3>1. PICK j \in DOMAIN c : j < i /\ IsOrdered(c[j]) /\ v = SeqOf(P, c, j)
      BY DEF OrderedBelow
    <3>2. CASE j \in DOMAIN a /\ c[j] = a[j]
      BY <3>1, <3>2 DEF SeqOf
    <3>3. CASE At(j) \in DOMAIN b /\ c[j] = b[At(j)]
      <4>1. At(j) \in OrderedBelow(b, At(i))
        BY <1>3, <3>1, <3>3 DEF OrderedBelow
      <4>2. v = SeqOf(P, b, At(j))
        BY <3>1, <3>3 DEF SeqOf
      <4>. QED
        BY <4>1, <4>2
    <3>. QED
      BY <1>1, <3>2, <3>3
  <2>6. ASSUME NEW v \in A PROVE v \in C
    <3>1. PICK j \in DOMAIN a : IsOrdered(a[j]) /\ v = SeqOf(P, a, j)
      OBVIOUS
    <3>2. j \in OrderedBelow(c, i) /\ SeqOf(P, c, j) = v
      BY <1>1, <1>3, <1>5, <3>1 DEF OrderedBelow, SeqOf
    <3>. QED
      BY <3>2
  <2>7. ASSUME NEW v \in B PROVE v \in C
    <3>1. PICK j \in DOMAIN b : j < At(i) /\ IsOrdered(b[j]) /\ v = SeqOf(P, b, j)
      BY DEF OrderedBelow
    <3>2. n + j \in OrderedBelow(c, i) /\ SeqOf(P, c, n + j) = v
      BY <1>1, <1>3, <3>1 DEF OrderedBelow, SeqOf
    <3>. QED
      BY <3>2
  <2>8. C = A \union B
    BY <2>5, <2>6, <2>7
  <2>. HIDE DEF A, B, C
  <2>9. C = z .. m - 1
    BY <2>1, <2>2, <2>3, <2>8
  <2>. QED
    BY <2>4, <2>9 DEF C
<1>. QED
  BY <1>1, <1>4, <1>5

(* The first events of a list that is in the order of posting are in that  *)
(* order.                                                                  *)
LEMMA PrefixInOrder ==
  ASSUME NEW P, NEW S, NEW list \in Seq(S), NEW k \in 0 .. Len(list), NEW b,
         InOrderFrom(P, list, b)
  PROVE  InOrderFrom(P, Take(list, k), b)
<1>. DEFINE t == Take(list, k)
            n == Len(list)
<1>1. DOMAIN t = 1 .. k /\ \A i \in 1 .. k : t[i] = list[i]
  BY TakeRest
<1>2. n \in Nat /\ DOMAIN list = 1 .. n /\ k \in 0 .. n
  BY LenProperties
<1>. HIDE DEF t, n
<1>. SUFFICES ASSUME NEW i \in 1 .. k, IsOrdered(t[i])
              PROVE  {SeqOf(P, t, j) : j \in OrderedBelow(t, i)} = b .. SeqOf(P, t, i) - 1
  BY <1>1 DEF InOrderFrom, t
<1>3. i \in DOMAIN list /\ t[i] = list[i]
  BY <1>1, <1>2
<1>4. OrderedBelow(t, i) = OrderedBelow(list, i)
  BY <1>1, <1>2 DEF OrderedBelow
<1>5. \A j \in OrderedBelow(t, i) : SeqOf(P, t, j) = SeqOf(P, list, j)
  BY <1>1 DEF OrderedBelow, SeqOf
<1>6. SeqOf(P, t, i) = SeqOf(P, list, i)
  BY <1>3 DEF SeqOf
<1>7. {SeqOf(P, list, j) : j \in OrderedBelow(list, i)} = b .. SeqOf(P, list, i) - 1
  BY <1>3 DEF InOrderFrom
<1>. QED
  BY <1>4, <1>5, <1>6, <1>7

(* The numbers of the events of two sets.                                  *)
LEMMA SeqsUnion ==
  ASSUME NEW P, NEW A, NEW B, NEW C, C = A \union B
  PROVE  Seqs(P, C) = Seqs(P, A) \union Seqs(P, B)
BY DEF Seqs, Strict

(* The unguaranteed ones among the events of two sets.                     *)
LEMMA LooseUnion ==
  ASSUME NEW P, NEW A, NEW B, NEW C, C = A \union B
  PROVE  Loose(P, C) = Loose(P, A) \union Loose(P, B)
BY DEF Loose

-----------------------------------------------------------------------------
(* The number that is rebuilt from its last bits.                          *)
Rebuilt(M, a, x) ==
  LET y == a - (a % M) + (x % M) IN IF y < a THEN y + M ELSE y

(* A number that is less than M ahead of a is rebuilt from its remainder   *)
(* modulo M.                                                               *)
LEMMA SeqRebuilt ==
  ASSUME NEW M \in Nat, M > 0, NEW a \in Nat, NEW x \in Nat, a <= x, x < a + M
  PROVE  Rebuilt(M, a, x) = x
<1>. DEFINE y == a - (a % M) + (x % M)
            p == a \div M
            q == x \div M
            ra == a % M
            rx == x % M
<1>1. /\ p \in Int /\ a = M * p + ra /\ ra \in 0 .. M - 1
      /\ q \in Int /\ x = M * q + rx /\ rx \in 0 .. M - 1
  BY SMTT(30)
<1>2. y = a - ra + rx
  OBVIOUS
<1>. SUFFICES (IF y < a THEN y + M ELSE y) = x
  BY DEF Rebuilt
<1>. HIDE DEF p, q, ra, rx, y
<1>3. x - a = M * q - M * p + rx - ra /\ M * p \in Int /\ M * q \in Int
  BY <1>1
<1>4. M * q - M * p = M * (q - p)
  BY <1>1
<1>5. CASE q - p <= -1
  <2>1. M * (q - p) <= -M
    BY <1>1, <1>5, SMTT(30)
  <2>. QED
    BY <1>1, <1>3, <1>4, <2>1
<1>6. CASE q - p >= 2
  <2>1. M * (q - p) >= M + M
    BY <1>1, <1>6, SMTT(30)
  <2>. QED
    BY <1>1, <1>3, <1>4, <2>1
<1>7. CASE q - p = 0
  <2>1. M * (q - p) = 0
    BY <1>7
  <2>2. y = x
    BY <1>1, <1>2, <1>3, <1>4, <2>1
  <2>. QED
    BY <2>2
<1>8. CASE q - p = 1
  <2>1. M * (q - p) = M
    BY <1>8
  <2>2. y = x - M
    BY <1>1, <1>2, <1>3, <1>4, <2>1
  <2>. QED
    BY <2>2
<1>9. q - p <= -1 \/ q - p = 0 \/ q - p = 1 \/ q - p >= 2
  BY <1>1
<1>. QED
  BY <1>5, <1>6, <1>7, <1>8, <1>9

(* The receiver gives the events of a packet the numbers they were posted  *)
(* with, when none is behind mNextRecvEventSeq or EventSpace ahead of it.  *)
LEMMA NumberedRight ==
  ASSUME NEW r \in Side, NEW events \in Seq(Event), mNextRecvEventSeq[r] \in Nat,
         \A i \in DOMAIN events : IsOrdered(events[i]) =>
           /\ mNextRecvEventSeq[r] <= events[i].mSeqCount
           /\ events[i].mSeqCount < mNextRecvEventSeq[r] + EventSpace
  PROVE  Numbered(r, events) = events
<1>1. /\ DOMAIN events = 1 .. Len(events)
      /\ \A i \in DOMAIN events : events[i] \in Event
      /\ events = [i \in DOMAIN events |-> events[i]]
  BY LenProperties, ElementOfSeq
<1>2. ASSUME NEW i \in DOMAIN events, IsOrdered(events[i])
      PROVE  [events[i] EXCEPT !.mSeqCount = RebuiltSeq(r, events[i])] = events[i]
  <2>. DEFINE e == events[i]
              a == mNextRecvEventSeq[r]
              x == e.mSeqCount
  <2>1. e \in OrderedEvent
    BY <1>1, <1>2 DEF Event, UnorderedEvent, IsOrdered
  <2>2. x \in Nat /\ a \in Nat /\ a <= x /\ x < a + EventSpace
    BY <1>2, <2>1 DEF OrderedEvent
  <2>3. EventSpace \in Nat /\ EventSpace > 0
    BY EventConstants DEF EventAssumption
  <2>4. RebuiltSeq(r, e) = Rebuilt(EventSpace, a, x)
    BY DEF RebuiltSeq, Rebuilt
  <2>5. RebuiltSeq(r, e) = x
    <3>. HIDE DEF a, x, e
    <3>. QED
      BY <2>2, <2>3, <2>4, SeqRebuilt
  <2>6. [e EXCEPT !.mSeqCount = x] = e
    BY <2>1 DEF OrderedEvent
  <2>. QED
    BY <2>5, <2>6
<1>3. Numbered(r, events) = [i \in DOMAIN events |-> events[i]]
  BY <1>2 DEF Numbered
<1>. QED
  BY <1>1, <1>3

-----------------------------------------------------------------------------
(* readPacket for the lists: from the waiting events (ids W), a packet     *)
(* (ids) and the next number it makes x.                                   *)
ReadOK(P, x, W, ids, next) ==
  /\ x.processed \in Seq(Event) /\ UnorderedList(P, x.processed)
  /\ x.waiting \in Seq(OrderedEvent) /\ OrderedList(P, x.waiting)
  /\ x.next \in Nat /\ x.next >= next
  /\ Ids(x.processed) \union Ids(x.waiting) = W \union ids
  /\ Ids(x.processed) \intersect Ids(x.waiting) = {}
  /\ Loose(P, Ids(x.processed)) = Loose(P, ids)
  /\ ids \ Ids(x.processed) \subseteq Strict(P, ids)
  /\ Seqs(P, Ids(x.processed)) = next .. x.next - 1
  /\ InOrderFrom(P, x.processed, next)
  /\ Below({x.next}, Seqs(P, Ids(x.waiting)))

\* The events that are processed in the order of posting ...
LEMMA RunSeqs ==
  ASSUME NEW P, NEW t \in Seq(OrderedEvent), NEW k \in Nat, NEW next \in Nat, Len(t) = k,
         Mine(P, t), \A i \in 1 .. k : t[i].mSeqCount = next + i - 1
  PROVE  Seqs(P, Ids(t)) = next .. next + k - 1 /\ InOrderFrom(P, t, next)
<1>1. DOMAIN t = 1 .. k
  BY LenProperties
<1>2. ASSUME NEW i \in 1 .. k PROVE IsOrdered(t[i]) /\ SeqOf(P, t, i) = next + i - 1
  <2>1. t[i] \in OrderedEvent
    BY <1>1, ElementOfSeq
  <2>2. t[i] = P[t[i].id]
    BY <1>1 DEF Mine
  <2>. QED
    BY <2>1, <2>2 DEF SeqOf, OrderedEvent, IsOrdered
<1>3. Seqs(P, Ids(t)) = {SeqOf(P, t, j) : j \in {i \in DOMAIN t : IsOrdered(t[i])}}
  BY SeqsOf
<1>4. \A b \in 0 .. k : {SeqOf(P, t, j) : j \in 1 .. b} = next .. next + b - 1
  <2>. SUFFICES ASSUME NEW b \in 0 .. k
                PROVE  {SeqOf(P, t, j) : j \in 1 .. b} = next .. next + b - 1
    OBVIOUS
  <2>1. ASSUME NEW j \in 1 .. b PROVE SeqOf(P, t, j) \in next .. next + b - 1
    <3>1. j \in 1 .. k /\ SeqOf(P, t, j) = next + j - 1
      BY <1>2
    <3>. QED
      BY <3>1
  <2>2. ASSUME NEW v \in next .. next + b - 1 PROVE \E j \in 1 .. b : v = SeqOf(P, t, j)
    <3>1. v - next + 1 \in 1 .. b /\ v - next + 1 \in 1 .. k /\ next + (v - next + 1) - 1 = v
      OBVIOUS
    <3>2. SeqOf(P, t, v - next + 1) = v
      BY <1>2, <3>1
    <3>. QED
      BY <3>1, <3>2
  <2>. QED
    BY <2>1, <2>2
<1>5. Seqs(P, Ids(t)) = next .. next + k - 1
  <2>1. {i \in DOMAIN t : IsOrdered(t[i])} = 1 .. k
    BY <1>1, <1>2
  <2>2. k \in 0 .. k
    OBVIOUS
  <2>3. {SeqOf(P, t, j) : j \in 1 .. k} = next .. next + k - 1
    BY <1>4, <2>2
  <2>. QED
    BY <1>3, <2>1, <2>3
<1>6. ASSUME NEW i \in DOMAIN t
      PROVE  {SeqOf(P, t, j) : j \in OrderedBelow(t, i)} = next .. SeqOf(P, t, i) - 1
  <2>1. i \in 1 .. k /\ i - 1 \in 0 .. k
    BY <1>1
  <2>2. OrderedBelow(t, i) = 1 .. i - 1
    BY <1>1, <1>2, <2>1 DEF OrderedBelow
  <2>3. {SeqOf(P, t, j) : j \in 1 .. i - 1} = next .. next + (i - 1) - 1
    BY <1>4, <2>1
  <2>4. SeqOf(P, t, i) - 1 = next + (i - 1) - 1
    BY <1>2, <2>1
  <2>. QED
    BY <2>2, <2>3, <2>4
<1>. QED
  BY <1>5, <1>6 DEF InOrderFrom

\* ... and those that wait behind them.
LEMMA AheadOfRun ==
  ASSUME NEW P, NEW list \in Seq(OrderedEvent), OrderedList(P, list), NEW next \in Nat, NEW k,
         RunOf(list, next, k), \A n \in Seqs(P, Ids(list)) : next <= n
  PROVE  Below({next + k}, Seqs(P, Ids(Rest(list, k))))
<1>0. Len(list) \in Nat /\ DOMAIN list = 1 .. Len(list)
  BY LenProperties
<1>1. /\ k \in 0 .. Len(list) /\ k \in Nat
      /\ \A i \in 1 .. k : list[i].mSeqCount = next + i - 1
      /\ k < Len(list) => list[k + 1].mSeqCount # next + k
  BY <1>0 DEF RunOf
<1>2. \A i \in DOMAIN list : /\ IsOrdered(list[i]) /\ list[i].mSeqCount \in Nat
                             /\ SeqOf(P, list, i) = list[i].mSeqCount
  <2>1. \A i \in DOMAIN list : list[i] \in OrderedEvent
    BY <1>0, ElementOfSeq
  <2>. QED
    BY <2>1 DEF OrderedEvent, IsOrdered, SeqOf, Mine, OrderedList
<1>3. \A i \in DOMAIN list : next <= list[i].mSeqCount
  <2>1. Seqs(P, Ids(list)) = {SeqOf(P, list, j) : j \in {i \in DOMAIN list : IsOrdered(list[i])}}
    BY SeqsOf DEF OrderedList
  <2>. QED
    BY <1>2, <2>1
<1>4. \A i, j \in DOMAIN list : i < j => list[i].mSeqCount < list[j].mSeqCount
  BY DEF OrderedList, Sorted
<1>5. k < Len(list) => next + k < list[k + 1].mSeqCount
  <2>. SUFFICES ASSUME k < Len(list) PROVE next + k < list[k + 1].mSeqCount
    OBVIOUS
  <2>1. k + 1 \in DOMAIN list /\ list[k + 1].mSeqCount # next + k
    BY <1>0, <1>1
  <2>2. CASE k = 0
    <3>1. next <= list[k + 1].mSeqCount /\ list[k + 1].mSeqCount \in Nat
      BY <1>2, <1>3, <2>1
    <3>. QED
      BY <2>1, <2>2, <3>1
  <2>3. CASE k > 0
    <3>1. k \in DOMAIN list /\ k < k + 1 /\ list[k].mSeqCount = next + k - 1
      BY <1>0, <1>1, <2>3
    <3>2. list[k].mSeqCount < list[k + 1].mSeqCount
      BY <1>4, <2>1, <3>1
    <3>. DEFINE y == list[k + 1].mSeqCount
    <3>3. y \in Nat /\ k \in Nat /\ y # next + k /\ next + k - 1 < y
      BY <1>1, <1>2, <2>1, <3>1, <3>2
    <3>. HIDE DEF y
    <3>4. next + k < y
      BY <3>3
    <3>. QED
      BY <3>4 DEF y
  <2>. QED
    BY <1>1, <2>2, <2>3
<1>6. \A i \in DOMAIN list : k < i => next + k < list[i].mSeqCount
  <2>. SUFFICES ASSUME NEW i \in DOMAIN list, k < i PROVE next + k < list[i].mSeqCount
    OBVIOUS
  <2>1. k < Len(list) /\ k + 1 \in DOMAIN list /\ (i = k + 1 \/ k + 1 < i)
    BY <1>0, <1>1
  <2>2. list[k + 1].mSeqCount \in Nat /\ list[i].mSeqCount \in Nat
    BY <1>2, <2>1
  <2>3. list[k + 1].mSeqCount <= list[i].mSeqCount
    BY <1>4, <2>1, <2>2
  <2>. QED
    BY <1>1, <1>5, <2>1, <2>2, <2>3
<1>7. ASSUME NEW y \in Seqs(P, Ids(Rest(list, k))) PROVE next + k < y
  <2>. DEFINE rest == Rest(list, k)
  <2>1. /\ DOMAIN rest = 1 .. Len(list) - k
        /\ \A i \in 1 .. Len(list) - k : rest[i] = list[k + i]
    BY <1>1, TakeRest
  <2>2. Mine(P, rest)
    BY <1>1, PartsRight DEF OrderedList
  <2>. HIDE DEF rest
  <2>3. Seqs(P, Ids(rest)) = {SeqOf(P, rest, j) : j \in {i \in DOMAIN rest : IsOrdered(rest[i])}}
    BY <2>2, SeqsOf
  <2>4. PICK j \in DOMAIN rest : y = SeqOf(P, rest, j)
    BY <1>7, <2>3 DEF rest
  <2>5. k + j \in DOMAIN list /\ k < k + j /\ rest[j] = list[k + j]
    BY <1>0, <1>1, <2>1, <2>4
  <2>6. y = list[k + j].mSeqCount
    BY <1>2, <2>4, <2>5 DEF SeqOf
  <2>. QED
    BY <1>6, <2>5, <2>6
<1>. QED
  BY <1>7 DEF Below

(* What readPacket does with a packet that has only events it has not yet  *)
(* seen: each is processed or waits, and the ordered ones are processed in *)
(* their order.                                                            *)
LEMMA ReadRight ==
  ASSUME NEW P, NEW r, NEW events \in Seq(Event), NEW wait, NEW next \in Nat, NEW x,
         wait = mWaitSeqEvents[r], next = mNextRecvEventSeq[r], wait \in Seq(OrderedEvent),
         OrderedList(P, wait), PacketList(P, events), SeqsDiffer(P),
         Ids(wait) \intersect Ids(events) = {}, Numbered(r, events) = events,
         \A n \in Seqs(P, Ids(wait)) \union Seqs(P, Ids(events)) : next <= n,
         x = ReadEvents(r, events)
  PROVE  ReadOK(P, x, Ids(wait), Ids(events), next)
<1>. DEFINE list == WithOrdered(wait, events)
            k == RunLength(list, next)
            phase == UnguaranteedPhase(events)
            u == Take(events, phase)
            t == Take(list, k)
            rest == Rest(list, k)
<1>1. x = [processed |-> u \o t, waiting |-> rest, next |-> next + k]
  BY DEF ReadEvents
<1>2. list \in Seq(OrderedEvent)
  BY WithOrderedType
<1>3. OrderedList(P, list) /\ Ids(list) = Ids(wait) \union Strict(P, Ids(events))
  BY WithOrderedRight
<1>. HIDE DEF list
<1>4. /\ k \in 0 .. Len(list)
      /\ \A i \in 1 .. k : list[i].mSeqCount = next + i - 1
      /\ k < Len(list) => list[k + 1].mSeqCount # next + k
  <2>1. RunOf(list, next, k)
    BY <1>2, RunRight
  <2>. QED
    BY <2>1 DEF RunOf
<1>5. /\ phase \in 0 .. Len(events)
      /\ \A i \in DOMAIN events : IsOrdered(events[i]) <=> i > phase
  BY PhaseRight DEF PacketList
<1>. HIDE DEF k, phase
<1>6. u \in Seq(Event) /\ UnorderedList(P, u) /\ DOMAIN u = 1 .. phase /\ \A i \in 1 .. phase : u[i] = events[i]
  <2>1. u \in Seq(Event) /\ DOMAIN u = 1 .. phase /\ \A i \in 1 .. phase : u[i] = events[i]
    BY <1>5, TakeRest
  <2>2. UnorderedList(P, u)
    BY <1>5, PartsRight DEF PacketList
  <2>. QED
    BY <2>1, <2>2
<1>70. k \in 0 .. Len(list)
  BY <1>4
<1>7. /\ t \in Seq(OrderedEvent) /\ Len(t) = k /\ DOMAIN t = 1 .. k
      /\ \A i \in 1 .. k : t[i] = list[i]
      /\ rest \in Seq(OrderedEvent) /\ Len(rest) = Len(list) - k
      /\ DOMAIN rest = 1 .. Len(list) - k
      /\ \A i \in 1 .. Len(list) - k : rest[i] = list[k + i]
  BY <1>2, <1>70, TakeRest
<1>8. OrderedList(P, t) /\ OrderedList(P, rest)
  BY <1>2, <1>3, <1>4, PartsRight
<1>9. Ids(list) = Ids(t) \union Ids(rest) /\ Ids(t) \intersect Ids(rest) = {}
  <2>1. Distinct(list)
    BY <1>2, <1>3, SortedOnce DEF PacketList, UnorderedList
  <2>. QED
    BY <1>2, <1>4, <2>1, IdsTakeRest
<1>. HIDE DEF u, t, rest
<1>10. /\ DOMAIN events = 1 .. Len(events) /\ Len(events) \in Nat
       /\ DOMAIN list = 1 .. Len(list) /\ Len(list) \in Nat
       /\ k \in Nat /\ k <= Len(list)
  BY <1>2, <1>4, LenProperties
<1>11. Ids(u) = Ids(events) \ Strict(P, Ids(events))
  <2>0. Mine(P, events)
    BY DEF PacketList, UnorderedList
  <2>1. ASSUME NEW y \in Ids(u) PROVE y \in Ids(events) /\ ~IsOrdered(P[y])
    <3>1. PICK i \in DOMAIN u : u[i].id = y
      BY IdsElt
    <3>2. i \in DOMAIN events /\ events[i].id = y /\ ~(i > phase)
      BY <1>5, <1>6, <1>10, <3>1
    <3>3. ~IsOrdered(events[i]) /\ events[i] = P[y]
      BY <1>5, <2>0, <3>2 DEF Mine
    <3>. QED
      BY <3>2, <3>3, IdsElt
  <2>2. ASSUME NEW y \in Ids(events), ~IsOrdered(P[y]) PROVE y \in Ids(u)
    <3>1. PICK i \in DOMAIN events : events[i] = P[y] /\ events[i].id = y
      BY <2>0, IdOfMine
    <3>2. ~(i > phase)
      BY <1>5, <2>2, <3>1
    <3>3. i \in DOMAIN u /\ u[i].id = y
      BY <1>5, <1>6, <1>10, <3>1, <3>2
    <3>. QED
      BY <3>3, IdsElt
  <2>. QED
    BY <2>1, <2>2 DEF Strict
<1>12. /\ Strict(P, Ids(u)) = {} /\ Seqs(P, Ids(u)) = {}
       /\ Loose(P, Ids(u)) = Loose(P, Ids(events))
  BY <1>11 DEF Strict, Seqs, Loose, IsOrdered
<1>13. /\ Loose(P, Ids(t)) = {} /\ Strict(P, Ids(t)) = Ids(t)
       /\ Strict(P, Ids(list)) = Ids(list) /\ Strict(P, Ids(rest)) = Ids(rest)
       /\ Mine(P, t) /\ Mine(P, list) /\ Mine(P, rest)
  BY <1>2, <1>3, <1>7, <1>8, OrderedIds DEF OrderedList
<1>14. Ids(u) \intersect Ids(list) = {}
  BY <1>12, <1>13 DEF Strict
<1>15. t \in Seq(Event)
  BY <1>7, EventTypes
<1>16. x.processed = u \o t /\ x.waiting = rest /\ x.next = next + k
  BY <1>1
<1>17. x.processed \in Seq(Event) /\ Ids(x.processed) = Ids(u) \union Ids(t)
  BY <1>6, <1>15, <1>16, Joined, IdsJoined
<1>18. UnorderedList(P, x.processed)
  <2>1. UnorderedList(P, t)
    BY <1>7, <1>8, SortedOnce DEF PacketList
  <2>2. Ids(u) \intersect Ids(t) = {} /\ Below(Loose(P, Ids(u)), Loose(P, Ids(t)))
    BY <1>9, <1>13, <1>14 DEF Below
  <2>. QED
    BY <1>6, <1>15, <1>16, <2>1, <2>2, JoinUnordered
<1>19. /\ Ids(x.processed) \union Ids(x.waiting) = Ids(wait) \union Ids(events)
       /\ Ids(x.processed) \intersect Ids(x.waiting) = {}
       /\ Ids(events) \ Ids(x.processed) \subseteq Strict(P, Ids(events))
  <2>1. Strict(P, Ids(events)) \subseteq Ids(events)
    BY DEF Strict
  <2>. QED
    BY <1>3, <1>9, <1>11, <1>14, <1>16, <1>17, <2>1
<1>20. Loose(P, Ids(x.processed)) = Loose(P, Ids(events))
  <2>1. Loose(P, Ids(x.processed)) = Loose(P, Ids(u)) \union Loose(P, Ids(t))
    BY <1>17, LooseUnion
  <2>. QED
    BY <1>12, <1>13, <1>17, <2>1
<1>22. Seqs(P, Ids(t)) = next .. next + k - 1 /\ InOrderFrom(P, t, next)
  <2>1. k \in Nat /\ Len(t) = k /\ \A i \in 1 .. k : t[i].mSeqCount = next + i - 1
    BY <1>4, <1>7, <1>10
  <2>. QED
    BY <1>7, <1>13, <2>1, RunSeqs
<1>23. Seqs(P, Ids(x.processed)) = next .. x.next - 1
  <2>1. Seqs(P, Ids(x.processed)) = Seqs(P, Ids(u)) \union Seqs(P, Ids(t))
    BY <1>17, SeqsUnion
  <2>2. x.next - 1 = next + k - 1
    <3>1. x.next = next + k /\ k \in Nat
      BY <1>10, <1>16
    <3>. QED
      BY <3>1
  <2>3. Seqs(P, Ids(x.processed)) = next .. next + k - 1
    BY <1>12, <1>22, <2>1
  <2>. QED
    BY <2>2, <2>3
<1>25. InOrderFrom(P, u, next)
  <2>1. \A i \in DOMAIN u : ~IsOrdered(u[i])
    BY <1>5, <1>6, <1>10
  <2>. QED
    BY <2>1 DEF InOrderFrom
<1>26. InOrderFrom(P, x.processed, next)
  <2>0. k \in Nat
    BY <1>10
  <2>1. next + k \in Nat /\ next <= next + k /\ next <= next
    BY <2>0
  <2>2. next .. next - 1 = {} /\ next .. next + k - 1 \subseteq next .. next + k
    BY <2>0
  <2>3. Seqs(P, Ids(u)) = next .. next - 1 /\ Seqs(P, Ids(t)) \subseteq next .. next + k
    BY <1>12, <1>22, <2>2
  <2>4. Mine(P, u)
    BY <1>6 DEF UnorderedList
  <2>. QED
    BY <1>6, <1>13, <1>15, <1>16, <1>22, <1>25, <2>1, <2>3, <2>4, JoinInOrder
<1>27. Below({x.next}, Seqs(P, Ids(x.waiting)))
  <2>1. Seqs(P, Ids(list)) = Seqs(P, Ids(wait)) \union Seqs(P, Ids(events))
    <3>1. Seqs(P, Ids(list)) = Seqs(P, Ids(wait)) \union Seqs(P, Strict(P, Ids(events)))
      BY <1>3, SeqsUnion
    <3>2. Seqs(P, Strict(P, Ids(events))) = Seqs(P, Ids(events))
      BY DEF Seqs, Strict
    <3>. QED
      BY <3>1, <3>2
  <2>2. RunOf(list, next, k)
    BY <1>4 DEF RunOf
  <2>3. \A n \in Seqs(P, Ids(list)) : next <= n
    BY <2>1
  <2>4. Below({next + k}, Seqs(P, Ids(Rest(list, k))))
    BY <1>2, <1>3, <2>2, <2>3, AheadOfRun
  <2>. QED
    BY <1>16, <2>4 DEF rest
<1>28. x.next \in Nat /\ x.next >= next
  BY <1>4, <1>10, <1>16
<1>. QED
  BY <1>7, <1>8, <1>16, <1>17, <1>18, <1>19, <1>20, <1>23, <1>26, <1>27, <1>28 DEF ReadOK

-----------------------------------------------------------------------------
(* An event is posted: what was said of the old ones still holds.          *)
Grown(P, R) == DOMAIN P \subseteq DOMAIN R /\ \A i \in DOMAIN P : R[i] = P[i]

(* What holds of a list holds after another event has been posted.         *)
LEMMA GrownLists ==
  ASSUME NEW P, NEW R, Grown(P, R), NEW list, Mine(P, list)
  PROVE  /\ Mine(R, list) /\ Ids(list) \subseteq DOMAIN P
         /\ \A b : InOrderFrom(P, list, b) => InOrderFrom(R, list, b)
<1>1. Mine(R, list) /\ Ids(list) \subseteq DOMAIN P
  BY DEF Mine, Ids, Grown
<1>2. \A j \in DOMAIN list : SeqOf(R, list, j) = SeqOf(P, list, j)
  BY DEF Mine, SeqOf, Grown
<1>3. ASSUME NEW b, InOrderFrom(P, list, b), NEW i \in DOMAIN list, IsOrdered(list[i])
      PROVE  {SeqOf(R, list, j) : j \in OrderedBelow(list, i)} = b .. SeqOf(R, list, i) - 1
  <2>1. OrderedBelow(list, i) \subseteq DOMAIN list
    BY DEF OrderedBelow
  <2>2. {SeqOf(R, list, j) : j \in OrderedBelow(list, i)} = {SeqOf(P, list, j) : j \in OrderedBelow(list, i)}
    BY <1>2, <2>1
  <2>3. SeqOf(R, list, i) = SeqOf(P, list, i)
    BY <1>2
  <2>4. {SeqOf(P, list, j) : j \in OrderedBelow(list, i)} = b .. SeqOf(P, list, i) - 1
    BY <1>3 DEF InOrderFrom
  <2>. QED
    BY <2>2, <2>3, <2>4
<1>. QED
  BY <1>1, <1>3 DEF InOrderFrom

(* The types and numbers of events stay after another has been posted.     *)
LEMMA GrownIds ==
  ASSUME NEW P, NEW R, Grown(P, R), NEW ids, ids \subseteq DOMAIN P
  PROVE  /\ Loose(R, ids) = Loose(P, ids) /\ Strict(R, ids) = Strict(P, ids)
         /\ Seqs(R, ids) = Seqs(P, ids)
<1>1. Loose(R, ids) = Loose(P, ids) /\ Strict(R, ids) = Strict(P, ids)
  BY DEF Grown, Loose, Strict
<1>2. \A i \in Strict(P, ids) : R[i].mSeqCount = P[i].mSeqCount
  BY DEF Grown, Strict
<1>. QED
  BY <1>1, <1>2 DEF Seqs

\* What the invariant says of where the ids of s come from.
LEMMA IdsArePosted ==
  ASSUME NEW s \in Side, ListsInv(s)
  PROVE  /\ Ids(mSendEventQueue[s]) \subseteq DOMAIN posted[s]
         /\ Ids(mNotifyEventList[s]) \subseteq DOMAIN posted[s]
         /\ Ids(mUnorderedSendEventQueue[s]) \subseteq DOMAIN posted[s]
         /\ Got(s) \subseteq DOMAIN posted[s]
         /\ \A p \in DOMAIN eventLists[s] : Pk(s, p) \subseteq DOMAIN posted[s]
BY DEF ListsInv, OrderedList, UnorderedList, PacketList, Mine, Ids, Got, Pk

(* No two ordered events are posted with one number.                       *)
LEMMA PostedDiffer ==
  ASSUME NEW s \in Side, PostedInv(s), posted[s] \in Seq(Event)
  PROVE  SeqsDiffer(posted[s])
<1>. DEFINE P == posted[s]
<1>1. /\ DOMAIN P \subseteq Nat /\ \A i \in DOMAIN P : P[i] \in Event
      /\ \A i, j \in DOMAIN P :
           IsOrdered(P[i]) /\ IsOrdered(P[j]) /\ i < j => P[i].mSeqCount < P[j].mSeqCount
  BY LenProperties, ElementOfSeq DEF PostedInv
<1>2. \A i \in DOMAIN P : IsOrdered(P[i]) => P[i].mSeqCount \in Nat
  BY <1>1 DEF Event, OrderedEvent, UnorderedEvent, IsOrdered
<1>. HIDE DEF P
<1>3. SeqsDiffer(P)
  BY <1>1, <1>2 DEF SeqsDiffer
<1>. QED
  BY <1>3 DEF P

-----------------------------------------------------------------------------
(* A step that does nothing for the events of s, but perhaps destroys one  *)
(* of the two connections.                                                 *)
Quiet(s) ==
  /\ posted'[s] = posted[s] /\ eventLists'[s] = eventLists[s] /\ processed'[s] = processed[s]
  /\ sent'[s] = sent[s] /\ notified'[s] = notified[s] /\ arrived'[s] = arrived[s]
  /\ mNextSendEventSeq'[s] = mNextSendEventSeq[s]
  /\ mLastAckedEventSeq'[s] = mLastAckedEventSeq[s]
  /\ mNextRecvEventSeq'[Peer(s)] = mNextRecvEventSeq[Peer(s)]
  /\ mWaitSeqEvents'[Peer(s)] = mWaitSeqEvents[Peer(s)]
  /\ open'[Peer(s)] => open[Peer(s)]
SameLists(s) ==
  /\ mSendEventQueue'[s] = mSendEventQueue[s]
  /\ mUnorderedSendEventQueue'[s] = mUnorderedSendEventQueue[s]
  /\ mNotifyEventList'[s] = mNotifyEventList[s]
  /\ delivered'[s] = delivered[s] /\ undelivered'[s] = undelivered[s]
  /\ open'[s] => open[s]
NoLists(s) ==
  /\ mSendEventQueue'[s] = << >> /\ mUnorderedSendEventQueue'[s] = << >>
  /\ mNotifyEventList'[s] = << >> /\ ~open'[s]

(* The empty list is in order.                                             *)
LEMMA EmptyList ==
  /\ Ids(<< >>) = {}
  /\ \A P : OrderedList(P, << >>) /\ UnorderedList(P, << >>) /\ Loose(P, {}) = {} /\ Strict(P, {}) = {}
BY DEF Ids, OrderedList, UnorderedList, Mine, Sorted, Distinct, UnguaranteedUp, Loose, Strict

(* A step that leaves what s has sent as it is, or empties its lists       *)
(* because s is destroyed, keeps its part of the invariant.                *)
LEMMA QuietStep ==
  ASSUME NEW s \in Side, SideInv(s), Quiet(s), SameLists(s) \/ NoLists(s)
  PROVE  SideInv(s)'
<1>1. ChannelInv(s)' /\ PostedInv(s)' /\ InOrderFrom(posted[s], processed[s], 0)' /\ PacketsApart(s)'
  BY DEF SideInv, Quiet, ChannelInv, PostedInv, PacketsApart, Pk
<1>2. ListsInv(s)'
  BY EmptyList DEF SideInv, Quiet, SameLists, NoLists, ListsInv
<1>3. UnreadInv(s)'
  BY DEF SideInv, Quiet, UnreadInv, HasArrived, Pk, Got
<1>4. LooseInv(s)'
  <2>1. CASE SameLists(s)
    BY <2>1 DEF SideInv, Quiet, SameLists, LooseInv, StillReadable, Pk
  <2>2. CASE NoLists(s)
    <3>1. Loose(posted'[s], Ids(mUnorderedSendEventQueue'[s])) = {}
      BY <2>2, EmptyList DEF NoLists
    <3>. QED
      BY <3>1 DEF SideInv, Quiet, LooseInv, StillReadable, Pk, Below
  <2>. QED
    BY <2>1, <2>2
<1>5. ReadInv(s)'
  <2>1. Ids(mNotifyEventList'[s]) \subseteq Ids(mNotifyEventList[s])
    BY EmptyList DEF SameLists, NoLists
  <2>. QED
    BY <2>1 DEF SideInv, Quiet, ReadInv, HasArrived, Pk, Got
<1>6. SenderInv(s)'
  <2>1. CASE SameLists(s)
    BY <2>1 DEF SideInv, Quiet, SameLists, SenderInv, Pk, Got
  <2>2. CASE NoLists(s)
    BY <2>2 DEF NoLists, SenderInv
  <2>. QED
    BY <2>1, <2>2
<1>. QED
  BY <1>1, <1>2, <1>3, <1>4, <1>5, <1>6 DEF SideInv

-----------------------------------------------------------------------------
(* An event at the end of a list.                                          *)
LEMMA Appended ==
  ASSUME NEW S, NEW list \in Seq(S), NEW e \in S, NEW c, c = Append(list, e)
  PROVE  /\ c \in Seq(S) /\ Len(c) = Len(list) + 1 /\ Len(list) \in Nat
         /\ DOMAIN list = 1 .. Len(list) /\ DOMAIN c = 1 .. Len(list) + 1
         /\ \A i \in DOMAIN list : c[i] = list[i]
         /\ c[Len(list) + 1] = e
<1>1. /\ c \in Seq(S) /\ Len(c) = Len(list) + 1
      /\ \A i \in 1 .. Len(list) : c[i] = list[i]
      /\ c[Len(list) + 1] = e
  BY AppendProperties
<1>. QED
  BY <1>1, LenProperties

(* The ids in a list with an event at its end.                             *)
LEMMA AppendedIds ==
  ASSUME NEW S, NEW list \in Seq(S), NEW e \in S
  PROVE  Ids(Append(list, e)) = Ids(list) \union {e.id}
<1>. DEFINE c == Append(list, e)
            n == Len(list) + 1
<1>1. /\ Len(list) \in Nat /\ DOMAIN list = 1 .. Len(list) /\ DOMAIN c = 1 .. Len(list) + 1
      /\ \A i \in DOMAIN list : c[i] = list[i]
      /\ c[n] = e
  BY Appended
<1>2. DOMAIN c = DOMAIN list \union {n}
  BY <1>1
<1>. HIDE DEF c, n
<1>3. Ids(c) = Ids(list) \union {e.id}
  <2>1. ASSUME NEW x \in Ids(c) PROVE x \in Ids(list) \union {e.id}
    BY <1>1, <1>2, <2>1 DEF Ids
  <2>2. ASSUME NEW x \in Ids(list) \union {e.id} PROVE x \in Ids(c)
    BY <1>1, <1>2, <2>2 DEF Ids
  <2>. QED
    BY <2>1, <2>2
<1>. QED
  BY <1>3 DEF c

(* An ordered event goes to the end of a list when its number is above all *)
(* others.                                                                 *)
LEMMA AppendedOrdered ==
  ASSUME NEW P, NEW R, Grown(P, R), NEW list \in Seq(OrderedEvent), OrderedList(P, list),
         NEW e \in OrderedEvent, e.id \in DOMAIN R, R[e.id] = e,
         \A i \in DOMAIN list : list[i].mSeqCount < e.mSeqCount
  PROVE  OrderedList(R, Append(list, e))
<1>. DEFINE c == Append(list, e)
            n == Len(list) + 1
<1>1. /\ Len(list) \in Nat /\ DOMAIN list = 1 .. Len(list) /\ DOMAIN c = 1 .. Len(list) + 1
      /\ \A i \in DOMAIN list : c[i] = list[i]
      /\ c[n] = e
  BY Appended
<1>2. \A i, j \in DOMAIN c : \/ i \in DOMAIN list
                             \/ i = n /\ (i < j => FALSE)
  BY <1>1
<1>3. \A i \in DOMAIN c : i \in DOMAIN list \/ i = n
  BY <1>1
<1>. HIDE DEF c, n
<1>4. Mine(R, list) /\ Sorted(list)
  BY GrownLists DEF OrderedList
<1>5. Mine(R, c)
  BY <1>1, <1>3, <1>4 DEF Mine
<1>6. Sorted(c)
  BY <1>1, <1>2, <1>3, <1>4 DEF Sorted
<1>. QED
  BY <1>5, <1>6 DEF OrderedList, c

(* An unordered event goes to the end of a list when it was posted after   *)
(* all others.                                                             *)
LEMMA AppendedUnordered ==
  ASSUME NEW P, NEW R, Grown(P, R), NEW list \in Seq(UnorderedEvent), UnorderedList(P, list),
         NEW e \in UnorderedEvent, e.id \in DOMAIN R, R[e.id] = e,
         \A i \in DOMAIN list : list[i].id < e.id /\ list[i].id # e.id
  PROVE  UnorderedList(R, Append(list, e))
<1>. DEFINE c == Append(list, e)
            n == Len(list) + 1
<1>1. /\ Len(list) \in Nat /\ DOMAIN list = 1 .. Len(list) /\ DOMAIN c = 1 .. Len(list) + 1
      /\ \A i \in DOMAIN list : c[i] = list[i]
      /\ c[n] = e
  BY Appended
<1>2. \A i, j \in DOMAIN c : \/ i \in DOMAIN list
                             \/ i = n /\ (i < j => FALSE)
  BY <1>1
<1>3. \A i \in DOMAIN c : i \in DOMAIN list \/ i = n
  BY <1>1
<1>. HIDE DEF c, n
<1>4. Mine(R, list) /\ Distinct(list) /\ UnguaranteedUp(list)
  BY GrownLists DEF UnorderedList
<1>5. Mine(R, c)
  BY <1>1, <1>3, <1>4 DEF Mine
<1>6. Distinct(c)
  BY <1>1, <1>3, <1>4 DEF Distinct
<1>7. UnguaranteedUp(c)
  BY <1>1, <1>2, <1>3, <1>4 DEF UnguaranteedUp
<1>. QED
  BY <1>5, <1>6, <1>7 DEF UnorderedList, c

(* An event is posted under a new id.                                      *)
LEMMA PostedGrows ==
  ASSUME NEW P \in Seq(Event), NEW e \in Event, NEW R, R = Append(P, e), e.id = Len(P) + 1
  PROVE  /\ R \in Seq(Event) /\ Grown(P, R) /\ DOMAIN R = DOMAIN P \union {e.id}
         /\ e.id \notin DOMAIN P /\ R[e.id] = e
         /\ \A i \in DOMAIN P : i \in Nat /\ i < e.id
<1>1. /\ R \in Seq(Event) /\ Len(P) \in Nat
      /\ DOMAIN P = 1 .. Len(P) /\ DOMAIN R = 1 .. Len(P) + 1
      /\ \A i \in DOMAIN P : R[i] = P[i]
      /\ R[Len(P) + 1] = e
  BY Appended
<1>2. DOMAIN R = DOMAIN P \union {e.id} /\ e.id \notin DOMAIN P
  BY <1>1
<1>3. \A i \in DOMAIN P : i \in Nat /\ i < e.id
  BY <1>1
<1>. QED
  BY <1>1, <1>2, <1>3 DEF Grown

-----------------------------------------------------------------------------
(* postNetEvent.                                                           *)
NewEvent(s, type) ==
  [id |-> Len(posted[s]) + 1, type |-> type,
   mSeqCount |-> IF type = "GuaranteedOrdered" THEN mNextSendEventSeq[s] ELSE -1]

\* One of the queues has a new event, the rest is as it was.
PostedOrdered(s, e) ==
  /\ mNextSendEventSeq' = [mNextSendEventSeq EXCEPT ![s] = @ + 1]
  /\ mSendEventQueue' = [mSendEventQueue EXCEPT ![s] = Append(@, e)]
  /\ UNCHANGED mUnorderedSendEventQueue
PostedUnordered(s, e) ==
  /\ mUnorderedSendEventQueue' = [mUnorderedSendEventQueue EXCEPT ![s] = Append(@, e)]
  /\ UNCHANGED <<mNextSendEventSeq, mSendEventQueue>>

(* The peer of the peer of s is s.                                         *)
LEMMA PeerSide ==
  ASSUME NEW s \in Side
  PROVE  /\ Peer(s) \in Side /\ Peer(s) # s /\ Peer(Peer(s)) = s
         /\ \A t \in Side : t = s \/ t = Peer(s)
BY DEF Side, Peer

(* The two cases of postNetEvent.                                          *)
LEMMA PostTaken ==
  ASSUME NEW s \in Side, TypeOK, PostNetEvent(s)
  PROVE  \E e \in Event :
           /\ e.id = Len(posted[s]) + 1
           /\ posted' = [posted EXCEPT ![s] = Append(@, e)]
           /\ \/ e \in OrderedEvent /\ e.mSeqCount = mNextSendEventSeq[s] /\ PostedOrdered(s, e)
              \/ e \in UnorderedEvent /\ PostedUnordered(s, e)
<1>1. PICK type \in GuaranteeType :
        /\ posted' = [posted EXCEPT ![s] = Append(@, NewEvent(s, type))]
        /\ IF type = "GuaranteedOrdered" THEN PostedOrdered(s, NewEvent(s, type))
                                         ELSE PostedUnordered(s, NewEvent(s, type))
  BY DEF PostNetEvent, NewEvent, PostedOrdered, PostedUnordered
<1>. DEFINE e == NewEvent(s, type)
<1>2. /\ Len(posted[s]) + 1 \in Nat /\ mNextSendEventSeq[s] \in Nat
      /\ e.id = Len(posted[s]) + 1
  BY LenProperties DEF TypeOK, NewEvent
<1>3. CASE type = "GuaranteedOrdered"
  <2>1. e \in OrderedEvent /\ e.mSeqCount = mNextSendEventSeq[s]
    BY <1>2, <1>3 DEF NewEvent, OrderedEvent
  <2>. QED
    BY <1>1, <1>2, <1>3, <2>1, EventTypes
<1>4. CASE type # "GuaranteedOrdered"
  <2>1. e \in UnorderedEvent
    BY <1>2, <1>4 DEF NewEvent, UnorderedEvent, GuaranteeType
  <2>. QED
    BY <1>1, <1>2, <1>4, <2>1, EventTypes
<1>. QED
  BY <1>3, <1>4

(* postNetEvent keeps the invariant.                                       *)
LEMMA PostStep ==
  ASSUME NEW s \in Side, TypeOK, SideInv(s), PostNetEvent(s)
  PROVE  TypeOK' /\ SideInv(s)' /\ Quiet(Peer(s)) /\ SameLists(Peer(s))
<1>. DEFINE P == posted[s]
            R == posted'[s]
            q == mSendEventQueue[s]
            u == mUnorderedSendEventQueue[s]
<1>1. PICK e \in Event :
        /\ e.id = Len(posted[s]) + 1
        /\ posted' = [posted EXCEPT ![s] = Append(@, e)]
        /\ \/ e \in OrderedEvent /\ e.mSeqCount = mNextSendEventSeq[s] /\ PostedOrdered(s, e)
           \/ e \in UnorderedEvent /\ PostedUnordered(s, e)
  BY PostTaken
<1>2. UNCHANGED <<chanVars, mLastAckedEventSeq, eventLists, mNotifyEventList, recvVars, toldVars>>
  BY DEF PostNetEvent
<1>3. /\ posted \in [Side -> Seq(Event)] /\ P \in Seq(Event) /\ R = Append(P, e)
      /\ q \in Seq(OrderedEvent) /\ u \in Seq(UnorderedEvent)
      /\ Peer(s) \in Side /\ Peer(s) # s /\ mNextSendEventSeq[s] \in Nat
  BY <1>1, PeerSide DEF TypeOK
<1>4. /\ R \in Seq(Event) /\ Grown(P, R) /\ DOMAIN R = DOMAIN P \union {e.id}
      /\ e.id \notin DOMAIN P /\ R[e.id] = e
      /\ \A i \in DOMAIN P : i \in Nat /\ i < e.id
  BY <1>1, <1>3, PostedGrows
<1>5. \/ /\ e \in OrderedEvent /\ e.mSeqCount = mNextSendEventSeq[s]
         /\ mNextSendEventSeq'[s] = mNextSendEventSeq[s] + 1
         /\ mSendEventQueue'[s] = Append(q, e) /\ mUnorderedSendEventQueue'[s] = u
      \/ /\ e \in UnorderedEvent /\ mNextSendEventSeq'[s] = mNextSendEventSeq[s]
         /\ mUnorderedSendEventQueue'[s] = Append(u, e) /\ mSendEventQueue'[s] = q
  BY <1>1 DEF PostedOrdered, PostedUnordered, TypeOK
<1>6. TypeOK'
  <2>1. \A S : \A x \in Seq(S) : \A y \in S : Append(x, y) \in Seq(S)
    BY AppendProperties
  <2>2. posted' \in [Side -> Seq(Event)]
    BY <1>1, <1>3, <2>1
  <2>3. CASE e \in OrderedEvent /\ PostedOrdered(s, e)
    <3>1. Append(q, e) \in Seq(OrderedEvent)
      BY <1>3, <2>1, <2>3
    <3>2. /\ mNextSendEventSeq' \in [Side -> Nat] /\ mSendEventQueue' \in [Side -> Seq(OrderedEvent)]
          /\ mUnorderedSendEventQueue' \in [Side -> Seq(UnorderedEvent)]
      BY <2>3, <3>1 DEF TypeOK, PostedOrdered
    <3>. QED
      BY <1>2, <2>2, <3>2 DEF TypeOK, ChanTypeOK, chanVars, recvVars, toldVars
  <2>4. CASE e \in UnorderedEvent /\ PostedUnordered(s, e)
    <3>1. Append(u, e) \in Seq(UnorderedEvent)
      BY <1>3, <2>1, <2>4
    <3>2. /\ mNextSendEventSeq' \in [Side -> Nat] /\ mSendEventQueue' \in [Side -> Seq(OrderedEvent)]
          /\ mUnorderedSendEventQueue' \in [Side -> Seq(UnorderedEvent)]
      BY <2>4, <3>1 DEF TypeOK, PostedUnordered
    <3>. QED
      BY <1>2, <2>2, <3>2 DEF TypeOK, ChanTypeOK, chanVars, recvVars, toldVars
  <2>. QED
    BY <1>1, <2>3, <2>4
<1>7. /\ eventLists' = eventLists /\ mNotifyEventList' = mNotifyEventList /\ processed' = processed
      /\ mWaitSeqEvents' = mWaitSeqEvents /\ open' = open /\ sent' = sent /\ notified' = notified
      /\ arrived' = arrived /\ mLastAckedEventSeq' = mLastAckedEventSeq
      /\ mNextRecvEventSeq' = mNextRecvEventSeq /\ delivered' = delivered /\ undelivered' = undelivered
  BY <1>2 DEF chanVars, recvVars, toldVars
<1>8. Quiet(Peer(s)) /\ SameLists(Peer(s))
  <2>1. /\ posted'[Peer(s)] = posted[Peer(s)]
        /\ mNextSendEventSeq'[Peer(s)] = mNextSendEventSeq[Peer(s)]
        /\ mSendEventQueue'[Peer(s)] = mSendEventQueue[Peer(s)]
        /\ mUnorderedSendEventQueue'[Peer(s)] = mUnorderedSendEventQueue[Peer(s)]
    BY <1>1, <1>3 DEF TypeOK, PostedOrdered, PostedUnordered
  <2>. QED
    BY <1>7, <2>1 DEF Quiet, SameLists
<1>9. /\ Ids(q) \subseteq DOMAIN P /\ Ids(mNotifyEventList[s]) \subseteq DOMAIN P
      /\ Ids(u) \subseteq DOMAIN P /\ Got(s) \subseteq DOMAIN P
      /\ \A p \in DOMAIN eventLists[s] : Pk(s, p) \subseteq DOMAIN P
  BY IdsArePosted DEF SideInv
<1>10. /\ Got(s)' = Got(s) /\ \A p : Pk(s, p)' = Pk(s, p)
       /\ \A p : HasArrived(s, p)' = HasArrived(s, p) /\ StillReadable(s, p)' = StillReadable(s, p)
  BY <1>7 DEF Got, Pk, HasArrived, StillReadable
<1>11. ChannelInv(s)' /\ PacketsApart(s)'
  BY <1>7, <1>10 DEF SideInv, ChannelInv, PacketsApart
<1>12. PostedInv(s)'
  <2>1. ASSUME NEW i \in DOMAIN R PROVE R[i].id = i
    BY <1>4 DEF SideInv, PostedInv, Grown
  <2>2. ASSUME NEW i \in DOMAIN R, IsOrdered(R[i])
        PROVE  R[i].mSeqCount < mNextSendEventSeq'[s]
    <3>1. CASE i \in DOMAIN P
      <4>1. IsOrdered(P[i]) /\ P[i].mSeqCount < mNextSendEventSeq[s] /\ R[i] = P[i]
        BY <1>4, <2>2, <3>1 DEF SideInv, PostedInv, Grown
      <4>2. P[i].mSeqCount \in Nat
        <5>1. P[i] \in Event
          BY <1>3, <3>1, LenProperties, ElementOfSeq
        <5>. QED
          BY <4>1, <5>1 DEF Event, OrderedEvent, UnorderedEvent, IsOrdered
      <4>. QED
        BY <1>3, <1>5, <4>1, <4>2
    <3>2. CASE i = e.id
      <4>1. e \in OrderedEvent
        BY <1>1, <1>4, <2>2, <3>2 DEF UnorderedEvent, IsOrdered
      <4>2. e.mSeqCount = mNextSendEventSeq[s] /\ mNextSendEventSeq'[s] = mNextSendEventSeq[s] + 1
        BY <1>5, <4>1 DEF OrderedEvent, UnorderedEvent
      <4>. QED
        BY <1>3, <1>4, <3>2, <4>2
    <3>. QED
      BY <1>4, <3>1, <3>2
  <2>3. ASSUME NEW i \in DOMAIN R, IsOrdered(R[i]), NEW j \in DOMAIN R, IsOrdered(R[j]), i < j
        PROVE  R[i].mSeqCount < R[j].mSeqCount
    <3>1. i \in DOMAIN P
      <4>1. CASE j \in DOMAIN P
        BY <1>4, <2>3, <4>1
      <4>2. CASE j = e.id
        BY <1>4, <2>3, <4>2
      <4>. QED
        BY <1>4, <4>1, <4>2
    <3>2. CASE j \in DOMAIN P
      BY <1>4, <2>3, <3>1, <3>2 DEF SideInv, PostedInv, Grown
    <3>3. CASE j = e.id
      <4>1. e \in OrderedEvent
        BY <1>1, <1>4, <2>3, <3>3 DEF UnorderedEvent, IsOrdered
      <4>2. e.mSeqCount = mNextSendEventSeq[s] /\ R[j] = e
        BY <1>4, <1>5, <3>3, <4>1 DEF OrderedEvent, UnorderedEvent
      <4>. QED
        BY <1>4, <2>3, <3>1, <4>2 DEF SideInv, PostedInv, Grown
    <3>. QED
      BY <1>4, <3>2, <3>3
  <2>. QED
    BY <2>1, <2>2, <2>3 DEF PostedInv
<1>13. /\ Ids(mSendEventQueue'[s]) \subseteq Ids(q) \union {e.id}
       /\ Ids(mUnorderedSendEventQueue'[s]) \subseteq Ids(u) \union {e.id}
       /\ Ids(mSendEventQueue'[s]) \union Ids(mUnorderedSendEventQueue'[s])
            = Ids(q) \union Ids(u) \union {e.id}
  <2>1. ASSUME e \in OrderedEvent PROVE Ids(Append(q, e)) = Ids(q) \union {e.id}
    BY <1>3, <2>1, AppendedIds
  <2>2. ASSUME e \in UnorderedEvent PROVE Ids(Append(u, e)) = Ids(u) \union {e.id}
    BY <1>3, <2>2, AppendedIds
  <2>. QED
    BY <1>5, <2>1, <2>2
<1>14. OrderedList(P, q) /\ UnorderedList(P, u)
  BY DEF SideInv, ListsInv
<1>15. ListsInv(s)'
  <2>1. OrderedList(R, mSendEventQueue'[s])
    <3>1. CASE mSendEventQueue'[s] = q
      BY <1>4, <1>14, <3>1, GrownLists DEF OrderedList
    <3>2. CASE /\ e \in OrderedEvent /\ e.mSeqCount = mNextSendEventSeq[s]
               /\ mSendEventQueue'[s] = Append(q, e)
      <4>1. \A i \in DOMAIN q : q[i].mSeqCount < e.mSeqCount
        <5>. SUFFICES ASSUME NEW i \in DOMAIN q PROVE q[i].mSeqCount < e.mSeqCount
          OBVIOUS
        <5>1. q[i].id \in DOMAIN P /\ q[i] = P[q[i].id]
          BY <1>14 DEF OrderedList, Mine
        <5>2. IsOrdered(q[i])
          <6>1. q[i] \in OrderedEvent
            BY <1>3, LenProperties, ElementOfSeq
          <6>. QED
            BY <6>1 DEF OrderedEvent, IsOrdered
        <5>. QED
          BY <3>2, <5>1, <5>2 DEF SideInv, PostedInv
      <4>2. OrderedList(R, Append(q, e))
        BY <1>3, <1>4, <1>14, <3>2, <4>1, AppendedOrdered
      <4>. QED
        BY <3>2, <4>2
    <3>. QED
      BY <1>5, <3>1, <3>2
  <2>2. UnorderedList(R, mUnorderedSendEventQueue'[s])
    <3>1. CASE mUnorderedSendEventQueue'[s] = u
      BY <1>4, <1>14, <3>1, GrownLists DEF UnorderedList
    <3>2. CASE e \in UnorderedEvent /\ mUnorderedSendEventQueue'[s] = Append(u, e)
      <4>1. \A i \in DOMAIN u : u[i].id < e.id /\ u[i].id # e.id
        BY <1>4, <1>14 DEF UnorderedList, Mine
      <4>2. UnorderedList(R, Append(u, e))
        BY <1>3, <1>4, <1>14, <3>2, <4>1, AppendedUnordered
      <4>. QED
        BY <3>2, <4>2
    <3>. QED
      BY <1>5, <3>1, <3>2
  <2>3. /\ OrderedList(R, mNotifyEventList[s]) /\ OrderedList(R, mWaitSeqEvents[Peer(s)])
        /\ UnorderedList(R, processed[s])
        /\ \A p \in DOMAIN eventLists[s] : PacketList(R, eventLists[s][p])
    BY <1>4, GrownLists DEF SideInv, ListsInv, OrderedList, UnorderedList, PacketList
  <2>. QED
    BY <1>7, <2>1, <2>2, <2>3 DEF ListsInv
<1>16. InOrderFrom(posted[s], processed[s], 0)'
  BY <1>4, <1>7, GrownLists DEF SideInv, ListsInv, UnorderedList
<1>17. \A ids : ids \subseteq DOMAIN P =>
         Loose(R, ids) = Loose(P, ids) /\ Strict(R, ids) = Strict(P, ids) /\ Seqs(R, ids) = Seqs(P, ids)
  BY <1>4, GrownIds
<1>18. /\ Ids(processed[s]) \subseteq DOMAIN P /\ Ids(mWaitSeqEvents[Peer(s)]) \subseteq DOMAIN P
  BY <1>9 DEF Got
<1>19. UnreadInv(s)'
  BY <1>7, <1>9, <1>10, <1>17 DEF SideInv, UnreadInv
<1>20. ReadInv(s)'
  BY <1>7, <1>9, <1>10, <1>17, <1>18 DEF SideInv, ReadInv
<1>. DEFINE LU == Loose(P, Ids(u))
            LUnew == Loose(R, Ids(mUnorderedSendEventQueue'[s]))
<1>21. LUnew \subseteq LU \union {e.id}
  BY <1>4, <1>9, <1>13 DEF Loose, Grown
<1>22. \A ids : ids \subseteq DOMAIN P /\ Below(Loose(P, ids), LU) => Below(Loose(P, ids), LUnew)
  <2>1. \A ids : ids \subseteq DOMAIN P => Loose(P, ids) \subseteq DOMAIN P
    BY DEF Loose
  <2>. QED
    BY <1>4, <1>21, <2>1 DEF Below
<1>23. LooseInv(s)'
  <2>1. /\ Below(Loose(P, Ids(processed[s])), LU)
        /\ \A p \in DOMAIN eventLists[s] :
             /\ Below(Loose(P, Pk(s, p)), LU)
             /\ StillReadable(s, p) => Below(Loose(P, Ids(processed[s])), Loose(P, Pk(s, p)))
             /\ \A r \in DOMAIN eventLists[s] : p < r => Below(Loose(P, Pk(s, p)), Loose(P, Pk(s, r)))
    BY DEF SideInv, LooseInv
  <2>2. /\ Loose(R, Ids(processed[s])) = Loose(P, Ids(processed[s]))
        /\ \A p \in DOMAIN eventLists[s] : Loose(R, Pk(s, p)) = Loose(P, Pk(s, p))
    BY <1>9, <1>17, <1>18
  <2>3. /\ Below(Loose(P, Ids(processed[s])), LUnew)
        /\ \A p \in DOMAIN eventLists[s] : Below(Loose(P, Pk(s, p)), LUnew)
    BY <1>9, <1>18, <1>22, <2>1
  <2>. HIDE DEF LUnew
  <2>4. /\ Below(Loose(R, Ids(processed[s])), LUnew)
        /\ \A p \in DOMAIN eventLists[s] :
             /\ Below(Loose(R, Pk(s, p)), LUnew)
             /\ StillReadable(s, p) => Below(Loose(R, Ids(processed[s])), Loose(R, Pk(s, p)))
             /\ \A r \in DOMAIN eventLists[s] : p < r => Below(Loose(R, Pk(s, p)), Loose(R, Pk(s, r)))
    BY <2>1, <2>2, <2>3
  <2>. QED
    BY <1>7, <1>10, <2>4 DEF LooseInv, LUnew
<1>24. SenderInv(s)'
  <2>. SUFFICES ASSUME open'[s] PROVE SenderInv(s)'
    BY DEF SenderInv
  <2>. DEFINE Q == Ids(q)
              U == Ids(u)
              Q2 == Ids(mSendEventQueue'[s])
              U2 == Ids(mUnorderedSendEventQueue'[s])
              N == Ids(mNotifyEventList[s])
              told == delivered[s] \union undelivered[s]
              pks == UNION {Pk(s, p) : p \in DOMAIN eventLists[s]}
  <2>1. /\ (Q \union U \union undelivered[s]) \intersect Got(s) = {}
        /\ delivered[s] \intersect undelivered[s] = {}
        /\ N \intersect Q = {} /\ (N \union Q \union U) \intersect told = {}
        /\ \A p \in DOMAIN eventLists[s] : Pk(s, p) \intersect (N \union Q \union U \union told) = {}
        /\ Q \union U \union N \union told \union pks = DOMAIN P
        /\ open[Peer(s)] => delivered[s] \subseteq Ids(processed[s])
    BY <1>7 DEF SideInv, SenderInv
  <2>2. /\ Q2 \subseteq Q \union {e.id} /\ U2 \subseteq U \union {e.id}
        /\ Q2 \union U2 = Q \union U \union {e.id}
    BY <1>13
  <2>3. told \subseteq DOMAIN P /\ N \subseteq DOMAIN P
    BY <2>1
  <2>. HIDE DEF Q, U, Q2, U2, N, told, pks
  <2>4. /\ (Q2 \union U2 \union undelivered[s]) \intersect Got(s) = {}
        /\ N \intersect Q2 = {} /\ (N \union Q2 \union U2) \intersect told = {}
    BY <1>4, <1>9, <2>1, <2>2, <2>3
  <2>5. \A p \in DOMAIN eventLists[s] : Pk(s, p) \intersect (N \union Q2 \union U2 \union told) = {}
    BY <1>4, <1>9, <2>1, <2>2
  <2>6. Q2 \union U2 \union N \union told \union pks = DOMAIN R
    BY <1>4, <2>1, <2>2
  <2>. QED
    BY <1>7, <1>10, <2>1, <2>4, <2>5, <2>6 DEF SenderInv, Q2, U2, N, told, pks
<1>. QED
  BY <1>6, <1>8, <1>11, <1>12, <1>15, <1>16, <1>19, <1>20, <1>23, <1>24 DEF SideInv

-----------------------------------------------------------------------------
(* writePacket.                                                            *)
LEMMA TakeBelowRest ==
  ASSUME NEW P, NEW S, NEW list \in Seq(S), NEW k \in 0 .. Len(list), UnorderedList(P, list)
  PROVE  Below(Loose(P, Ids(Take(list, k))), Loose(P, Ids(Rest(list, k))))
<1>. DEFINE t == Take(list, k)
            r == Rest(list, k)
<1>1. /\ Len(list) \in Nat /\ DOMAIN list = 1 .. Len(list)
      /\ DOMAIN t = 1 .. k /\ \A i \in 1 .. k : t[i] = list[i]
      /\ DOMAIN r = 1 .. Len(list) - k /\ \A i \in 1 .. Len(list) - k : r[i] = list[k + i]
  <2>1. Len(list) \in Nat /\ DOMAIN list = 1 .. Len(list)
    BY LenProperties
  <2>2. /\ DOMAIN t = 1 .. k /\ \A i \in 1 .. k : t[i] = list[i]
        /\ DOMAIN r = 1 .. Len(list) - k /\ \A i \in 1 .. Len(list) - k : r[i] = list[k + i]
    BY TakeRest
  <2>. QED
    BY <2>1, <2>2
<1>2. Mine(P, t) /\ Mine(P, r) /\ UnguaranteedUp(list)
  BY PartsRight DEF UnorderedList
<1>. HIDE DEF t, r
<1>3. ASSUME NEW x \in Loose(P, Ids(t)), NEW y \in Loose(P, Ids(r)) PROVE x < y
  <2>1. PICK i \in DOMAIN t : t[i] = P[x] /\ t[i].id = x
    BY <1>2, <1>3, IdOfMine DEF Loose
  <2>2. PICK j \in DOMAIN r : r[j] = P[y] /\ r[j].id = y
    BY <1>2, <1>3, IdOfMine DEF Loose
  <2>3. i \in DOMAIN list /\ k + j \in DOMAIN list /\ i < k + j /\ t[i] = list[i] /\ r[j] = list[k + j]
    BY <1>1, <2>1, <2>2
  <2>4. list[i].type = "Unguaranteed" /\ list[k + j].type = "Unguaranteed"
    BY <1>3, <2>1, <2>2, <2>3 DEF Loose
  <2>. QED
    BY <1>2, <2>1, <2>2, <2>3, <2>4 DEF UnguaranteedUp
<1>. QED
  BY <1>3 DEF Below, t, r

(* writePacket keeps the invariant.                                        *)
LEMMA WriteStep ==
  ASSUME NEW s \in Side, TypeOK, SideInv(s), WritePacket(s)
  PROVE  TypeOK' /\ SideInv(s)' /\ Quiet(Peer(s)) /\ SameLists(Peer(s))
<1>. DEFINE P == posted[s]
            q == mSendEventQueue[s]
            u == mUnorderedSendEventQueue[s]
            lists == eventLists[s]
            m == Len(lists) + 1
<1>1. PICK j \in 0 .. Len(u), k \in 0 .. Len(q) :
        /\ \A i \in 1 .. k : InEventWindow(s, q[i])
        /\ eventLists' = [eventLists EXCEPT ![s] = Append(@, Take(u, j) \o Take(q, k))]
        /\ mUnorderedSendEventQueue' = [mUnorderedSendEventQueue EXCEPT ![s] = Rest(@, j)]
        /\ mSendEventQueue' = [mSendEventQueue EXCEPT ![s] = Rest(@, k)]
  BY DEF WritePacket
<1>. DEFINE c == Take(u, j) \o Take(q, k)
            UT == Ids(Take(u, j))
            UR == Ids(Rest(u, j))
            QT == Ids(Take(q, k))
            QR == Ids(Rest(q, k))
            C == Ids(c)
<1>2. /\ open[s] /\ sent' = [sent EXCEPT ![s] = @ + 1]
      /\ UNCHANGED <<open, notified, confirmed, arrived>>
      /\ UNCHANGED <<mNextSendEventSeq, mLastAckedEventSeq, mNotifyEventList,
                     recvVars, toldVars, posted>>
  BY DEF WritePacket, Send
<1>3. /\ u \in Seq(UnorderedEvent) /\ q \in Seq(OrderedEvent) /\ lists \in Seq(Seq(Event))
      /\ Peer(s) \in Side /\ Peer(s) # s
      /\ sent[s] \in Nat /\ notified[s] \in Nat
  BY PeerSide DEF TypeOK, ChanTypeOK
<1>4. /\ Take(u, j) \in Seq(UnorderedEvent) /\ Rest(u, j) \in Seq(UnorderedEvent)
      /\ Take(q, k) \in Seq(OrderedEvent) /\ Rest(q, k) \in Seq(OrderedEvent)
      /\ \A i \in 1 .. k : Take(q, k)[i] = q[i]
      /\ DOMAIN Take(q, k) = 1 .. k
  <2>1. Take(u, j) \in Seq(UnorderedEvent) /\ Rest(u, j) \in Seq(UnorderedEvent)
    BY <1>3, TakeRest
  <2>2. /\ Take(q, k) \in Seq(OrderedEvent) /\ Rest(q, k) \in Seq(OrderedEvent)
        /\ \A i \in 1 .. k : Take(q, k)[i] = q[i]
        /\ DOMAIN Take(q, k) = 1 .. k
    BY <1>3, TakeRest
  <2>. QED
    BY <2>1, <2>2
<1>5. UnorderedList(P, u) /\ OrderedList(P, q)
  BY DEF SideInv, ListsInv
<1>6. /\ UnorderedList(P, Take(u, j)) /\ UnorderedList(P, Rest(u, j))
      /\ OrderedList(P, Take(q, k)) /\ OrderedList(P, Rest(q, k))
  BY <1>3, <1>5, PartsRight
<1>7. Ids(u) = UT \union UR /\ UT \intersect UR = {}
  BY <1>3, <1>5, IdsTakeRest DEF UnorderedList
<1>8. Ids(q) = QT \union QR /\ QT \intersect QR = {}
  <2>1. Distinct(q)
    BY <1>3, <1>5, SortedOnce DEF PacketList, UnorderedList
  <2>. QED
    BY <1>3, <2>1, IdsTakeRest
<1>9. c \in Seq(Event) /\ PacketList(P, c) /\ C = UT \union QT
  <2>. DEFINE tu == Take(u, j)
              tq == Take(q, k)
  <2>1. /\ c = tu \o tq /\ tu \in Seq(UnorderedEvent) /\ tq \in Seq(OrderedEvent)
        /\ UnorderedList(P, tu) /\ OrderedList(P, tq)
    BY <1>4, <1>6
  <2>. HIDE DEF c, tu, tq, P
  <2>2. c \in Seq(Event)
    BY <2>1, PacketMade
  <2>3. PacketList(P, c)
    BY <2>1, PacketMade
  <2>4. Ids(c) = Ids(tu) \union Ids(tq)
    BY <2>1, PacketMade
  <2>. QED
    BY <2>2, <2>3, <2>4 DEF c, tu, tq, P
<1>. HIDE DEF c
<1>10. /\ Append(lists, c) \in Seq(Seq(Event)) /\ Len(Append(lists, c)) = Len(lists) + 1
       /\ DOMAIN lists = 1 .. Len(lists) /\ Len(lists) \in Nat
       /\ DOMAIN Append(lists, c) = 1 .. Len(lists) + 1
       /\ \A p \in DOMAIN lists : Append(lists, c)[p] = lists[p]
       /\ Append(lists, c)[m] = c
  BY <1>3, <1>9, Appended
<1>11. /\ eventLists'[s] = Append(lists, c)
       /\ mUnorderedSendEventQueue'[s] = Rest(u, j) /\ mSendEventQueue'[s] = Rest(q, k)
       /\ sent'[s] = sent[s] + 1
  BY <1>1, <1>2 DEF TypeOK, ChanTypeOK, c
<1>12. TypeOK'
  <2>1. /\ eventLists' \in [Side -> Seq(Seq(Event))] /\ mSendEventQueue' \in [Side -> Seq(OrderedEvent)]
        /\ mUnorderedSendEventQueue' \in [Side -> Seq(UnorderedEvent)]
        /\ sent' \in [Side -> Nat]
    <3>1. eventLists' = [eventLists EXCEPT ![s] = Append(lists, c)]
      BY <1>1 DEF c
    <3>2. eventLists' \in [Side -> Seq(Seq(Event))]
      BY <1>10, <3>1 DEF TypeOK
    <3>3. /\ mSendEventQueue' \in [Side -> Seq(OrderedEvent)]
          /\ mUnorderedSendEventQueue' \in [Side -> Seq(UnorderedEvent)]
      BY <1>1, <1>4 DEF TypeOK
    <3>4. sent' \in [Side -> Nat]
      <4>1. sent \in [Side -> Nat]
        BY DEF TypeOK, ChanTypeOK
      <4>. QED
        BY <1>2, <1>3, <4>1
    <3>. QED
      BY <3>2, <3>3, <3>4
  <2>. QED
    BY <1>2, <2>1 DEF TypeOK, ChanTypeOK, recvVars, toldVars
<1>13. /\ posted' = posted /\ mNotifyEventList' = mNotifyEventList /\ processed' = processed
       /\ mWaitSeqEvents' = mWaitSeqEvents /\ open' = open /\ notified' = notified
       /\ arrived' = arrived /\ mLastAckedEventSeq' = mLastAckedEventSeq
       /\ mNextSendEventSeq' = mNextSendEventSeq
       /\ mNextRecvEventSeq' = mNextRecvEventSeq /\ delivered' = delivered /\ undelivered' = undelivered
  BY <1>2 DEF recvVars, toldVars
<1>14. Quiet(Peer(s)) /\ SameLists(Peer(s))
  <2>1. /\ eventLists'[Peer(s)] = eventLists[Peer(s)] /\ sent'[Peer(s)] = sent[Peer(s)]
        /\ mSendEventQueue'[Peer(s)] = mSendEventQueue[Peer(s)]
        /\ mUnorderedSendEventQueue'[Peer(s)] = mUnorderedSendEventQueue[Peer(s)]
    BY <1>1, <1>2, <1>3 DEF TypeOK, ChanTypeOK
  <2>. QED
    BY <1>13, <2>1 DEF Quiet, SameLists
<1>. HIDE DEF UT, UR, QT, QR, C
<1>. DEFINE pk(p) == Ids(lists[p])
            npk(p) == Ids(eventLists'[s][p])
<1>15. /\ Got(s)' = Got(s) /\ npk(m) = C
       /\ \A p \in DOMAIN lists : npk(p) = pk(p)
  BY <1>10, <1>11, <1>13 DEF Got, C
<1>16. DOMAIN eventLists'[s] = DOMAIN lists \union {m} /\ m \notin DOMAIN lists
       /\ \A p \in DOMAIN lists : p < m /\ ~(m < p)
  BY <1>10, <1>11
<1>17. ChannelInv(s)' /\ notified[s] + m \notin arrived[s]
  <2>1. /\ InitSeq[s] <= notified[s] /\ notified[s] <= sent[s] /\ Len(lists) = sent[s] - notified[s]
        /\ arrived[s] \subseteq InitSeq[s] + 1 .. sent[s]
    BY DEF SideInv, ChannelInv
  <2>2. InitSeq[s] \in Nat
    BY InitSeqAssumption
  <2>3. Len(eventLists'[s]) = sent'[s] - notified[s] /\ notified[s] <= sent'[s]
    BY <1>3, <1>10, <1>11, <2>1
  <2>4. arrived[s] \subseteq InitSeq[s] + 1 .. sent'[s]
    BY <1>3, <1>11, <2>1, <2>2
  <2>5. notified[s] + m = sent[s] + 1
    BY <1>3, <2>1
  <2>6. notified[s] + m \notin arrived[s]
    BY <1>3, <2>1, <2>2, <2>5
  <2>. QED
    BY <1>13, <2>1, <2>3, <2>4, <2>6 DEF ChannelInv
<1>18. PostedInv(s)' /\ InOrderFrom(posted[s], processed[s], 0)'
  BY <1>13 DEF SideInv, PostedInv
<1>19. ListsInv(s)'
  <2>1. \A p \in DOMAIN eventLists'[s] : PacketList(P, eventLists'[s][p])
    BY <1>9, <1>10, <1>11, <1>16 DEF SideInv, ListsInv
  <2>. QED
    BY <1>6, <1>11, <1>13, <2>1 DEF SideInv, ListsInv
<1>20. /\ (UT \union UR \union QT \union QR \union undelivered[s]) \intersect Got(s) = {}
       /\ delivered[s] \intersect undelivered[s] = {}
       /\ Ids(mNotifyEventList[s]) \intersect (QT \union QR) = {}
       /\ (Ids(mNotifyEventList[s]) \union UT \union UR \union QT \union QR)
            \intersect (delivered[s] \union undelivered[s]) = {}
       /\ \A p \in DOMAIN lists :
            pk(p) \intersect (Ids(mNotifyEventList[s]) \union UT \union UR \union QT \union QR
                                   \union delivered[s] \union undelivered[s]) = {}
       /\ UT \union UR \union QT \union QR \union Ids(mNotifyEventList[s]) \union delivered[s]
            \union undelivered[s] \union UNION {pk(p) : p \in DOMAIN lists} = DOMAIN P
       /\ open[Peer(s)] => delivered[s] \subseteq Ids(processed[s])
  BY <1>2, <1>7, <1>8 DEF SideInv, SenderInv, Pk
<1>21. PacketsApart(s)'
  <2>1. \A p, r \in DOMAIN lists : p # r => pk(p) \intersect pk(r) = {}
    BY DEF SideInv, PacketsApart, Pk
  <2>2. \A p \in DOMAIN lists : pk(p) \intersect C = {}
    BY <1>9, <1>20
  <2>. QED
    BY <1>15, <1>16, <2>1, <2>2 DEF PacketsApart, Pk
<1>22. Strict(P, UT) = {} /\ Loose(P, QT) = {} /\ Strict(P, QT) = QT
  BY <1>4, <1>6, UnorderedIds, OrderedIds DEF UnorderedList, OrderedList, UT, QT
<1>23. \A x \in Seqs(P, C) : x <= mLastAckedEventSeq[s] + EventWindow
  <2>. SUFFICES ASSUME NEW x \in Seqs(P, C) PROVE x <= mLastAckedEventSeq[s] + EventWindow
    OBVIOUS
  <2>1. PICK y \in Strict(P, C) : x = P[y].mSeqCount
    BY DEF Seqs
  <2>2. y \in QT
    BY <1>9, <1>22, <2>1 DEF Strict
  <2>3. PICK i \in 1 .. k : Take(q, k)[i] = P[y]
    BY <1>4, <1>6, <2>2, IdOfMine DEF OrderedList, QT
  <2>. QED
    BY <1>1, <1>4, <2>1, <2>3 DEF InEventWindow
<1>24. UnreadInv(s)'
  <2>1. C \intersect Got(s) = {}
    BY <1>9, <1>20
  <2>2. \A p \in DOMAIN eventLists'[s] : notified[s] + p \notin arrived[s] =>
          /\ npk(p) \intersect Got(s) = {}
          /\ \A x \in Seqs(P, npk(p)) : x <= mLastAckedEventSeq[s] + EventWindow
    BY <1>15, <1>16, <1>23, <2>1 DEF SideInv, UnreadInv, Pk, HasArrived
  <2>. QED
    BY <1>13, <1>15, <2>2 DEF UnreadInv, Pk, HasArrived
<1>25. LooseInv(s)'
  <2>. DEFINE L(ids) == Loose(P, ids)
              D == Ids(processed[s])
              still(p) == \A n \in arrived[s] : n < notified[s] + p
  <2>1. L(C) \subseteq L(UT \union UR) /\ L(UR) \subseteq L(UT \union UR) /\ L(C) \subseteq L(UT)
    BY <1>9, <1>22 DEF Loose
  <2>2. Below(L(UT), L(UR))
    BY <1>3, <1>5, TakeBelowRest DEF UT, UR
  <2>3. /\ Below(L(D), L(UT \union UR))
        /\ \A p \in DOMAIN lists :
             /\ Below(L(pk(p)), L(UT \union UR))
             /\ still(p) => Below(L(D), L(pk(p)))
             /\ \A r \in DOMAIN lists : p < r => Below(L(pk(p)), L(pk(r)))
    BY <1>7 DEF SideInv, LooseInv, Pk, StillReadable
  <2>. HIDE DEF L, D
  <2>4. Below(L(D), L(UR)) /\ Below(L(C), L(UR)) /\ Below(L(D), L(C))
    BY <2>1, <2>2, <2>3 DEF Below
  <2>5. \A p \in DOMAIN lists : Below(L(pk(p)), L(UR)) /\ Below(L(pk(p)), L(C))
    BY <2>1, <2>3 DEF Below
  <2>6. \A p \in DOMAIN eventLists'[s] :
             /\ Below(L(npk(p)), L(UR))
             /\ still(p) => Below(L(D), L(npk(p)))
             /\ \A r \in DOMAIN eventLists'[s] : p < r => Below(L(npk(p)), L(npk(r)))
    BY <1>15, <1>16, <2>3, <2>4, <2>5
  <2>. QED
    BY <1>11, <1>13, <1>15, <2>4, <2>6 DEF LooseInv, Pk, StillReadable, L, D, UR
<1>26. ReadInv(s)'
  <2>1. \A p \in DOMAIN eventLists'[s] : notified[s] + p \in arrived[s] => p \in DOMAIN lists
    BY <1>16, <1>17
  <2>. QED
    BY <1>13, <1>15, <2>1 DEF SideInv, ReadInv, Pk, HasArrived
<1>27. SenderInv(s)'
  <2>. DEFINE N == Ids(mNotifyEventList[s])
              dl == delivered[s]
              ul == undelivered[s]
              pks == UNION {pk(p) : p \in DOMAIN lists}
  <2>1. UNION {npk(p) : p \in DOMAIN eventLists'[s]} = pks \union C
    BY <1>15, <1>16
  <2>2. UR \intersect C = {} /\ QR \intersect C = {}
    <3>1. UT \intersect QR = {} /\ UR \intersect QT = {}
      <4>1. Strict(P, UT \union UR) = {}
        BY <1>3, <1>5, <1>7, UnorderedIds DEF UnorderedList
      <4>2. Strict(P, QT \union QR) = QT \union QR
        BY <1>3, <1>5, <1>8, OrderedIds DEF OrderedList
      <4>. QED
        BY <4>1, <4>2 DEF Strict
    <3>. QED
      BY <1>7, <1>8, <1>9, <3>1
  <2>. HIDE DEF N, dl, ul, pks
  <2>3. /\ (QR \union UR \union ul) \intersect Got(s) = {}
        /\ N \intersect QR = {} /\ (N \union QR \union UR) \intersect (dl \union ul) = {}
        /\ QR \union UR \union N \union (dl \union ul) \union (pks \union C) = DOMAIN P
    BY <1>9, <1>20 DEF N, dl, ul, pks
  <2>4. C \intersect (N \union QR \union UR \union (dl \union ul)) = {}
    <3>1. N \intersect UT = {}
      <4>1. Strict(P, N) = N
        BY OrderedIds DEF SideInv, ListsInv, OrderedList, TypeOK, N
      <4>. QED
        BY <1>22, <4>1 DEF Strict
    <3>. QED
      BY <1>9, <1>20, <2>2, <3>1 DEF N, dl, ul
  <2>5. \A p \in DOMAIN eventLists'[s] : npk(p) \intersect (N \union QR \union UR \union (dl \union ul)) = {}
    BY <1>15, <1>16, <1>20, <2>4 DEF N, dl, ul
  <2>. QED
    BY <1>11, <1>13, <1>15, <1>20, <2>1, <2>3, <2>5 DEF SenderInv, Pk, N, dl, ul, QR, UR
<1>. QED
  BY <1>12, <1>14, <1>17, <1>18, <1>19, <1>21, <1>24, <1>25, <1>26, <1>27 DEF SideInv

-----------------------------------------------------------------------------
(* readPacket.                                                             *)
\* The peer reads packet n of s, and processes the events of y.
IsRead(s, n, y) ==
  LET P == posted[s]
      r == Peer(s)
      A == Ids(eventLists[s][n - notified[s]])
      old == Ids(mWaitSeqEvents[r]) \union A
      next == mNextRecvEventSeq[r]
  IN
  /\ open[r] /\ n \in Unnotified(s) /\ \A m \in arrived[s] : m < n
  /\ processed'[s] = processed[s] \o y /\ y \in Seq(Event) /\ UnorderedList(P, y)
  /\ Ids(y) \subseteq old /\ Loose(P, Ids(y)) \subseteq Loose(P, A)
  /\ InOrderFrom(P, y, next) /\ \E b \in Nat : next <= b /\ Seqs(P, Ids(y)) \subseteq next .. b
  /\ OrderedList(P, mWaitSeqEvents'[r]) /\ Ids(mWaitSeqEvents'[r]) \subseteq old
  /\ arrived'[s] = arrived[s] \union {n}
SameSender(s) ==
  /\ posted'[s] = posted[s] /\ eventLists'[s] = eventLists[s]
  /\ sent'[s] = sent[s] /\ notified'[s] = notified[s]
  /\ mNextSendEventSeq'[s] = mNextSendEventSeq[s]
  /\ mLastAckedEventSeq'[s] = mLastAckedEventSeq[s]
  /\ mSendEventQueue'[s] = mSendEventQueue[s]
  /\ mUnorderedSendEventQueue'[s] = mUnorderedSendEventQueue[s]
  /\ mNotifyEventList'[s] = mNotifyEventList[s]
  /\ delivered'[s] = delivered[s] /\ undelivered'[s] = undelivered[s]
  /\ open'[s] = open[s]

\* Packet n is the one with index p in eventLists, and has not been read.
LEMMA PacketOf ==
  ASSUME NEW s \in Side, TypeOK, SideInv(s), NEW n \in Unnotified(s), \A m \in arrived[s] : m < n,
         NEW p, p = n - notified[s]
  PROVE  /\ p \in DOMAIN eventLists[s] /\ n \in Int /\ n = notified[s] + p
         /\ ~HasArrived(s, p) /\ StillReadable(s, p)
         /\ eventLists[s][p] \in Seq(Event)
<1>1. /\ eventLists[s] \in Seq(Seq(Event)) /\ notified[s] \in Nat /\ sent[s] \in Nat
      /\ Len(eventLists[s]) = sent[s] - notified[s]
  BY DEF TypeOK, ChanTypeOK, SideInv, ChannelInv
<1>2. n \in Int /\ notified[s] + 1 <= n /\ n <= sent[s]
  BY <1>1 DEF Unnotified
<1>3. DOMAIN eventLists[s] = 1 .. Len(eventLists[s])
  BY <1>1, LenProperties
<1>4. p \in DOMAIN eventLists[s] /\ n = notified[s] + p
  BY <1>1, <1>2, <1>3
<1>5. eventLists[s][p] \in Seq(Event)
  BY <1>1, <1>3, <1>4, ElementOfSeq
<1>6. ~HasArrived(s, p) /\ StillReadable(s, p)
  BY <1>2, <1>4 DEF HasArrived, StillReadable
<1>. QED
  BY <1>2, <1>4, <1>5, <1>6

\* The 7 bits are enough: what is read is right.
LEMMA EventsRead ==
  ASSUME NEW s \in Side, TypeOK, SideInv(s), open[Peer(s)],
         NEW n \in Unnotified(s), \A m \in arrived[s] : m < n,
         NEW events, events = eventLists[s][n - notified[s]],
         NEW x, x = ReadEvents(Peer(s), events)
  PROVE  ReadOK(posted[s], x, Ids(mWaitSeqEvents[Peer(s)]), Ids(events), mNextRecvEventSeq[Peer(s)])
<1>. DEFINE r == Peer(s)
            p == n - notified[s]
            P == posted[s]
            next == mNextRecvEventSeq[r]
            wait == mWaitSeqEvents[r]
            D == Ids(processed[s])
            acked == mLastAckedEventSeq[s]
<1>1. /\ p \in DOMAIN eventLists[s] /\ ~HasArrived(s, p) /\ StillReadable(s, p) /\ events \in Seq(Event)
  BY PacketOf
<1>2. /\ r \in Side /\ next \in Nat /\ wait \in Seq(OrderedEvent) /\ P \in Seq(Event) /\ acked \in Int
  <2>1. r \in Side
    BY PeerSide
  <2>2. next \in Nat /\ wait \in Seq(OrderedEvent) /\ P \in Seq(Event) /\ acked \in Nat \union {-1}
    BY <2>1 DEF TypeOK
  <2>. QED
    BY <2>1, <2>2
<1>3. PacketList(P, events) /\ OrderedList(P, wait)
  BY <1>1 DEF SideInv, ListsInv
<1>4. SeqsDiffer(P)
  BY <1>2, PostedDiffer DEF SideInv
<1>5. /\ Ids(events) \intersect (D \union Ids(wait)) = {}
      /\ \A y \in Seqs(P, Ids(events)) : y <= acked + EventWindow
  BY <1>1 DEF SideInv, UnreadInv, Pk, Got
<1>6. /\ Seqs(P, D) = 0 .. next - 1 /\ acked < next
      /\ Below({next}, Seqs(P, Ids(wait)))
  BY DEF SideInv, ReadInv
<1>7. /\ EventSpace \in Nat /\ EventWindow \in Nat /\ EventWindow <= EventSpace
  BY EventConstants DEF EventAssumption
<1>8. /\ Mine(P, events) /\ Mine(P, processed[s]) /\ \A i \in DOMAIN P : P[i] \in Event
  BY <1>2, <1>3, LenProperties, ElementOfSeq
  DEF SideInv, ListsInv, UnorderedList, PacketList
<1>. HIDE DEF r, p, P, next, wait, D, acked
<1>9. ASSUME NEW id \in Strict(P, Ids(events))
      PROVE  P[id].mSeqCount \in Nat /\ next <= P[id].mSeqCount /\ P[id].mSeqCount < next + EventSpace
  <2>1. id \in DOMAIN P /\ id \in Ids(events) /\ IsOrdered(P[id])
    BY <1>8, IdOfMine DEF Strict
  <2>2. P[id].mSeqCount \in Nat
    BY <1>8, <2>1 DEF Event, OrderedEvent, UnorderedEvent, IsOrdered
  <2>3. P[id].mSeqCount <= acked + EventWindow
    BY <1>5 DEF Seqs
  <2>4. P[id].mSeqCount < next + EventSpace
    BY <1>2, <1>6, <1>7, <2>2, <2>3
  <2>5. P[id].mSeqCount \notin 0 .. next - 1
    <3>. SUFFICES ASSUME P[id].mSeqCount \in Seqs(P, D) PROVE FALSE
      BY <1>6
    <3>1. PICK y \in Strict(P, D) : P[id].mSeqCount = P[y].mSeqCount
      BY DEF Seqs
    <3>2. y \in DOMAIN P /\ IsOrdered(P[y]) /\ y \in D
      BY <1>8, IdOfMine DEF Strict, D
    <3>3. y = id
      BY <1>4, <2>1, <3>1, <3>2 DEF SeqsDiffer
    <3>. QED
      BY <1>5, <2>1, <3>2, <3>3
  <2>. QED
    BY <1>2, <2>2, <2>4, <2>5
<1>10. \A y \in Seqs(P, Ids(wait)) \union Seqs(P, Ids(events)) : next <= y
  <2>1. \A y \in Seqs(P, Ids(events)) : next <= y
    BY <1>9 DEF Seqs
  <2>2. \A y \in Seqs(P, Ids(wait)) : next < y
    BY <1>6 DEF Below
  <2>3. \A y \in Seqs(P, Ids(wait)) : y \in Nat
    <3>1. \A id \in Strict(P, Ids(wait)) : P[id].mSeqCount \in Nat
      <4>. SUFFICES ASSUME NEW id \in Strict(P, Ids(wait)) PROVE P[id].mSeqCount \in Nat
        OBVIOUS
      <4>1. id \in DOMAIN P /\ IsOrdered(P[id])
        BY <1>3, IdOfMine DEF Strict, OrderedList
      <4>. QED
        BY <1>8, <4>1 DEF Event, OrderedEvent, UnorderedEvent, IsOrdered
    <3>. QED
      BY <3>1 DEF Seqs
  <2>. QED
    BY <1>2, <2>1, <2>2, <2>3
<1>11. \A i \in DOMAIN events : IsOrdered(events[i]) =>
         next <= events[i].mSeqCount /\ events[i].mSeqCount < next + EventSpace
  <2>. SUFFICES ASSUME NEW i \in DOMAIN events, IsOrdered(events[i])
       PROVE next <= events[i].mSeqCount /\ events[i].mSeqCount < next + EventSpace
    OBVIOUS
  <2>1. events[i] = P[events[i].id] /\ events[i].id \in Ids(events)
    BY <1>8, IdsElt DEF Mine
  <2>2. events[i].id \in Strict(P, Ids(events))
    BY <2>1 DEF Strict
  <2>. QED
    BY <1>9, <2>1, <2>2
<1>12. Numbered(r, events) = events
  BY <1>1, <1>2, <1>11, NumberedRight DEF next
<1>13. Ids(wait) \intersect Ids(events) = {}
  BY <1>5
<1>14. ReadOK(P, x, Ids(wait), Ids(events), next)
  BY <1>1, <1>2, <1>3, <1>4, <1>10, <1>12, <1>13, ReadRight DEF r, wait, next
<1>. QED
  BY <1>14 DEF r, wait, next, P

(* A packet that is read, all of it or in part, keeps what the invariant   *)
(* says of everything but its receiver.                                    *)
LEMMA ReadKeeps ==
  ASSUME NEW s \in Side, TypeOK, SideInv(s), NEW n, NEW y, IsRead(s, n, y), SameSender(s)
  PROVE  /\ ChannelInv(s)' /\ PostedInv(s)' /\ ListsInv(s)'
         /\ InOrderFrom(posted[s], processed[s], 0)'
         /\ PacketsApart(s)' /\ UnreadInv(s)' /\ LooseInv(s)' /\ SenderInv(s)'
<1>. DEFINE r == Peer(s)
            p == n - notified[s]
            P == posted[s]
            lists == eventLists[s]
            A == Ids(lists[p])
            D == Ids(processed[s])
            D2 == Ids(processed'[s])
            W == Ids(mWaitSeqEvents[r])
            W2 == Ids(mWaitSeqEvents'[r])
            X == Ids(y)
            next == mNextRecvEventSeq[r]
            pk(i) == Ids(lists[i])
            still(i) == \A m \in arrived[s] : m < notified[s] + i
<1>1. /\ open[r] /\ n \in Unnotified(s) /\ \A m \in arrived[s] : m < n
      /\ processed'[s] = processed[s] \o y /\ y \in Seq(Event) /\ UnorderedList(P, y)
      /\ X \subseteq W \union A /\ Loose(P, X) \subseteq Loose(P, A)
      /\ InOrderFrom(P, y, next) /\ \E b \in Nat : next <= b /\ Seqs(P, X) \subseteq next .. b
      /\ OrderedList(P, mWaitSeqEvents'[r]) /\ W2 \subseteq W \union A
      /\ arrived'[s] = arrived[s] \union {n}
  BY DEF IsRead
<1>2. /\ p \in DOMAIN lists /\ n \in Int /\ n = notified[s] + p
      /\ ~HasArrived(s, p) /\ StillReadable(s, p) /\ lists[p] \in Seq(Event)
  BY <1>1, PacketOf
<1>3. r \in Side
  BY PeerSide
<1>4. /\ processed[s] \in Seq(Event) /\ next \in Nat /\ notified[s] \in Nat /\ sent[s] \in Nat
      /\ lists \in Seq(Seq(Event))
  BY <1>3 DEF TypeOK, ChanTypeOK
<1>5. DOMAIN lists \subseteq Nat
  BY <1>4, LenProperties
<1>6. UnorderedList(P, processed[s]) /\ Mine(P, processed[s]) /\ Mine(P, y)
  BY <1>1 DEF SideInv, ListsInv, UnorderedList
<1>7. /\ D \intersect W = {} /\ Seqs(P, D) = 0 .. next - 1
  BY <1>1 DEF SideInv, ReadInv
<1>8. A \intersect (D \union W) = {}
  BY <1>2 DEF SideInv, UnreadInv, Pk, Got
<1>9. \A i, j \in DOMAIN lists : i # j => pk(i) \intersect pk(j) = {}
  BY DEF SideInv, PacketsApart, Pk
<1>10. /\ Below(Loose(P, D), Loose(P, Ids(mUnorderedSendEventQueue[s])))
       /\ \A i \in DOMAIN lists :
            /\ Below(Loose(P, pk(i)), Loose(P, Ids(mUnorderedSendEventQueue[s])))
            /\ still(i) => Below(Loose(P, D), Loose(P, pk(i)))
            /\ \A j \in DOMAIN lists : i < j => Below(Loose(P, pk(i)), Loose(P, pk(j)))
  BY DEF SideInv, LooseInv, Pk, StillReadable
<1>11. D2 = D \union X
  BY <1>1, <1>4, IdsJoined
<1>12. Got(s) = D \union W /\ Got(s)' = D2 \union W2
  BY DEF SameSender, Got
<1>13. Loose(P, D2) = Loose(P, D) \union Loose(P, X)
  BY <1>11, LooseUnion
<1>14. still(p)
  BY <1>2 DEF StillReadable
<1>15. posted'[s] = P /\ eventLists'[s] = lists /\ notified'[s] = notified[s]
  BY DEF SameSender
<1>16. ChannelInv(s)' /\ PostedInv(s)'
  <2>1. n \in InitSeq[s] + 1 .. sent[s]
    <3>1. InitSeq[s] \in Nat /\ InitSeq[s] <= notified[s] /\ n \in notified[s] + 1 .. sent[s]
      BY <1>1, InitSeqAssumption DEF SideInv, ChannelInv, Unnotified
    <3>. QED
      BY <1>4, <3>1
  <2>. QED
    BY <1>1, <2>1 DEF SideInv, ChannelInv, PostedInv, SameSender
<1>17. UnorderedList(P, processed'[s])
  <2>1. D \intersect X = {}
    BY <1>1, <1>7, <1>8
  <2>2. Below(Loose(P, D), Loose(P, X))
    BY <1>1, <1>2, <1>10, <1>14 DEF Below
  <2>. QED
    BY <1>1, <1>4, <1>6, <2>1, <2>2, JoinUnordered
<1>18. ListsInv(s)'
  BY <1>1, <1>17 DEF SideInv, ListsInv, SameSender
<1>19. InOrderFrom(P, processed'[s], 0)
  <2>1. PICK b \in Nat : next <= b /\ Seqs(P, X) \subseteq next .. b
    BY <1>1
  <2>2. InOrderFrom(P, processed[s], 0)
    BY DEF SideInv
  <2>3. 0 \in Nat /\ 0 <= next
    BY <1>4
  <2>. QED
    BY <1>1, <1>4, <1>6, <1>7, <2>1, <2>2, <2>3, JoinInOrder
<1>20. InOrderFrom(posted[s], processed[s], 0)'
  BY <1>15, <1>19
<1>21. PacketsApart(s)'
  BY <1>9, <1>15 DEF PacketsApart, Pk
<1>. HIDE DEF A, D, D2, W, W2, X, next
<1>22. D2 \union W2 \subseteq Got(s) \union A
  BY <1>1, <1>11, <1>12
<1>23. UnreadInv(s)'
  <2>. SUFFICES ASSUME NEW i \in DOMAIN lists, notified[s] + i \notin arrived'[s]
       PROVE /\ pk(i) \intersect (D2 \union W2) = {}
             /\ \A x \in Seqs(P, pk(i)) : x <= mLastAckedEventSeq[s] + EventWindow
    BY <1>12, <1>15 DEF UnreadInv, Pk, HasArrived, SameSender
  <2>1. notified[s] + i \notin arrived[s] /\ i # p
    BY <1>1, <1>2
  <2>2. /\ pk(i) \intersect Got(s) = {}
        /\ \A x \in Seqs(P, pk(i)) : x <= mLastAckedEventSeq[s] + EventWindow
    BY <2>1 DEF SideInv, UnreadInv, Pk, HasArrived
  <2>3. pk(i) \intersect A = {}
    BY <1>2, <1>9, <2>1 DEF A
  <2>. QED
    BY <1>22, <2>2, <2>3
<1>24. LooseInv(s)'
  <2>. DEFINE LU == Loose(P, Ids(mUnorderedSendEventQueue[s]))
              L(ids) == Loose(P, ids)
              still2(i) == \A m \in arrived'[s] : m < notified[s] + i
  <2>1. L(X) \subseteq L(A) /\ L(D2) = L(D) \union L(X)
    BY <1>1, <1>13
  <2>2. Below(L(D), LU) /\ Below(L(A), LU)
    BY <1>2, <1>10 DEF A
  <2>. HIDE DEF LU, L
  <2>3. Below(L(D2), LU)
    BY <2>1, <2>2 DEF Below
  <2>4. ASSUME NEW i \in DOMAIN lists, still2(i) PROVE Below(L(D2), L(pk(i)))
    <3>1. still(i) /\ p < i
      <4>1. n < notified[s] + i /\ still(i)
        BY <1>1, <2>4
      <4>. QED
        BY <1>2, <1>4, <1>5, <4>1
    <3>2. Below(L(D), L(pk(i))) /\ Below(L(A), L(pk(i)))
      BY <1>2, <1>10, <3>1 DEF A, L
    <3>. QED
      BY <2>1, <3>2 DEF Below
  <2>. QED
    BY <1>10, <1>15, <2>3, <2>4 DEF LooseInv, Pk, StillReadable, SameSender, L, LU, D2
<1>25. SenderInv(s)'
  <2>. DEFINE Q == Ids(mSendEventQueue[s])
              U == Ids(mUnorderedSendEventQueue[s])
              N == Ids(mNotifyEventList[s])
              told == delivered[s] \union undelivered[s]
  <2>. SUFFICES ASSUME open[s] PROVE SenderInv(s)'
    BY DEF SenderInv, SameSender
  <2>1. /\ (Q \union U \union undelivered[s]) \intersect Got(s) = {}
        /\ delivered[s] \intersect undelivered[s] = {}
        /\ N \intersect Q = {} /\ (N \union Q \union U) \intersect told = {}
        /\ \A i \in DOMAIN lists : pk(i) \intersect (N \union Q \union U \union told) = {}
        /\ Q \union U \union N \union told \union UNION {pk(i) : i \in DOMAIN lists} = DOMAIN P
        /\ delivered[s] \subseteq D
    BY <1>1 DEF SideInv, SenderInv, Pk, D
  <2>2. A \intersect (Q \union U \union undelivered[s]) = {}
    BY <1>2, <2>1 DEF A
  <2>. HIDE DEF Q, U
  <2>3. (Q \union U \union undelivered[s]) \intersect (D2 \union W2) = {}
    BY <1>22, <2>1, <2>2
  <2>4. delivered[s] \subseteq D2
    BY <1>11, <2>1
  <2>. QED
    BY <1>12, <1>15, <2>1, <2>3, <2>4 DEF SenderInv, Pk, SameSender, Q, U, D2
<1>. QED
  BY <1>16, <1>18, <1>20, <1>21, <1>23, <1>24, <1>25

(* readPacket keeps the invariant.                                         *)
LEMMA ReadStep ==
  ASSUME NEW r \in Side, TypeOK, SideInv(Peer(r)), ReadPacket(r)
  PROVE  TypeOK' /\ SideInv(Peer(r))' /\ Quiet(r) /\ SameLists(r)
<1>. DEFINE s == Peer(r)
            P == posted[s]
            lists == eventLists[s]
            W == Ids(mWaitSeqEvents[r])
            D == Ids(processed[s])
            next == mNextRecvEventSeq[r]
<1>0. PICK n \in Unnotified(s) :
        /\ Arrives(r, n)
        /\ LET x == ReadEvents(r, lists[n - notified[s]]) IN
           /\ processed' = [processed EXCEPT ![s] = @ \o x.processed]
           /\ mWaitSeqEvents' = [mWaitSeqEvents EXCEPT ![r] = x.waiting]
           /\ mNextRecvEventSeq' = [mNextRecvEventSeq EXCEPT ![r] = x.next]
        /\ UNCHANGED <<open, sent, notified, confirmed, sendVars, toldVars, posted>>
  BY DEF ReadPacket
<1>1. PICK x :
        /\ x = ReadEvents(r, lists[n - notified[s]])
        /\ Arrives(r, n)
        /\ processed' = [processed EXCEPT ![s] = @ \o x.processed]
        /\ mWaitSeqEvents' = [mWaitSeqEvents EXCEPT ![r] = x.waiting]
        /\ mNextRecvEventSeq' = [mNextRecvEventSeq EXCEPT ![r] = x.next]
        /\ UNCHANGED <<open, sent, notified, confirmed, sendVars, toldVars, posted>>
  BY <1>0
<1>2. /\ n \in Unnotified(s) /\ open[r] /\ (\A m \in arrived[s] : m < n)
      /\ arrived' = [arrived EXCEPT ![s] = @ \union {n}]
  BY <1>1 DEF Arrives, Readable
<1>3. s \in Side /\ Peer(s) = r /\ r # s
  BY PeerSide
<1>. DEFINE p == n - notified[s]
            A == Ids(lists[p])
<1>4. /\ p \in DOMAIN lists /\ n \in Int /\ n = notified[s] + p
      /\ ~HasArrived(s, p) /\ StillReadable(s, p) /\ lists[p] \in Seq(Event)
  BY <1>2, <1>3, PacketOf
<1>5. ReadOK(P, x, W, A, next)
  <2>. DEFINE events == lists[p]
  <2>1. events = lists[p] /\ x = ReadEvents(r, events)
    BY <1>1
  <2>. HIDE DEF events
  <2>2. ReadOK(P, x, W, Ids(events), next)
    BY <1>2, <1>3, <2>1, EventsRead
  <2>. QED
    BY <2>2 DEF events
<1>6. /\ x.processed \in Seq(Event) /\ UnorderedList(P, x.processed)
      /\ x.waiting \in Seq(OrderedEvent) /\ OrderedList(P, x.waiting)
      /\ x.next \in Nat /\ x.next >= next
      /\ Ids(x.processed) \union Ids(x.waiting) = W \union A
      /\ Ids(x.processed) \intersect Ids(x.waiting) = {}
      /\ Loose(P, Ids(x.processed)) = Loose(P, A)
      /\ A \ Ids(x.processed) \subseteq Strict(P, A)
      /\ Seqs(P, Ids(x.processed)) = next .. x.next - 1
      /\ InOrderFrom(P, x.processed, next)
      /\ Below({x.next}, Seqs(P, Ids(x.waiting)))
  BY <1>5 DEF ReadOK
<1>7. /\ posted' = posted /\ eventLists' = eventLists /\ sent' = sent /\ notified' = notified
      /\ mNextSendEventSeq' = mNextSendEventSeq /\ mLastAckedEventSeq' = mLastAckedEventSeq
      /\ mSendEventQueue' = mSendEventQueue
      /\ mUnorderedSendEventQueue' = mUnorderedSendEventQueue
      /\ mNotifyEventList' = mNotifyEventList
      /\ delivered' = delivered /\ undelivered' = undelivered /\ open' = open /\ confirmed' = confirmed
  BY <1>1 DEF sendVars, toldVars
<1>8. /\ processed \in [Side -> Seq(Event)] /\ mWaitSeqEvents \in [Side -> Seq(OrderedEvent)]
      /\ mNextRecvEventSeq \in [Side -> Nat] /\ arrived \in [Side -> SUBSET Nat]
      /\ notified \in [Side -> Nat]
  BY DEF TypeOK, ChanTypeOK
<1>9. /\ processed'[s] = processed[s] \o x.processed /\ processed'[r] = processed[r]
      /\ mWaitSeqEvents'[r] = x.waiting /\ mWaitSeqEvents'[s] = mWaitSeqEvents[s]
      /\ mNextRecvEventSeq'[r] = x.next /\ mNextRecvEventSeq'[s] = mNextRecvEventSeq[s]
      /\ arrived'[s] = arrived[s] \union {n} /\ arrived'[r] = arrived[r]
  BY <1>1, <1>2, <1>3, <1>8
<1>10. Quiet(r) /\ SameLists(r)
  BY <1>3, <1>7, <1>9 DEF Quiet, SameLists
<1>11. processed[s] \in Seq(Event) /\ processed[s] \o x.processed \in Seq(Event)
  BY <1>3, <1>6, <1>8, Joined
<1>12. n \in Nat
  <2>1. notified[s] \in Nat /\ sent[s] \in Nat
    BY <1>3 DEF TypeOK, ChanTypeOK
  <2>. QED
    BY <1>1, <2>1 DEF Unnotified
<1>13. TypeOK'
  <2>1. /\ processed' \in [Side -> Seq(Event)] /\ mWaitSeqEvents' \in [Side -> Seq(OrderedEvent)]
        /\ mNextRecvEventSeq' \in [Side -> Nat]
    BY <1>1, <1>6, <1>8, <1>11
  <2>2. arrived' \in [Side -> SUBSET Nat]
    BY <1>2, <1>3, <1>8, <1>12
  <2>3. ChanTypeOK'
    BY <1>7, <2>2 DEF TypeOK, ChanTypeOK
  <2>. QED
    BY <1>7, <2>1, <2>3 DEF TypeOK
<1>14. SameSender(s)
  BY <1>7 DEF SameSender
<1>. DEFINE X == Ids(x.processed)
            W2 == Ids(x.waiting)
<1>15. next \in Nat /\ x.next \in Nat /\ next <= x.next /\ next .. x.next - 1 \subseteq next .. x.next
  BY <1>6, <1>8
<1>16. IsRead(s, n, x.processed)
  <2>1. \E b \in Nat : next <= b /\ Seqs(P, X) \subseteq next .. b
    BY <1>6, <1>15
  <2>2. X \subseteq W \union A /\ W2 \subseteq W \union A /\ Loose(P, X) \subseteq Loose(P, A)
    BY <1>6
  <2>3. Ids(x.processed) \subseteq W \union A /\ Ids(mWaitSeqEvents'[r]) \subseteq W \union A
    BY <1>9, <2>2
  <2>4. /\ open[r] /\ n \in Unnotified(s) /\ \A m \in arrived[s] : m < n
        /\ arrived'[s] = arrived[s] \union {n}
    BY <1>2, <1>3, <1>9
  <2>. HIDE DEF X, W2
  <2>. QED
    BY <1>3, <1>6, <1>9, <2>1, <2>2, <2>3, <2>4 DEF IsRead, X
<1>17. /\ ChannelInv(s)' /\ PostedInv(s)' /\ ListsInv(s)'
       /\ InOrderFrom(posted[s], processed[s], 0)'
       /\ PacketsApart(s)' /\ UnreadInv(s)' /\ LooseInv(s)' /\ SenderInv(s)'
  BY <1>3, <1>14, <1>16, ReadKeeps
<1>18. ReadInv(s)'
  <2>. DEFINE D2 == Ids(processed'[s])
              N == Ids(mNotifyEventList[s])
              pk(i) == Ids(lists[i])
              acked == mLastAckedEventSeq[s]
  <2>1. /\ D \intersect W = {} /\ Seqs(P, D) = 0 .. next - 1 /\ acked < next
        /\ N \subseteq D \union W
        /\ \A i \in DOMAIN lists : notified[s] + i \in arrived[s] =>
             pk(i) \subseteq D \union W /\ pk(i) \ D \subseteq Strict(P, pk(i))
    BY <1>2, <1>3 DEF SideInv, ReadInv, Got, Pk, HasArrived
  <2>2. D2 = D \union X
    BY <1>6, <1>9, <1>11, IdsJoined
  <2>3. A \intersect (D \union W) = {}
    BY <1>3, <1>4 DEF SideInv, UnreadInv, Pk, Got
  <2>4. acked \in Int
    <3>1. acked \in Nat \union {-1}
      BY <1>3 DEF TypeOK
    <3>. QED
      BY <3>1
  <2>. HIDE DEF D, D2, W, A, X, W2, N, next, acked
  <2>5. D2 \intersect W2 = {}
    BY <1>6, <2>1, <2>2, <2>3 DEF X, W2
  <2>6. D2 \union W2 = D \union W \union A
    BY <1>6, <2>2 DEF X, W2
  <2>7. Seqs(P, D2) = 0 .. x.next - 1
    <3>1. Seqs(P, D2) = Seqs(P, D) \union Seqs(P, X)
      BY <2>2, SeqsUnion
    <3>2. (0 .. next - 1) \union (next .. x.next - 1) = 0 .. x.next - 1
      BY <1>15
    <3>3. Seqs(P, X) = next .. x.next - 1
      BY <1>6 DEF X
    <3>. QED
      BY <2>1, <3>1, <3>2, <3>3
  <2>8. acked < x.next
    BY <1>15, <2>1, <2>4
  <2>9. ASSUME NEW i \in DOMAIN lists, notified[s] + i \in arrived'[s]
        PROVE  pk(i) \subseteq D2 \union W2 /\ pk(i) \ D2 \subseteq Strict(P, pk(i))
    <3>1. CASE i = p
      <4>1. A \subseteq D2 \union W2 /\ A \ D2 \subseteq Strict(P, A)
        BY <1>6, <2>2, <2>6 DEF X
      <4>. QED
        BY <3>1, <4>1 DEF A
    <3>2. CASE i # p
      <4>1. notified[s] + i # n
        <5>1. i \in Nat /\ notified[s] \in Nat
          <6>1. lists \in Seq(Seq(Event))
            BY <1>3 DEF TypeOK
          <6>. QED
            BY <1>3, <1>8, <6>1, LenProperties
        <5>. QED
          BY <1>4, <3>2, <5>1
      <4>2. notified[s] + i \in arrived[s]
        BY <1>9, <2>9, <4>1
      <4>. QED
        BY <2>1, <2>2, <2>6, <4>2
    <3>. QED
      BY <3>1, <3>2
  <2>10. Below({x.next}, Seqs(P, W2))
    BY <1>6 DEF W2
  <2>11. N \subseteq D2 \union W2
    BY <2>1, <2>6
  <2>. QED
    BY <1>3, <1>7, <1>9, <2>5, <2>7, <2>8, <2>9, <2>10, <2>11 DEF ReadInv, Got, Pk, HasArrived, D2, W2, N, acked
<1>. QED
  BY <1>10, <1>13, <1>17, <1>18 DEF SideInv

\* An error while the packet is read destroys the connection of the reader.
LEMMA Destroyed ==
  ASSUME NEW r \in Side, TypeOK, Destroy(r), open' = [open EXCEPT ![r] = FALSE]
  PROVE  /\ mSendEventQueue' \in [Side -> Seq(OrderedEvent)]
         /\ mNotifyEventList' \in [Side -> Seq(OrderedEvent)]
         /\ mUnorderedSendEventQueue' \in [Side -> Seq(UnorderedEvent)]
         /\ delivered' \in [Side -> SUBSET Nat] /\ undelivered' \in [Side -> SUBSET Nat]
         /\ NoLists(r) /\ open' \in [Side -> BOOLEAN]
         /\ \A t \in Side : open'[t] => open[t]
         /\ \A t \in Side \ {r} : /\ mSendEventQueue'[t] = mSendEventQueue[t]
                                  /\ mUnorderedSendEventQueue'[t] = mUnorderedSendEventQueue[t]
                                  /\ mNotifyEventList'[t] = mNotifyEventList[t]
                                  /\ delivered'[t] = delivered[t] /\ undelivered'[t] = undelivered[t]
                                  /\ open'[t] = open[t]
<1>1. /\ mNotifyEventList' = [mNotifyEventList EXCEPT ![r] = << >>]
      /\ mUnorderedSendEventQueue' = [mUnorderedSendEventQueue EXCEPT ![r] = << >>]
      /\ mSendEventQueue' = [mSendEventQueue EXCEPT ![r] = << >>]
  BY DEF Destroy
<1>. DEFINE queued == Ids(mNotifyEventList[r] \o mUnorderedSendEventQueue[r] \o mSendEventQueue[r])
            dl == IF ClearsNotifies THEN InFlight(r, {"GuaranteedOrdered", "Guaranteed"}) ELSE {}
            ul == IF ClearsNotifies THEN InFlight(r, {"Unguaranteed"}) ELSE {}
<1>2. /\ delivered' = [delivered EXCEPT ![r] = @ \union queued \union dl]
      /\ undelivered' = [undelivered EXCEPT ![r] = @ \union ul]
  BY DEF Destroy
<1>3. \A types : InFlight(r, types) \subseteq Nat
  <2>. SUFFICES ASSUME NEW types, NEW p \in DOMAIN eventLists[r],
                       NEW i \in DOMAIN eventLists[r][p]
                PROVE  eventLists[r][p][i].id \in Nat
    BY DEF InFlight, IdsOf
  <2>1. eventLists[r] \in Seq(Seq(Event))
    BY DEF TypeOK
  <2>2. eventLists[r][p] \in Seq(Event)
    BY <2>1, LenProperties, ElementOfSeq
  <2>3. eventLists[r][p][i] \in Event
    BY <2>2, LenProperties, ElementOfSeq
  <2>. QED
    BY <2>3 DEF Event, OrderedEvent, UnorderedEvent
<1>4. queued \subseteq Nat /\ dl \subseteq Nat /\ ul \subseteq Nat
  <2>. DEFINE a == mNotifyEventList[r]
              b == mUnorderedSendEventQueue[r]
              c == mSendEventQueue[r]
  <2>1. a \in Seq(Event) /\ b \in Seq(Event) /\ c \in Seq(Event)
    BY EventTypes DEF TypeOK
  <2>. HIDE DEF a, b, c
  <2>2. a \o b \in Seq(Event)
    BY <2>1, Joined
  <2>3. (a \o b) \o c \in Seq(Event)
    BY <2>1, <2>2, Joined
  <2>. DEFINE list == (a \o b) \o c
  <2>4. \A i \in DOMAIN list : list[i] \in Event
    BY <2>3, LenProperties, ElementOfSeq
  <2>. HIDE DEF list
  <2>5. Ids(list) \subseteq Nat
    BY <2>4 DEF Ids, Event, OrderedEvent, UnorderedEvent
  <2>6. queued = Ids(list)
    BY DEF a, b, c, list
  <2>7. dl \subseteq Nat /\ ul \subseteq Nat
    BY <1>3
  <2>. QED
    BY <2>5, <2>6, <2>7
<1>. HIDE DEF queued, dl, ul
<1>5. \A S : << >> \in Seq(S)
  BY EmptySeq
<1>6. /\ mSendEventQueue' \in [Side -> Seq(OrderedEvent)]
      /\ mNotifyEventList' \in [Side -> Seq(OrderedEvent)]
      /\ mUnorderedSendEventQueue' \in [Side -> Seq(UnorderedEvent)]
      /\ mSendEventQueue'[r] = << >> /\ mUnorderedSendEventQueue'[r] = << >> /\ mNotifyEventList'[r] = << >>
      /\ \A t \in Side \ {r} : /\ mSendEventQueue'[t] = mSendEventQueue[t]
                               /\ mUnorderedSendEventQueue'[t] = mUnorderedSendEventQueue[t]
                               /\ mNotifyEventList'[t] = mNotifyEventList[t]
  BY <1>1, <1>5 DEF TypeOK
<1>7. /\ delivered' \in [Side -> SUBSET Nat] /\ undelivered' \in [Side -> SUBSET Nat]
      /\ \A t \in Side \ {r} : delivered'[t] = delivered[t] /\ undelivered'[t] = undelivered[t]
  BY <1>2, <1>4 DEF TypeOK
<1>8. /\ open' \in [Side -> BOOLEAN] /\ ~open'[r]
      /\ \A t \in Side : open'[t] => open[t]
      /\ \A t \in Side \ {r} : open'[t] = open[t]
  BY DEF TypeOK, ChanTypeOK
<1>. QED
  BY <1>6, <1>7, <1>8 DEF NoLists

(* An error while a packet is read keeps the invariant.                    *)
LEMMA ReadFailsStep ==
  ASSUME NEW r \in Side, TypeOK, SideInv(r), SideInv(Peer(r)), ReadPacketFails(r)
  PROVE  TypeOK' /\ SideInv(Peer(r))' /\ SideInv(r)'
<1>. DEFINE s == Peer(r)
            P == posted[s]
            lists == eventLists[s]
            W == Ids(mWaitSeqEvents[r])
            next == mNextRecvEventSeq[r]
<1>0. PICK n \in Unnotified(s) :
        /\ Arrives(r, n)
        /\ LET x == ReadEvents(r, lists[n - notified[s]])
           IN  \E k \in 0 .. Len(x.processed) :
                 processed' = [processed EXCEPT ![s] = @ \o Take(x.processed, k)]
  BY DEF ReadPacketFails
<1>1. PICK x, k :
        /\ k \in 0 .. Len(x.processed)
        /\ x = ReadEvents(r, lists[n - notified[s]])
        /\ Arrives(r, n)
        /\ processed' = [processed EXCEPT ![s] = @ \o Take(x.processed, k)]
  BY <1>0
<1>2. /\ Destroy(r) /\ open' = [open EXCEPT ![r] = FALSE]
      /\ UNCHANGED <<sent, notified, confirmed, mWaitSeqEvents, mNextRecvEventSeq>>
      /\ UNCHANGED <<eventLists, mNextSendEventSeq, mLastAckedEventSeq, posted>>
  BY DEF ReadPacketFails, Destroy
<1>3. /\ n \in Unnotified(s) /\ open[r] /\ (\A m \in arrived[s] : m < n)
      /\ arrived' = [arrived EXCEPT ![s] = @ \union {n}]
  BY <1>1 DEF Arrives, Readable
<1>4. s \in Side /\ Peer(s) = r /\ r # s /\ s \in Side \ {r}
  BY PeerSide
<1>. DEFINE p == n - notified[s]
            A == Ids(lists[p])
            y == Take(x.processed, k)
<1>5. ReadOK(P, x, W, A, next)
  <2>. DEFINE events == lists[p]
  <2>1. events = lists[p] /\ x = ReadEvents(r, events)
    BY <1>1
  <2>. HIDE DEF events
  <2>2. ReadOK(P, x, W, Ids(events), next)
    BY <1>3, <1>4, <2>1, EventsRead
  <2>. QED
    BY <2>2 DEF events
<1>6. /\ x.processed \in Seq(Event) /\ UnorderedList(P, x.processed)
      /\ x.next \in Nat /\ x.next >= next
      /\ Ids(x.processed) \union Ids(x.waiting) = W \union A
      /\ Loose(P, Ids(x.processed)) = Loose(P, A)
      /\ Seqs(P, Ids(x.processed)) = next .. x.next - 1
      /\ InOrderFrom(P, x.processed, next)
  BY <1>5 DEF ReadOK
<1>7. y \in Seq(Event)
  BY <1>1, <1>6, TakeRest
<1>8. UnorderedList(P, y)
  BY <1>1, <1>6, PartsRight
<1>9. InOrderFrom(P, y, next)
  BY <1>1, <1>6, PrefixInOrder
<1>10. Ids(y) \subseteq Ids(x.processed)
  BY <1>1, <1>6, IdsTakeRest
<1>. HIDE DEF y
<1>11. /\ processed \in [Side -> Seq(Event)] /\ mWaitSeqEvents \in [Side -> Seq(OrderedEvent)]
       /\ mNextRecvEventSeq \in [Side -> Nat] /\ arrived \in [Side -> SUBSET Nat]
       /\ notified \in [Side -> Nat] /\ sent \in [Side -> Nat]
  BY DEF TypeOK, ChanTypeOK
<1>12. /\ processed'[s] = processed[s] \o y /\ processed'[r] = processed[r]
       /\ arrived'[s] = arrived[s] \union {n} /\ arrived'[r] = arrived[r]
  BY <1>1, <1>3, <1>4, <1>11 DEF y
<1>13. /\ mSendEventQueue' \in [Side -> Seq(OrderedEvent)]
       /\ mNotifyEventList' \in [Side -> Seq(OrderedEvent)]
       /\ mUnorderedSendEventQueue' \in [Side -> Seq(UnorderedEvent)]
       /\ delivered' \in [Side -> SUBSET Nat] /\ undelivered' \in [Side -> SUBSET Nat]
       /\ NoLists(r) /\ open' \in [Side -> BOOLEAN]
       /\ \A t \in Side : open'[t] => open[t]
       /\ \A t \in Side \ {r} : /\ mSendEventQueue'[t] = mSendEventQueue[t]
                                /\ mUnorderedSendEventQueue'[t] = mUnorderedSendEventQueue[t]
                                /\ mNotifyEventList'[t] = mNotifyEventList[t]
                                /\ delivered'[t] = delivered[t] /\ undelivered'[t] = undelivered[t]
                                /\ open'[t] = open[t]
  BY <1>2, Destroyed
<1>14. TypeOK'
  <2>1. n \in Nat
    BY <1>1, <1>4, <1>11 DEF Unnotified
  <2>2. arrived' \in [Side -> SUBSET Nat]
    BY <1>3, <1>4, <1>11, <2>1
  <2>3. processed[s] \o y \in Seq(Event)
    BY <1>4, <1>7, <1>11, Joined
  <2>4. processed' \in [Side -> Seq(Event)]
    BY <1>1, <1>11, <2>3 DEF y
  <2>. QED
    BY <1>2, <1>13, <2>2, <2>4 DEF TypeOK, ChanTypeOK
<1>15. SideInv(r)'
  <2>1. Quiet(r)
    BY <1>2, <1>4, <1>12, <1>13 DEF Quiet
  <2>. QED
    BY <1>13, <2>1, QuietStep
<1>16. SameSender(s)
  BY <1>2, <1>4, <1>13 DEF SameSender
<1>17. IsRead(s, n, y)
  <2>1. next \in Nat /\ next <= x.next /\ next .. x.next - 1 \subseteq next .. x.next
    BY <1>6, <1>11
  <2>2. Seqs(P, Ids(y)) \subseteq Seqs(P, Ids(x.processed))
    BY <1>10 DEF Seqs, Strict
  <2>3. \E b \in Nat : next <= b /\ Seqs(P, Ids(y)) \subseteq next .. b
    BY <1>6, <2>1, <2>2
  <2>4. Loose(P, Ids(y)) \subseteq Loose(P, Ids(x.processed))
    BY <1>10 DEF Loose
  <2>5. Ids(y) \subseteq W \union A /\ Loose(P, Ids(y)) \subseteq Loose(P, A)
    BY <1>6, <1>10, <2>4
  <2>6. OrderedList(P, mWaitSeqEvents[r])
    BY <1>4 DEF SideInv, ListsInv
  <2>. QED
    BY <1>1, <1>2, <1>3, <1>4, <1>7, <1>8, <1>9, <1>12, <2>3, <2>5, <2>6 DEF IsRead
<1>18. /\ ChannelInv(s)' /\ PostedInv(s)' /\ ListsInv(s)'
       /\ InOrderFrom(posted[s], processed[s], 0)'
       /\ PacketsApart(s)' /\ UnreadInv(s)' /\ LooseInv(s)' /\ SenderInv(s)'
  BY <1>4, <1>16, <1>17, ReadKeeps
<1>19. ReadInv(s)'
  BY <1>2, <1>4, <1>13 DEF SideInv, ReadInv, NoLists
<1>. QED
  BY <1>14, <1>15, <1>18, <1>19 DEF SideInv

(* disconnect and a timeout keep the invariant.                            *)
LEMMA DisconnectStep ==
  ASSUME NEW s \in Side, TypeOK, SideInv(s), SideInv(Peer(s)), Disconnect(s)
  PROVE  TypeOK' /\ SideInv(s)' /\ SideInv(Peer(s))'
<1>1. /\ Destroy(s) /\ open' = [open EXCEPT ![s] = FALSE]
      /\ UNCHANGED <<sent, notified, confirmed, arrived>> /\ UNCHANGED recvVars
      /\ UNCHANGED <<eventLists, mNextSendEventSeq, mLastAckedEventSeq, posted>>
  BY DEF Disconnect, Destroy, Close
<1>2. Peer(s) \in Side \ {s} /\ Peer(Peer(s)) = s /\ Peer(s) \in Side
  BY PeerSide
<1>3. /\ mSendEventQueue' \in [Side -> Seq(OrderedEvent)]
      /\ mNotifyEventList' \in [Side -> Seq(OrderedEvent)]
      /\ mUnorderedSendEventQueue' \in [Side -> Seq(UnorderedEvent)]
      /\ delivered' \in [Side -> SUBSET Nat] /\ undelivered' \in [Side -> SUBSET Nat]
      /\ NoLists(s) /\ open' \in [Side -> BOOLEAN]
      /\ \A t \in Side : open'[t] => open[t]
      /\ \A t \in Side \ {s} : /\ mSendEventQueue'[t] = mSendEventQueue[t]
                               /\ mUnorderedSendEventQueue'[t] = mUnorderedSendEventQueue[t]
                               /\ mNotifyEventList'[t] = mNotifyEventList[t]
                               /\ delivered'[t] = delivered[t] /\ undelivered'[t] = undelivered[t]
                               /\ open'[t] = open[t]
  BY <1>1, Destroyed
<1>4. TypeOK'
  BY <1>1, <1>3 DEF TypeOK, ChanTypeOK, recvVars
<1>5. Quiet(s) /\ Quiet(Peer(s)) /\ SameLists(Peer(s))
  BY <1>1, <1>2, <1>3 DEF Quiet, SameLists, recvVars
<1>. QED
  BY <1>2, <1>3, <1>4, <1>5, QuietStep

-----------------------------------------------------------------------------
(* handleNotify: the packet at the head of eventLists is gone, and the     *)
(* others move up.                                                         *)
\* What the fate of a packet does to the lists of its sender.
Notified(s) ==
  LET P == posted[s]
      r == Peer(s)
      U == Ids(mUnorderedSendEventQueue[s])
      U2 == Ids(mUnorderedSendEventQueue'[s])
  IN
  /\ OrderedList(P, mSendEventQueue'[s]) /\ OrderedList(P, mNotifyEventList'[s])
  /\ UnorderedList(P, mUnorderedSendEventQueue'[s]) /\ Loose(P, U2) = Loose(P, U)
  /\ mLastAckedEventSeq'[s] \in Int /\ mLastAckedEventSeq[s] <= mLastAckedEventSeq'[s]
  /\ open[r] => /\ mLastAckedEventSeq'[s] < mNextRecvEventSeq[r]
                /\ Ids(mNotifyEventList'[s]) \subseteq Got(s)

(* The packets that are left in eventLists after the first is gone.        *)
LEMMA MovedUp ==
  ASSUME NEW s \in Side, TypeOK, SideInv(s), HandleNotify(s)
  PROVE  /\ eventLists[s] # << >> /\ eventLists'[s] = Tail(eventLists[s])
         /\ 1 \in DOMAIN eventLists[s] /\ Head(eventLists[s]) = eventLists[s][1]
         /\ Head(eventLists[s]) \in Seq(Event)
         /\ notified'[s] = notified[s] + 1 /\ notified[s] \in Nat
         /\ \A p \in DOMAIN eventLists'[s] :
              /\ p \in Nat /\ p > 0 /\ p + 1 \in DOMAIN eventLists[s]
              /\ eventLists'[s][p] = eventLists[s][p + 1]
              /\ notified'[s] + p = notified[s] + (p + 1)
         /\ \A p \in DOMAIN eventLists[s] : p # 1 => \E q \in DOMAIN eventLists'[s] : p = q + 1
         /\ Len(eventLists'[s]) = Len(eventLists[s]) - 1
         /\ TypeOK => eventLists' \in [Side -> Seq(Seq(Event))]
         /\ notified[s] + 1 <= sent[s]
<1>. DEFINE lists == eventLists[s]
<1>1. /\ lists \in Seq(Seq(Event)) /\ notified[s] \in Nat /\ sent[s] \in Nat
      /\ Len(lists) = sent[s] - notified[s]
      /\ notified' = [notified EXCEPT ![s] = notified[s] + 1]
      /\ eventLists' = [eventLists EXCEPT ![s] = Tail(@)]
      /\ Unnotified(s) # {}
      /\ notified \in [Side -> Nat] /\ eventLists \in [Side -> Seq(Seq(Event))]
  BY DEF TypeOK, ChanTypeOK, SideInv, ChannelInv, HandleNotify, NotifyUpTo
<1>2. notified[s] + 1 <= sent[s]
  BY <1>1 DEF Unnotified
<1>3. eventLists'[s] = Tail(lists) /\ notified'[s] = notified[s] + 1
  BY <1>1
<1>. HIDE DEF lists
<1>4. Len(lists) \in Nat /\ Len(lists) >= 1 /\ DOMAIN lists = 1 .. Len(lists)
  BY <1>1, <1>2, LenProperties
<1>5. lists # << >>
  BY <1>1, <1>4, EmptySeq
<1>6. /\ Head(lists) \in Seq(Event)
      /\ Tail(lists) \in Seq(Seq(Event))
      /\ Len(Tail(lists)) = Len(lists) - 1
      /\ \A i \in 1 .. Len(Tail(lists)) : Tail(lists)[i] = lists[i + 1]
  BY <1>1, <1>5, HeadTailProperties
<1>7. Head(lists) = lists[1] /\ 1 \in DOMAIN lists
  BY <1>4 DEF Head
<1>8. DOMAIN Tail(lists) = 1 .. Len(lists) - 1
  BY <1>6, LenProperties
<1>9. \A p \in DOMAIN Tail(lists) :
        /\ p \in Nat /\ p > 0 /\ p + 1 \in DOMAIN lists
        /\ Tail(lists)[p] = lists[p + 1]
        /\ notified[s] + 1 + p = notified[s] + (p + 1)
  <2>. SUFFICES ASSUME NEW p \in DOMAIN Tail(lists)
                PROVE  /\ p \in Nat /\ p > 0 /\ p + 1 \in DOMAIN lists
                       /\ Tail(lists)[p] = lists[p + 1]
                       /\ notified[s] + 1 + p = notified[s] + (p + 1)
    OBVIOUS
  <2>1. p \in Nat /\ p > 0 /\ p + 1 \in DOMAIN lists /\ p \in 1 .. Len(Tail(lists))
    BY <1>4, <1>6, <1>8
  <2>2. Tail(lists)[p] = lists[p + 1]
    BY <1>6, <2>1
  <2>3. notified[s] + 1 + p = notified[s] + (p + 1)
    BY <1>1, <2>1
  <2>. QED
    BY <2>1, <2>2, <2>3
<1>10. \A p \in DOMAIN lists : p # 1 => \E q \in DOMAIN Tail(lists) : p = q + 1
  <2>. SUFFICES ASSUME NEW p \in DOMAIN lists, p # 1 PROVE \E q \in DOMAIN Tail(lists) : p = q + 1
    OBVIOUS
  <2>1. p - 1 \in DOMAIN Tail(lists) /\ p = (p - 1) + 1
    BY <1>4, <1>8
  <2>. QED
    BY <2>1
<1>11. eventLists' \in [Side -> Seq(Seq(Event))]
  BY <1>1, <1>6 DEF lists
<1>. QED
  BY <1>1, <1>2, <1>3, <1>5, <1>6, <1>7, <1>9, <1>10, <1>11 DEF lists

(* handleNotify keeps the invariant, but for where the events of the       *)
(* packet go.                                                              *)
LEMMA NotifyKeeps ==
  ASSUME NEW s \in Side, TypeOK, SideInv(s), HandleNotify(s), Notified(s)
  PROVE  /\ ChannelInv(s)' /\ PostedInv(s)' /\ ListsInv(s)'
         /\ InOrderFrom(posted[s], processed[s], 0)'
         /\ PacketsApart(s)' /\ UnreadInv(s)' /\ LooseInv(s)' /\ ReadInv(s)'
<1>. DEFINE P == posted[s]
            r == Peer(s)
            lists == eventLists[s]
            pk(i) == Ids(lists[i])
            npk(i) == Ids(eventLists'[s][i])
            acked == mLastAckedEventSeq[s]
<1>1. /\ notified'[s] = notified[s] + 1 /\ notified[s] \in Nat /\ notified[s] + 1 <= sent[s]
      /\ \A p \in DOMAIN eventLists'[s] :
           /\ p \in Nat /\ p > 0 /\ p + 1 \in DOMAIN lists
           /\ eventLists'[s][p] = lists[p + 1]
           /\ notified'[s] + p = notified[s] + (p + 1)
      /\ Len(eventLists'[s]) = Len(lists) - 1
  BY MovedUp
<1>2. /\ posted'[s] = P /\ sent'[s] = sent[s] /\ arrived'[s] = arrived[s] /\ open' = open
      /\ mNextSendEventSeq' = mNextSendEventSeq /\ processed' = processed
      /\ mWaitSeqEvents' = mWaitSeqEvents /\ mNextRecvEventSeq' = mNextRecvEventSeq
  BY DEF HandleNotify, recvVars
<1>3. /\ OrderedList(P, mSendEventQueue'[s]) /\ OrderedList(P, mNotifyEventList'[s])
      /\ UnorderedList(P, mUnorderedSendEventQueue'[s])
      /\ Loose(P, Ids(mUnorderedSendEventQueue'[s])) = Loose(P, Ids(mUnorderedSendEventQueue[s]))
      /\ mLastAckedEventSeq'[s] \in Int /\ acked <= mLastAckedEventSeq'[s]
      /\ open[r] => /\ mLastAckedEventSeq'[s] < mNextRecvEventSeq[r]
                    /\ Ids(mNotifyEventList'[s]) \subseteq Got(s)
  BY DEF Notified
<1>4. ChannelInv(s)'
  <2>1. /\ InitSeq[s] <= notified[s] /\ Len(lists) = sent[s] - notified[s]
        /\ arrived[s] \subseteq InitSeq[s] + 1 .. sent[s] /\ InitSeq[s] \in Nat /\ sent[s] \in Nat
    BY InitSeqAssumption DEF SideInv, ChannelInv, TypeOK, ChanTypeOK
  <2>2. InitSeq[s] <= notified'[s] /\ Len(eventLists'[s]) = sent[s] - notified'[s] /\ notified'[s] <= sent[s]
    BY <1>1, <2>1
  <2>. QED
    BY <1>2, <2>1, <2>2 DEF ChannelInv
<1>5. PostedInv(s)' /\ InOrderFrom(posted[s], processed[s], 0)'
  BY <1>2 DEF SideInv, PostedInv
<1>6. ListsInv(s)'
  <2>1. \A p \in DOMAIN eventLists'[s] : PacketList(P, eventLists'[s][p])
    BY <1>1 DEF SideInv, ListsInv
  <2>. QED
    BY <1>2, <1>3, <2>1 DEF SideInv, ListsInv
<1>7. \A p \in DOMAIN eventLists'[s] : /\ p + 1 \in DOMAIN lists /\ npk(p) = pk(p + 1)
                                       /\ notified'[s] + p = notified[s] + (p + 1)
  BY <1>1
<1>8. \A p, q \in DOMAIN eventLists'[s] : /\ (p # q => p + 1 # q + 1) /\ (p < q => p + 1 < q + 1)
  BY <1>1
<1>9. Got(s)' = Got(s)
  BY <1>2 DEF Got
<1>10. PacketsApart(s)'
  <2>1. \A p, q \in DOMAIN lists : p # q => pk(p) \intersect pk(q) = {}
    BY DEF SideInv, PacketsApart, Pk
  <2>. QED
    BY <1>7, <1>8, <2>1 DEF PacketsApart, Pk
<1>11. UnreadInv(s)'
  <2>. SUFFICES ASSUME NEW p \in DOMAIN eventLists'[s], notified'[s] + p \notin arrived[s]
       PROVE /\ npk(p) \intersect Got(s) = {}
             /\ \A x \in Seqs(P, npk(p)) : x <= mLastAckedEventSeq'[s] + EventWindow
    BY <1>2, <1>9 DEF UnreadInv, Pk, HasArrived
  <2>1. /\ pk(p + 1) \intersect Got(s) = {}
        /\ \A x \in Seqs(P, pk(p + 1)) : x <= acked + EventWindow
    BY <1>7 DEF SideInv, UnreadInv, Pk, HasArrived
  <2>2. \A x \in Seqs(P, pk(p + 1)) : x \in Int
    <3>. SUFFICES ASSUME NEW y \in Strict(P, pk(p + 1)) PROVE P[y].mSeqCount \in Int
      BY DEF Seqs
    <3>1. y \in DOMAIN P
      BY <1>7, IdsArePosted DEF SideInv, Strict, Pk
    <3>2. P[y] \in Event
      <4>1. P \in Seq(Event)
        BY DEF TypeOK
      <4>. QED
        BY <3>1, <4>1, LenProperties, ElementOfSeq
    <3>. QED
      BY <3>2 DEF Event, OrderedEvent, UnorderedEvent
  <2>3. EventWindow \in Int /\ acked \in Int
    <3>1. acked \in Nat \union {-1}
      BY DEF TypeOK
    <3>. QED
      BY <3>1, EventConstants DEF EventAssumption
  <2>4. acked + EventWindow <= mLastAckedEventSeq'[s] + EventWindow
    BY <1>3, <2>3
  <2>5. \A x \in Seqs(P, pk(p + 1)) : x <= mLastAckedEventSeq'[s] + EventWindow
    <3>. SUFFICES ASSUME NEW x \in Seqs(P, pk(p + 1)) PROVE x <= mLastAckedEventSeq'[s] + EventWindow
      OBVIOUS
    <3>1. x \in Int /\ x <= acked + EventWindow
      BY <2>1, <2>2
    <3>. QED
      BY <1>3, <2>3, <2>4, <3>1
  <2>. QED
    BY <1>7, <2>1, <2>5
<1>12. LooseInv(s)'
  <2>. DEFINE L(ids) == Loose(P, ids)
              LU == L(Ids(mUnorderedSendEventQueue[s]))
              D == Ids(processed[s])
              still(i) == \A m \in arrived[s] : m < i
  <2>1. /\ Below(L(D), LU)
        /\ \A i \in DOMAIN lists :
             /\ Below(L(pk(i)), LU)
             /\ still(notified[s] + i) => Below(L(D), L(pk(i)))
             /\ \A j \in DOMAIN lists : i < j => Below(L(pk(i)), L(pk(j)))
    BY DEF SideInv, LooseInv, Pk, StillReadable
  <2>. HIDE DEF L, LU, D
  <2>2. \A i \in DOMAIN eventLists'[s] :
             /\ Below(L(npk(i)), LU)
             /\ still(notified'[s] + i) => Below(L(D), L(npk(i)))
             /\ \A j \in DOMAIN eventLists'[s] : i < j => Below(L(npk(i)), L(npk(j)))
    BY <1>7, <1>8, <2>1
  <2>. QED
    BY <1>2, <1>3, <2>1, <2>2 DEF LooseInv, Pk, StillReadable, L, LU, D
<1>13. ReadInv(s)'
  <2>. DEFINE D == Ids(processed[s])
              W == Ids(mWaitSeqEvents[r])
              next == mNextRecvEventSeq[r]
  <2>1. /\ open[r] =>
             /\ D \intersect W = {} /\ Seqs(P, D) = 0 .. next - 1
             /\ \A p \in DOMAIN lists : notified[s] + p \in arrived[s] =>
                  pk(p) \subseteq Got(s) /\ pk(p) \ D \subseteq Strict(P, pk(p))
        /\ Below({next}, Seqs(P, W))
    BY DEF SideInv, ReadInv, Pk, HasArrived
  <2>2. open[r] => \A p \in DOMAIN eventLists'[s] : notified'[s] + p \in arrived[s] =>
                  npk(p) \subseteq Got(s) /\ npk(p) \ D \subseteq Strict(P, npk(p))
    BY <1>7, <2>1
  <2>. QED
    BY <1>2, <1>3, <1>9, <2>1, <2>2 DEF ReadInv, Pk, HasArrived
<1>. QED
  BY <1>4, <1>5, <1>6, <1>10, <1>11, <1>12, <1>13

(* The ids of the events of some types in a list.                          *)
LEMMA IdsOfTypes ==
  ASSUME NEW P, NEW events, Mine(P, events), NEW types
  PROVE  IdsOf(events, types) = {i \in Ids(events) : P[i].type \in types}
<1>1. ASSUME NEW x \in IdsOf(events, types) PROVE x \in Ids(events) /\ P[x].type \in types
  BY DEF IdsOf, Ids, Mine
<1>2. ASSUME NEW x \in Ids(events), P[x].type \in types PROVE x \in IdsOf(events, types)
  <2>1. PICK i \in DOMAIN events : events[i] = P[x] /\ events[i].id = x
    BY IdOfMine
  <2>. QED
    BY <1>2, <2>1 DEF IdsOf
<1>. QED
  BY <1>1, <1>2

\* What is at the head of eventLists, in relation to everything else.
HeadPacket(s, events) ==
  LET P == posted[s]
      A == Ids(events)
      Q == Ids(mSendEventQueue[s])
      U == Ids(mUnorderedSendEventQueue[s])
      N == Ids(mNotifyEventList[s])
      told == delivered[s] \union undelivered[s]
      others == UNION {Ids(eventLists'[s][p]) : p \in DOMAIN eventLists'[s]}
  IN
  /\ events \in Seq(Event) /\ PacketList(P, events) /\ Mine(P, events)
  /\ A \intersect (N \union Q \union U \union told \union others) = {}
  /\ others \intersect (N \union Q \union U \union told) = {}
  /\ (Q \union U \union undelivered[s]) \intersect Got(s) = {}
  /\ delivered[s] \intersect undelivered[s] = {}
  /\ N \intersect Q = {} /\ (N \union Q \union U) \intersect told = {}
  /\ Q \union U \union N \union told \union A \union others = DOMAIN P
  /\ open[Peer(s)] => delivered[s] \subseteq Ids(processed[s])

(* The events of the packet that is notified are nowhere else.             *)
LEMMA HeadOf ==
  ASSUME NEW s \in Side, TypeOK, SideInv(s), HandleNotify(s)
  PROVE  HeadPacket(s, Head(eventLists[s]))
<1>. DEFINE P == posted[s]
            lists == eventLists[s]
            pk(i) == Ids(lists[i])
            npk(i) == Ids(eventLists'[s][i])
            A == Ids(Head(lists))
            Q == Ids(mSendEventQueue[s])
            U == Ids(mUnorderedSendEventQueue[s])
            N == Ids(mNotifyEventList[s])
            told == delivered[s] \union undelivered[s]
            all == N \union Q \union U \union told
            others == UNION {npk(p) : p \in DOMAIN eventLists'[s]}
<1>1. /\ 1 \in DOMAIN lists /\ Head(lists) = lists[1] /\ Head(lists) \in Seq(Event)
      /\ \A p \in DOMAIN eventLists'[s] :
           /\ p \in Nat /\ p > 0 /\ p + 1 \in DOMAIN lists
           /\ eventLists'[s][p] = lists[p + 1]
      /\ \A p \in DOMAIN lists : p # 1 => \E q \in DOMAIN eventLists'[s] : p = q + 1
  BY MovedUp
<1>2. /\ (Q \union U \union undelivered[s]) \intersect Got(s) = {}
      /\ delivered[s] \intersect undelivered[s] = {}
      /\ N \intersect Q = {} /\ (N \union Q \union U) \intersect told = {}
      /\ \A p \in DOMAIN lists : pk(p) \intersect all = {}
      /\ Q \union U \union N \union told \union UNION {pk(p) : p \in DOMAIN lists} = DOMAIN P
      /\ open[Peer(s)] => delivered[s] \subseteq Ids(processed[s])
  BY DEF SideInv, SenderInv, Pk, HandleNotify
<1>3. \A p, q \in DOMAIN lists : p # q => pk(p) \intersect pk(q) = {}
  BY DEF SideInv, PacketsApart, Pk
<1>4. PacketList(P, Head(lists)) /\ Mine(P, Head(lists))
  BY <1>1 DEF SideInv, ListsInv, PacketList, UnorderedList
<1>. HIDE DEF Q, U, N, told
<1>5. \A p \in DOMAIN eventLists'[s] : p + 1 \in DOMAIN lists /\ p + 1 # 1 /\ npk(p) = pk(p + 1)
  BY <1>1
<1>6. \A p \in DOMAIN eventLists'[s] : A \intersect npk(p) = {} /\ npk(p) \intersect all = {}
  BY <1>1, <1>2, <1>3, <1>5
<1>7. A \intersect all = {}
  BY <1>1, <1>2
<1>8. UNION {pk(p) : p \in DOMAIN lists} = A \union others
  <2>1. ASSUME NEW x, NEW p \in DOMAIN lists, x \in pk(p) PROVE x \in A \union others
    <3>1. CASE p = 1
      BY <1>1, <2>1, <3>1
    <3>2. CASE p # 1
      <4>1. PICK q \in DOMAIN eventLists'[s] : p = q + 1
        BY <1>1, <3>2
      <4>2. x \in npk(q)
        BY <1>5, <2>1, <4>1
      <4>. QED
        BY <4>2
    <3>. QED
      BY <3>1, <3>2
  <2>2. A \subseteq UNION {pk(p) : p \in DOMAIN lists}
    BY <1>1
  <2>3. ASSUME NEW x, NEW q \in DOMAIN eventLists'[s], x \in npk(q)
        PROVE x \in UNION {pk(p) : p \in DOMAIN lists}
    BY <1>5, <2>3
  <2>. QED
    BY <2>1, <2>2, <2>3
<1>9. A \intersect others = {} /\ others \intersect all = {}
  BY <1>6
<1>. HIDE DEF A, others
<1>10. Q \union U \union N \union told \union A \union others = DOMAIN P
  BY <1>2, <1>8
<1>. QED
  BY <1>1, <1>2, <1>4, <1>7, <1>9, <1>10 DEF HeadPacket, A, Q, U, N, told, others

\* The events of which notifyDelivered() can tell at once.
LEMMA RunIsProcessed ==
  ASSUME NEW s \in Side, TypeOK, SideInv(s), open[Peer(s)],
         NEW list \in Seq(OrderedEvent), OrderedList(posted[s], list), Ids(list) \subseteq Got(s),
         NEW k, RunOf(list, mLastAckedEventSeq[s] + 1, k)
  PROVE  Ids(Take(list, k)) \subseteq Ids(processed[s]) /\ mLastAckedEventSeq[s] + k < mNextRecvEventSeq[Peer(s)]
<1>. DEFINE r == Peer(s)
            P == posted[s]
            acked == mLastAckedEventSeq[s]
            next == mNextRecvEventSeq[r]
            D == Ids(processed[s])
            W == Ids(mWaitSeqEvents[r])
<1>1. /\ Seqs(P, D) = 0 .. next - 1 /\ acked < next /\ Below({next}, Seqs(P, W))
  BY DEF SideInv, ReadInv
<1>2. Ids(list) \subseteq D \union W
  BY DEF Got
<1>3. acked \in Int /\ acked >= -1 /\ next \in Nat
  <2>1. acked \in Nat \union {-1} /\ next \in Nat
    BY PeerSide DEF TypeOK
  <2>. QED
    BY <2>1
<1>4. DOMAIN list = 1 .. Len(list) /\ Len(list) \in Nat
  BY LenProperties
<1>5. /\ k \in 0 .. Len(list) /\ k \in Nat
      /\ \A i \in 1 .. k : list[i].mSeqCount = acked + 1 + i - 1
  BY <1>4 DEF RunOf
<1>6. Mine(P, list) /\ \A i \in DOMAIN list : IsOrdered(list[i])
  <2>1. \A i \in DOMAIN list : list[i] \in OrderedEvent
    BY <1>4, ElementOfSeq
  <2>. QED
    BY <2>1 DEF OrderedEvent, IsOrdered, OrderedList
<1>. HIDE DEF r, P, acked, next, D, W
<1>7. ASSUME NEW i \in 1 .. k
      PROVE  /\ i \in DOMAIN list /\ list[i].id \in Ids(list) /\ IsOrdered(P[list[i].id])
             /\ P[list[i].id].mSeqCount = acked + i
  <2>1. i \in DOMAIN list /\ acked + 1 + i - 1 = acked + i
    BY <1>3, <1>4, <1>5
  <2>2. list[i].mSeqCount = acked + i
    BY <1>5, <2>1
  <2>3. P[list[i].id] = list[i]
    BY <1>6, <2>1 DEF Mine
  <2>. QED
    BY <1>6, <2>1, <2>2, <2>3, IdsElt
<1>8. acked + k < next
  <2>. SUFFICES ASSUME acked + k >= next PROVE FALSE
    BY <1>3, <1>5
  <2>1. next - acked \in 1 .. k /\ acked + (next - acked) = next
    BY <1>1, <1>3, <1>5
  <2>. DEFINE id == list[next - acked].id
  <2>2. id \in Ids(list) /\ IsOrdered(P[id]) /\ P[id].mSeqCount = next
    BY <1>7, <2>1
  <2>. HIDE DEF id
  <2>3. CASE id \in D
    <3>1. next \in Seqs(P, D)
      BY <2>2, <2>3 DEF Seqs, Strict
    <3>. QED
      BY <1>1, <1>3, <3>1
  <2>4. CASE id \in W
    <3>1. next \in Seqs(P, W)
      BY <2>2, <2>4 DEF Seqs, Strict
    <3>2. next < next
      BY <1>1, <3>1 DEF Below
    <3>. QED
      BY <1>3, <3>2
  <2>. QED
    BY <1>2, <2>2, <2>3, <2>4
<1>9. DOMAIN Take(list, k) = 1 .. k /\ \A i \in 1 .. k : Take(list, k)[i] = list[i]
  BY <1>5, TakeRest
<1>10. ASSUME NEW id \in Ids(Take(list, k)) PROVE id \in D
  <2>1. PICK i \in DOMAIN Take(list, k) : Take(list, k)[i].id = id
    BY IdsElt
  <2>2. i \in 1 .. k /\ list[i].id = id
    BY <1>9, <2>1
  <2>3. id \in Ids(list) /\ IsOrdered(P[id]) /\ P[id].mSeqCount = acked + i
    BY <1>7, <2>2
  <2>4. CASE id \in W
    <3>1. acked + i \in Seqs(P, W)
      BY <2>3, <2>4 DEF Seqs, Strict
    <3>2. next < acked + i
      BY <1>1, <3>1 DEF Below
    <3>. QED
      BY <1>3, <1>5, <1>8, <2>2, <3>2
  <2>. QED
    BY <1>2, <2>3, <2>4
<1>. QED
  BY <1>8, <1>10 DEF D, acked, next, r

(* packetReceived keeps the invariant.                                     *)
LEMMA ReceivedStep ==
  ASSUME NEW s \in Side, TypeOK, SideInv(s), PacketReceived(s)
  PROVE  TypeOK' /\ SideInv(s)' /\ Quiet(Peer(s)) /\ SameLists(Peer(s))
<1>. DEFINE P == posted[s]
            r == Peer(s)
            events == Head(eventLists[s])
            acked == mLastAckedEventSeq[s]
            list == WithOrdered(mNotifyEventList[s], events)
            k == NowAcked(list, acked)
            A == Ids(events)
            Q == Ids(mSendEventQueue[s])
            U == Ids(mUnorderedSendEventQueue[s])
            N == Ids(mNotifyEventList[s])
            dl == delivered[s]
            ul == undelivered[s]
            others == UNION {Ids(eventLists'[s][p]) : p \in DOMAIN eventLists'[s]}
            got == Ids(Take(list, k))
            left == Ids(Rest(list, k))
            loose == IdsOf(events, {"Guaranteed", "Unguaranteed"})
<1>1. /\ HandleNotify(s) /\ notified[s] + 1 \in arrived[s]
      /\ delivered' = [delivered EXCEPT ![s] = @ \union loose \union got]
      /\ mNotifyEventList' = [mNotifyEventList EXCEPT ![s] = Rest(list, k)]
      /\ mLastAckedEventSeq' = [mLastAckedEventSeq EXCEPT ![s] = @ + k]
      /\ UNCHANGED <<mSendEventQueue, mUnorderedSendEventQueue, undelivered>>
  BY DEF PacketReceived
<1>2. HeadPacket(s, events)
  BY <1>1, HeadOf
<1>3. /\ events \in Seq(Event) /\ PacketList(P, events) /\ Mine(P, events)
      /\ A \intersect (N \union Q \union U \union (dl \union ul) \union others) = {}
      /\ others \intersect (N \union Q \union U \union (dl \union ul)) = {}
      /\ (Q \union U \union ul) \intersect Got(s) = {}
      /\ dl \intersect ul = {}
      /\ N \intersect Q = {} /\ (N \union Q \union U) \intersect (dl \union ul) = {}
      /\ Q \union U \union N \union (dl \union ul) \union A \union others = DOMAIN P
      /\ open[r] => dl \subseteq Ids(processed[s])
  BY <1>2 DEF HeadPacket
<1>4. /\ 1 \in DOMAIN eventLists[s] /\ events = eventLists[s][1]
      /\ eventLists' \in [Side -> Seq(Seq(Event))]
  BY <1>1, MovedUp
<1>5. r \in Side /\ r # s /\ Peer(r) = s
  BY PeerSide
<1>6. /\ mNotifyEventList[s] \in Seq(OrderedEvent) /\ P \in Seq(Event)
      /\ acked \in Int /\ acked + 1 \in Nat
      /\ mNotifyEventList \in [Side -> Seq(OrderedEvent)]
      /\ mLastAckedEventSeq \in [Side -> Nat \union {-1}]
      /\ delivered \in [Side -> SUBSET Nat]
  <2>1. /\ mNotifyEventList \in [Side -> Seq(OrderedEvent)] /\ posted \in [Side -> Seq(Event)]
        /\ mLastAckedEventSeq \in [Side -> Nat \union {-1}] /\ delivered \in [Side -> SUBSET Nat]
    BY DEF TypeOK
  <2>2. acked \in Nat \union {-1}
    BY <2>1
  <2>. QED
    BY <2>1, <2>2
<1>7. OrderedList(P, mNotifyEventList[s]) /\ SeqsDiffer(P)
  BY <1>6, PostedDiffer DEF SideInv, ListsInv
<1>8. list \in Seq(OrderedEvent)
  BY <1>3, <1>6, WithOrderedType
<1>9. OrderedList(P, list) /\ Ids(list) = N \union Strict(P, A)
  <2>1. N \intersect A = {}
    BY <1>3
  <2>. QED
    BY <1>3, <1>6, <1>7, <2>1, WithOrderedRight
<1>10. RunOf(list, acked + 1, k)
  BY <1>6, <1>8, RunRight DEF NowAcked
<1>. HIDE DEF list, k
<1>11. k \in 0 .. Len(list) /\ k \in Nat
  <2>1. Len(list) \in Nat
    BY <1>8, LenProperties
  <2>. QED
    BY <1>10, <2>1 DEF RunOf
<1>12. Ids(list) = got \union left /\ got \intersect left = {}
  <2>1. Distinct(list)
    BY <1>8, <1>9, SortedOnce DEF PacketList, UnorderedList
  <2>. QED
    BY <1>8, <1>11, <2>1, IdsTakeRest
<1>13. Rest(list, k) \in Seq(OrderedEvent)
  BY <1>8, <1>11, TakeRest
<1>14. OrderedList(P, Rest(list, k))
  BY <1>8, <1>9, <1>11, PartsRight
<1>15. loose = A \ Strict(P, A)
  <2>1. loose = {i \in A : P[i].type \in {"Guaranteed", "Unguaranteed"}}
    BY <1>3, IdsOfTypes
  <2>2. \A i \in A : P[i].type \in {"Guaranteed", "Unguaranteed"} <=> ~IsOrdered(P[i])
    <3>. SUFFICES ASSUME NEW i \in A
                  PROVE  P[i].type \in {"Guaranteed", "Unguaranteed"} <=> ~IsOrdered(P[i])
      OBVIOUS
    <3>1. i \in DOMAIN P
      BY <1>3, IdOfMine
    <3>2. P[i] \in Event
      BY <1>6, <3>1, LenProperties, ElementOfSeq
    <3>. QED
      BY <3>2 DEF Event, OrderedEvent, UnorderedEvent, IsOrdered
  <2>. QED
    BY <2>1, <2>2 DEF Strict
<1>16. /\ delivered'[s] = dl \union loose \union got /\ mNotifyEventList'[s] = Rest(list, k)
       /\ mLastAckedEventSeq'[s] = acked + k
       /\ mSendEventQueue' = mSendEventQueue /\ mUnorderedSendEventQueue' = mUnorderedSendEventQueue
       /\ undelivered' = undelivered
  BY <1>1, <1>6
<1>17. /\ sent' = sent /\ arrived' = arrived /\ open' = open /\ posted' = posted
       /\ processed' = processed /\ mWaitSeqEvents' = mWaitSeqEvents
       /\ mNextRecvEventSeq' = mNextRecvEventSeq /\ mNextSendEventSeq' = mNextSendEventSeq
       /\ notified' = [notified EXCEPT ![s] = notified[s] + 1]
       /\ eventLists' = [eventLists EXCEPT ![s] = Tail(@)]
       /\ \E c : confirmed' = [confirmed EXCEPT ![s] = @ \union c] /\ c \subseteq arrived[s]
  <2>. DEFINE c == {m \in arrived[s] : notified[s] < m /\ m <= notified[s] + 1}
  <2>1. confirmed' = [confirmed EXCEPT ![s] = @ \union c] /\ c \subseteq arrived[s]
    BY <1>1 DEF HandleNotify, NotifyUpTo
  <2>2. \E cc : confirmed' = [confirmed EXCEPT ![s] = @ \union cc] /\ cc \subseteq arrived[s]
    BY <2>1
  <2>. QED
    BY <1>1, <2>2 DEF HandleNotify, NotifyUpTo, recvVars
<1>. HIDE DEF loose, got, left
<1>18. open[r] => Ids(list) \subseteq Got(s) /\ loose \subseteq Ids(processed[s])
  <2>. SUFFICES ASSUME open[r] PROVE Ids(list) \subseteq Got(s) /\ loose \subseteq Ids(processed[s])
    OBVIOUS
  <2>1. N \subseteq Got(s) /\ A \subseteq Got(s) /\ A \ Ids(processed[s]) \subseteq Strict(P, A)
    BY <1>1, <1>4 DEF SideInv, ReadInv, Pk, HasArrived
  <2>2. Strict(P, A) \subseteq A
    BY DEF Strict
  <2>. QED
    BY <1>9, <1>15, <2>1, <2>2
<1>19. open[r] => got \subseteq Ids(processed[s]) /\ acked + k < mNextRecvEventSeq[r]
  BY <1>8, <1>9, <1>10, <1>18, RunIsProcessed DEF got
<1>20. Notified(s)
  <2>1. acked + k \in Int /\ acked <= acked + k
    BY <1>6, <1>11
  <2>2. open[r] => Ids(Rest(list, k)) \subseteq Got(s)
    BY <1>12, <1>18 DEF left
  <2>3. OrderedList(P, mSendEventQueue[s]) /\ UnorderedList(P, mUnorderedSendEventQueue[s])
    BY DEF SideInv, ListsInv
  <2>. QED
    BY <1>14, <1>16, <1>19, <2>1, <2>2, <2>3 DEF Notified
<1>21. /\ ChannelInv(s)' /\ PostedInv(s)' /\ ListsInv(s)'
       /\ InOrderFrom(posted[s], processed[s], 0)'
       /\ PacketsApart(s)' /\ UnreadInv(s)' /\ LooseInv(s)' /\ ReadInv(s)'
  BY <1>1, <1>20, NotifyKeeps
<1>22. SenderInv(s)'
  <2>1. Strict(P, A) \subseteq A
    BY DEF Strict
  <2>. DEFINE S == Strict(P, A)
              D == Ids(processed[s])
  <2>2. /\ A \intersect (N \union Q \union U \union (dl \union ul) \union others) = {}
        /\ others \intersect (N \union Q \union U \union (dl \union ul)) = {}
        /\ dl \intersect ul = {}
        /\ N \intersect Q = {} /\ (N \union Q \union U) \intersect (dl \union ul) = {}
        /\ Q \union U \union N \union (dl \union ul) \union A \union others = DOMAIN P
        /\ S \subseteq A /\ N \union S = got \union left /\ got \intersect left = {}
        /\ loose = A \ S
    BY <1>3, <1>9, <1>12, <1>15, <2>1
  <2>20. N \intersect U = {}
    <3>1. Strict(P, N) = N
      BY <1>6, <1>7, OrderedIds DEF OrderedList
    <3>2. Strict(P, U) = {}
      BY UnorderedIds DEF SideInv, ListsInv, UnorderedList, TypeOK
    <3>. QED
      BY <3>1, <3>2 DEF Strict
  <2>. HIDE DEF A, Q, U, N, dl, ul, others, S, D
  <2>3. (dl \union loose \union got) \intersect ul = {}
    BY <2>2
  <2>4. left \intersect Q = {} /\ (left \union Q \union U) \intersect (dl \union loose \union got \union ul) = {}
    BY <2>2, <2>20
  <2>5. others \intersect (left \union Q \union U \union (dl \union loose \union got \union ul)) = {}
    BY <2>2
  <2>6. Q \union U \union left \union (dl \union loose \union got \union ul) \union others = DOMAIN P
    BY <2>2
  <2>7. open[r] => dl \union loose \union got \subseteq D
    BY <1>3, <1>18, <1>19 DEF D, dl
  <2>8. (Q \union U \union ul) \intersect Got(s) = {}
    BY <1>3 DEF Q, U, ul
  <2>9. Got(s)' = Got(s)
    BY <1>17 DEF Got
  <2>10. \A p \in DOMAIN eventLists'[s] :
           Ids(eventLists'[s][p]) \intersect (left \union Q \union U \union (dl \union loose \union got \union ul)) = {}
    BY <2>5 DEF others
  <2>. QED
    BY <1>16, <1>17, <2>3, <2>4, <2>6, <2>7, <2>8, <2>9, <2>10
    DEF SenderInv, Pk, Q, U, ul, dl, others, left, D
<1>23. TypeOK'
  <2>1. notified' \in [Side -> Nat] /\ confirmed' \in [Side -> SUBSET Nat]
    <3>1. /\ notified \in [Side -> Nat] /\ confirmed \in [Side -> SUBSET Nat]
          /\ arrived \in [Side -> SUBSET Nat]
      BY DEF TypeOK, ChanTypeOK
    <3>2. PICK c : confirmed' = [confirmed EXCEPT ![s] = @ \union c] /\ c \subseteq arrived[s]
      BY <1>17
    <3>3. notified[s] + 1 \in Nat /\ c \subseteq Nat
      BY <3>1, <3>2
    <3>. QED
      BY <1>17, <3>1, <3>2, <3>3
  <2>2. mNotifyEventList' \in [Side -> Seq(OrderedEvent)]
    BY <1>1, <1>6, <1>13
  <2>3. mLastAckedEventSeq' \in [Side -> Nat \union {-1}]
    <3>1. acked + k \in Nat \union {-1}
      BY <1>6, <1>11
    <3>. QED
      BY <1>1, <1>6, <3>1
  <2>4. delivered' \in [Side -> SUBSET Nat]
    <3>1. DOMAIN P \subseteq Nat
      BY <1>6, LenProperties
    <3>2. Ids(list) \subseteq DOMAIN P
      BY <1>9, IdOfMine DEF OrderedList
    <3>3. A \subseteq DOMAIN P
      BY <1>3, IdOfMine
    <3>4. loose \subseteq Nat /\ got \subseteq Nat
      BY <1>12, <1>15, <3>1, <3>2, <3>3
    <3>. QED
      BY <1>1, <1>6, <3>4
  <2>. QED
    BY <1>4, <1>16, <1>17, <2>1, <2>2, <2>3, <2>4 DEF TypeOK, ChanTypeOK
<1>24. Quiet(r) /\ SameLists(r)
  <2>1. /\ eventLists'[r] = eventLists[r] /\ notified'[r] = notified[r] /\ delivered'[r] = delivered[r]
        /\ mNotifyEventList'[r] = mNotifyEventList[r] /\ mLastAckedEventSeq'[r] = mLastAckedEventSeq[r]
    BY <1>1, <1>5, <1>6, <1>17 DEF TypeOK, ChanTypeOK
  <2>. QED
    BY <1>16, <1>17, <2>1 DEF Quiet, SameLists
<1>. QED
  BY <1>21, <1>22, <1>23, <1>24 DEF SideInv

(* packetDropped keeps the invariant.                                      *)
LEMMA DroppedStep ==
  ASSUME NEW s \in Side, TypeOK, SideInv(s), PacketDropped(s)
  PROVE  TypeOK' /\ SideInv(s)' /\ Quiet(Peer(s)) /\ SameLists(Peer(s))
<1>. DEFINE P == posted[s]
            r == Peer(s)
            events == Head(eventLists[s])
            q2 == OrderedAgain(mSendEventQueue[s], events)
            u2 == UnorderedAgain(mUnorderedSendEventQueue[s], events)
            A == Ids(events)
            Q == Ids(mSendEventQueue[s])
            U == Ids(mUnorderedSendEventQueue[s])
            N == Ids(mNotifyEventList[s])
            dl == delivered[s]
            ul == undelivered[s]
            others == UNION {Ids(eventLists'[s][p]) : p \in DOMAIN eventLists'[s]}
            lost == IdsOf(events, {"Unguaranteed"})
            S == Strict(P, A)
            G == Guaranteed(P, A)
            L == Loose(P, A)
<1>1. /\ HandleNotify(s) /\ notified[s] + 1 \notin arrived[s]
      /\ mSendEventQueue' = [mSendEventQueue EXCEPT ![s] = q2]
      /\ mUnorderedSendEventQueue' = [mUnorderedSendEventQueue EXCEPT ![s] = u2]
      /\ undelivered' = [undelivered EXCEPT ![s] = @ \union lost]
      /\ UNCHANGED <<mLastAckedEventSeq, mNotifyEventList, delivered>>
  BY DEF PacketDropped, IsDropped
<1>2. HeadPacket(s, events)
  BY <1>1, HeadOf
<1>3. /\ events \in Seq(Event) /\ PacketList(P, events) /\ Mine(P, events)
      /\ A \intersect (N \union Q \union U \union (dl \union ul) \union others) = {}
      /\ others \intersect (N \union Q \union U \union (dl \union ul)) = {}
      /\ (Q \union U \union ul) \intersect Got(s) = {}
      /\ dl \intersect ul = {}
      /\ N \intersect Q = {} /\ (N \union Q \union U) \intersect (dl \union ul) = {}
      /\ Q \union U \union N \union (dl \union ul) \union A \union others = DOMAIN P
      /\ open[r] => dl \subseteq Ids(processed[s])
  BY <1>2 DEF HeadPacket
<1>4. /\ 1 \in DOMAIN eventLists[s] /\ events = eventLists[s][1]
      /\ eventLists' \in [Side -> Seq(Seq(Event))]
  BY <1>1, MovedUp
<1>5. r \in Side /\ r # s /\ Peer(r) = s
  BY PeerSide
<1>6. /\ mSendEventQueue \in [Side -> Seq(OrderedEvent)]
      /\ mUnorderedSendEventQueue \in [Side -> Seq(UnorderedEvent)]
      /\ undelivered \in [Side -> SUBSET Nat] /\ P \in Seq(Event)
      /\ mSendEventQueue[s] \in Seq(OrderedEvent)
      /\ mUnorderedSendEventQueue[s] \in Seq(UnorderedEvent)
  BY DEF TypeOK
<1>7. /\ OrderedList(P, mSendEventQueue[s]) /\ UnorderedList(P, mUnorderedSendEventQueue[s])
      /\ SeqsDiffer(P)
  BY <1>6, PostedDiffer DEF SideInv, ListsInv
<1>8. q2 \in Seq(OrderedEvent)
  BY <1>3, <1>6, WithOrderedType DEF OrderedAgain
<1>9. OrderedList(P, q2) /\ Ids(q2) = Q \union S
  <2>1. Q \intersect A = {}
    BY <1>3
  <2>. QED
    BY <1>3, <1>6, <1>7, <2>1, WithOrderedRight DEF OrderedAgain
<1>10. u2 \in Seq(UnorderedEvent)
  BY <1>3, <1>6, AgainRight
<1>11. UnorderedList(P, u2) /\ Ids(u2) = U \union G
  <2>1. U \intersect A = {}
    BY <1>3
  <2>. QED
    BY <1>3, <1>6, <1>7, <2>1, AgainRight
<1>12. lost = L
  BY <1>3, IdsOfTypes DEF Loose
<1>13. A = S \union G \union L /\ S \intersect G = {} /\ S \intersect L = {} /\ G \intersect L = {}
  <2>1. ASSUME NEW i \in A PROVE P[i].type \in {"GuaranteedOrdered", "Guaranteed", "Unguaranteed"}
    <3>1. i \in DOMAIN P
      BY <1>3, IdOfMine
    <3>2. P[i] \in Event
      BY <1>6, <3>1, LenProperties, ElementOfSeq
    <3>. QED
      BY <3>2 DEF Event, OrderedEvent, UnorderedEvent
  <2>. QED
    BY <2>1 DEF Strict, Guaranteed, Loose, IsOrdered
<1>14. Loose(P, Ids(u2)) = Loose(P, U)
  <2>1. Loose(P, G) = {}
    BY DEF Loose, Guaranteed
  <2>2. Loose(P, Ids(u2)) = Loose(P, U) \union Loose(P, G)
    BY <1>11, LooseUnion
  <2>. QED
    BY <2>1, <2>2
<1>. HIDE DEF q2, u2
<1>15. /\ mSendEventQueue'[s] = q2 /\ mUnorderedSendEventQueue'[s] = u2
       /\ undelivered'[s] = ul \union L
       /\ mLastAckedEventSeq' = mLastAckedEventSeq /\ mNotifyEventList' = mNotifyEventList
       /\ delivered' = delivered
  BY <1>1, <1>6, <1>12
<1>16. /\ sent' = sent /\ arrived' = arrived /\ open' = open /\ posted' = posted
       /\ processed' = processed /\ mWaitSeqEvents' = mWaitSeqEvents
       /\ mNextRecvEventSeq' = mNextRecvEventSeq /\ mNextSendEventSeq' = mNextSendEventSeq
       /\ notified' = [notified EXCEPT ![s] = notified[s] + 1]
       /\ eventLists' = [eventLists EXCEPT ![s] = Tail(@)]
       /\ \E c : confirmed' = [confirmed EXCEPT ![s] = @ \union c] /\ c \subseteq arrived[s]
  <2>. DEFINE c == {m \in arrived[s] : notified[s] < m /\ m <= notified[s] + 1}
  <2>1. confirmed' = [confirmed EXCEPT ![s] = @ \union c] /\ c \subseteq arrived[s]
    BY <1>1 DEF HandleNotify, NotifyUpTo
  <2>2. \E cc : confirmed' = [confirmed EXCEPT ![s] = @ \union cc] /\ cc \subseteq arrived[s]
    BY <2>1
  <2>. QED
    BY <1>1, <2>2 DEF HandleNotify, NotifyUpTo, recvVars
<1>17. A \intersect Got(s) = {}
  BY <1>1, <1>4 DEF SideInv, UnreadInv, Pk, HasArrived
<1>18. Notified(s)
  <2>1. mLastAckedEventSeq[s] \in Int
    <3>1. mLastAckedEventSeq[s] \in Nat \union {-1}
      BY DEF TypeOK
    <3>. QED
      BY <3>1
  <2>2. OrderedList(P, mNotifyEventList[s])
    BY DEF SideInv, ListsInv
  <2>3. open[r] => mLastAckedEventSeq[s] < mNextRecvEventSeq[r] /\ N \subseteq Got(s)
    BY DEF SideInv, ReadInv
  <2>4. mLastAckedEventSeq[s] <= mLastAckedEventSeq[s]
    BY <2>1
  <2>. QED
    BY <1>9, <1>11, <1>14, <1>15, <2>1, <2>2, <2>3, <2>4 DEF Notified
<1>19. /\ ChannelInv(s)' /\ PostedInv(s)' /\ ListsInv(s)'
       /\ InOrderFrom(posted[s], processed[s], 0)'
       /\ PacketsApart(s)' /\ UnreadInv(s)' /\ LooseInv(s)' /\ ReadInv(s)'
  BY <1>1, <1>18, NotifyKeeps
<1>20. SenderInv(s)'
  <2>1. Ids(q2) = Q \union S /\ Ids(u2) = U \union G
    BY <1>9, <1>11
  <2>. DEFINE D == Ids(processed[s])
  <2>. HIDE DEF A, Q, U, N, dl, ul, others, S, G, L, D
  <2>2. ((Q \union S) \union (U \union G) \union (ul \union L)) \intersect Got(s) = {}
    BY <1>3, <1>13, <1>17
  <2>3. dl \intersect (ul \union L) = {}
    BY <1>3, <1>13
  <2>4. N \intersect (Q \union S) = {}
    BY <1>3, <1>13
  <2>5. (N \union (Q \union S) \union (U \union G)) \intersect (dl \union (ul \union L)) = {}
    BY <1>3, <1>13
  <2>6. others \intersect (N \union (Q \union S) \union (U \union G) \union (dl \union (ul \union L))) = {}
    BY <1>3, <1>13
  <2>7. (Q \union S) \union (U \union G) \union N \union (dl \union (ul \union L)) \union others = DOMAIN P
    BY <1>3, <1>13
  <2>8. open[r] => dl \subseteq D
    BY <1>3 DEF D, dl
  <2>9. Got(s)' = Got(s)
    BY <1>16 DEF Got
  <2>10. \A p \in DOMAIN eventLists'[s] :
           Ids(eventLists'[s][p])
             \intersect (N \union (Q \union S) \union (U \union G) \union (dl \union (ul \union L))) = {}
    BY <2>6 DEF others
  <2>. QED
    BY <1>15, <1>16, <2>1, <2>2, <2>3, <2>4, <2>5, <2>7, <2>8, <2>9, <2>10
    DEF SenderInv, Pk, N, ul, dl, others, D
<1>21. TypeOK'
  <2>1. notified' \in [Side -> Nat] /\ confirmed' \in [Side -> SUBSET Nat]
    <3>1. /\ notified \in [Side -> Nat] /\ confirmed \in [Side -> SUBSET Nat]
          /\ arrived \in [Side -> SUBSET Nat]
      BY DEF TypeOK, ChanTypeOK
    <3>2. PICK c : confirmed' = [confirmed EXCEPT ![s] = @ \union c] /\ c \subseteq arrived[s]
      BY <1>16
    <3>3. notified[s] + 1 \in Nat /\ c \subseteq Nat
      BY <3>1, <3>2
    <3>. QED
      BY <1>16, <3>1, <3>2, <3>3
  <2>2. /\ mSendEventQueue' \in [Side -> Seq(OrderedEvent)]
        /\ mUnorderedSendEventQueue' \in [Side -> Seq(UnorderedEvent)]
    BY <1>1, <1>6, <1>8, <1>10
  <2>3. undelivered' \in [Side -> SUBSET Nat]
    <3>1. DOMAIN P \subseteq Nat
      BY <1>6, LenProperties
    <3>2. A \subseteq DOMAIN P
      BY <1>3, IdOfMine
    <3>3. lost \subseteq Nat
      BY <1>12, <1>13, <3>1, <3>2
    <3>. QED
      BY <1>1, <1>6, <3>3
  <2>. QED
    BY <1>4, <1>15, <1>16, <2>1, <2>2, <2>3 DEF TypeOK, ChanTypeOK
<1>22. Quiet(r) /\ SameLists(r)
  <2>1. /\ eventLists'[r] = eventLists[r] /\ notified'[r] = notified[r] /\ undelivered'[r] = undelivered[r]
        /\ mSendEventQueue'[r] = mSendEventQueue[r]
        /\ mUnorderedSendEventQueue'[r] = mUnorderedSendEventQueue[r]
    BY <1>1, <1>5, <1>6, <1>16 DEF TypeOK, ChanTypeOK
  <2>. QED
    BY <1>15, <1>16, <2>1 DEF Quiet, SameLists
<1>. QED
  BY <1>19, <1>20, <1>21, <1>22 DEF SideInv

-----------------------------------------------------------------------------
(* The invariant.                                                          *)
LEMMA InitInv == Init => IInv
<1>. SUFFICES ASSUME Init PROVE IInv
  OBVIOUS
<1>1. \A S : << >> \in Seq(S) /\ Len(<< >>) = 0 /\ DOMAIN << >> = {}
  BY EmptySeq, LenProperties
<1>2. TypeOK
  BY <1>1, InitSeqAssumption DEF Init, ChanInit, TypeOK, ChanTypeOK
<1>3. ASSUME NEW s \in Side PROVE SideInv(s)
  <2>1. /\ sent[s] = InitSeq[s] /\ notified[s] = InitSeq[s] /\ arrived[s] = {} /\ InitSeq[s] \in Nat
        /\ mNextSendEventSeq[s] = 0 /\ mLastAckedEventSeq[s] = -1 /\ mNextRecvEventSeq[Peer(s)] = 0
        /\ mSendEventQueue[s] = << >> /\ mUnorderedSendEventQueue[s] = << >>
        /\ eventLists[s] = << >> /\ mNotifyEventList[s] = << >> /\ mWaitSeqEvents[Peer(s)] = << >>
        /\ posted[s] = << >> /\ delivered[s] = {} /\ undelivered[s] = {} /\ processed[s] = << >>
    BY PeerSide, InitSeqAssumption DEF Init, ChanInit
  <2>2. Ids(<< >>) = {}
    BY EmptyList
  <2>3. \A P : /\ OrderedList(P, << >>) /\ UnorderedList(P, << >>)
               /\ Loose(P, {}) = {} /\ Strict(P, {}) = {} /\ Seqs(P, {}) = {}
    BY EmptyList DEF Seqs
  <2>4. ChannelInv(s) /\ PostedInv(s)
    BY <1>1, <2>1 DEF ChannelInv, PostedInv
  <2>5. ListsInv(s)
    BY <1>1, <2>1, <2>3 DEF ListsInv
  <2>6. InOrderFrom(posted[s], processed[s], 0)
    BY <1>1, <2>1 DEF InOrderFrom
  <2>7. PacketsApart(s) /\ UnreadInv(s) /\ LooseInv(s)
    BY <1>1, <2>1, <2>2, <2>3 DEF PacketsApart, UnreadInv, LooseInv, Below
  <2>8. ReadInv(s)
    <3>1. 0 .. 0 - 1 = {} /\ -1 < 0
      OBVIOUS
    <3>. QED
      BY <1>1, <2>1, <2>2, <2>3, <3>1 DEF ReadInv, Below
  <2>9. SenderInv(s)
    BY <1>1, <2>1, <2>2 DEF SenderInv, Got
  <2>. QED
    BY <2>4, <2>5, <2>6, <2>7, <2>8, <2>9 DEF SideInv
<1>. QED
  BY <1>2, <1>3 DEF IInv

(* Every step keeps it.                                                    *)
LEMMA StepInv == IInv /\ [Next]_vars => IInv'
<1>. SUFFICES ASSUME IInv, [Next]_vars PROVE IInv'
  OBVIOUS
<1>. USE DEF IInv
<1>0. TypeOK /\ \A s \in Side : SideInv(s)
  OBVIOUS
<1>1. ASSUME NEW s \in Side, TypeOK', SideInv(s)', SideInv(Peer(s))' PROVE IInv'
  BY <1>1, PeerSide
<1>2. ASSUME NEW s \in Side, TypeOK', SideInv(s)', Quiet(Peer(s)), SameLists(Peer(s)) PROVE IInv'
  <2>1. SideInv(Peer(s))'
    BY <1>0, <1>2, PeerSide, QuietStep
  <2>. QED
    BY <1>1, <1>2, <2>1
<1>3. ASSUME NEW s \in Side, PostNetEvent(s) PROVE IInv'
  BY <1>0, <1>2, <1>3, PostStep
<1>4. ASSUME NEW s \in Side, WritePacket(s) PROVE IInv'
  BY <1>0, <1>2, <1>4, WriteStep
<1>5. ASSUME NEW s \in Side, PacketReceived(s) PROVE IInv'
  BY <1>0, <1>2, <1>5, ReceivedStep
<1>6. ASSUME NEW s \in Side, PacketDropped(s) PROVE IInv'
  BY <1>0, <1>2, <1>6, DroppedStep
<1>7. ASSUME NEW s \in Side, ReadPacket(s) PROVE IInv'
  <2>1. TypeOK' /\ SideInv(Peer(s))' /\ Quiet(s) /\ SameLists(s)
    BY <1>0, <1>7, PeerSide, ReadStep
  <2>2. SideInv(s)'
    BY <1>0, <2>1, QuietStep
  <2>. QED
    BY <1>1, <2>1, <2>2
<1>8. ASSUME NEW s \in Side, ReadPacketFails(s) PROVE IInv'
  BY <1>0, <1>1, <1>8, PeerSide, ReadFailsStep
<1>9. ASSUME NEW s \in Side, Disconnect(s) PROVE IInv'
  BY <1>0, <1>1, <1>9, PeerSide, DisconnectStep
<1>10. CASE UNCHANGED vars
  <2>1. TypeOK'
    BY <1>0, <1>10 DEF vars, chanVars, sendVars, recvVars, toldVars, TypeOK, ChanTypeOK
  <2>2. \A s \in Side : Quiet(s) /\ SameLists(s)
    BY <1>10 DEF vars, chanVars, sendVars, recvVars, toldVars, Quiet, SameLists
  <2>3. \A s \in Side : SideInv(s)'
    BY <1>0, <2>2, QuietStep
  <2>. QED
    BY <2>1, <2>3
<1>. QED
  BY <1>3, <1>4, <1>5, <1>6, <1>7, <1>8, <1>9, <1>10 DEF Next

(* It holds in every state.                                                *)
LEMMA SpecInv == Spec => []IInv
BY InitInv, StepInv, PTL DEF Spec

-----------------------------------------------------------------------------
(* What the invariant says.                                                *)
JoinOf(a, b, c) ==
  /\ \A i \in DOMAIN c : \/ i \in DOMAIN a /\ c[i] = a[i]
                         \/ i - Len(a) \in DOMAIN b /\ c[i] = b[i - Len(a)]
  /\ \A i \in DOMAIN a : i \in DOMAIN c /\ c[i] = a[i]
  /\ \A i \in DOMAIN b : Len(a) + i \in DOMAIN c /\ c[Len(a) + i] = b[i]

(* Where an element of two lists in one comes from, under a name.          *)
LEMMA JoinedIs ==
  ASSUME NEW S, NEW a \in Seq(S), NEW b \in Seq(S), NEW c, c = a \o b
  PROVE  JoinOf(a, b, c)
BY JoinedAt DEF JoinOf

(* A tuple of three.                                                       *)
LEMMA TripleLists ==
  ASSUME NEW S, NEW a \in S, NEW b \in S, NEW c \in S, NEW t, t = <<a, b, c>>
  PROVE  t \in Seq(S) /\ Len(t) = 3 /\ t[1] = a /\ t[2] = b /\ t[3] = c
OBVIOUS

(* The lists of s one by one.                                              *)
LEMMA ListsAre ==
  ASSUME NEW s \in Side, TypeOK
  PROVE  \A a \in DOMAIN Lists(s) :
           \/ a = 1 /\ Lists(s)[a] = mSendEventQueue[s]
           \/ a = 2 /\ Lists(s)[a] = mUnorderedSendEventQueue[s]
           \/ a = 3 /\ Lists(s)[a] = mNotifyEventList[s]
           \/ \E p \in DOMAIN eventLists[s] : a = 3 + p /\ a > 3 /\ Lists(s)[a] = eventLists[s][p]
<1>. DEFINE t == <<mSendEventQueue[s], mUnorderedSendEventQueue[s], mNotifyEventList[s]>>
            e == eventLists[s]
            c == t \o e
<1>1. /\ mSendEventQueue[s] \in Seq(Event) /\ mUnorderedSendEventQueue[s] \in Seq(Event)
      /\ mNotifyEventList[s] \in Seq(Event)
  BY EventTypes DEF TypeOK
<1>2. /\ t \in Seq(Seq(Event)) /\ Len(t) = 3 /\ t[1] = mSendEventQueue[s]
      /\ t[2] = mUnorderedSendEventQueue[s] /\ t[3] = mNotifyEventList[s]
  BY <1>1, TripleLists
<1>3. e \in Seq(Seq(Event))
  BY DEF TypeOK
<1>4. c = t \o e /\ Lists(s) = c
  BY DEF Lists
<1>. HIDE DEF t, e, c
<1>5. \A i \in DOMAIN c : \/ i \in DOMAIN t /\ c[i] = t[i]
                          \/ i - Len(t) \in DOMAIN e /\ c[i] = e[i - Len(t)]
  <2>1. t \in Seq(Seq(Event)) /\ e \in Seq(Seq(Event)) /\ c = t \o e
    BY <1>2, <1>3, <1>4
  <2>2. JoinOf(t, e, c)
    BY <2>1, JoinedIs
  <2>. QED
    BY <2>2 DEF JoinOf
<1>6. DOMAIN t = 1 .. 3 /\ DOMAIN e = 1 .. Len(e) /\ Len(e) \in Nat
  BY <1>2, <1>3, LenProperties
<1>7. \A i \in DOMAIN c : i \in Int
  <2>1. c \in Seq(Seq(Event))
    BY <1>2, <1>3, <1>4, Joined
  <2>. QED
    BY <2>1, LenProperties
<1>8. ASSUME NEW a \in DOMAIN c
      PROVE  \/ a = 1 /\ c[a] = mSendEventQueue[s]
             \/ a = 2 /\ c[a] = mUnorderedSendEventQueue[s]
             \/ a = 3 /\ c[a] = mNotifyEventList[s]
             \/ \E p \in DOMAIN e : a = 3 + p /\ a > 3 /\ c[a] = e[p]
  <2>1. CASE a \in DOMAIN t /\ c[a] = t[a]
    <3>1. a = 1 \/ a = 2 \/ a = 3
      BY <1>6, <2>1
    <3>. QED
      BY <1>2, <2>1, <3>1
  <2>2. CASE a - 3 \in DOMAIN e /\ c[a] = e[a - 3]
    <3>1. a = 3 + (a - 3) /\ a > 3
      BY <1>6, <1>7, <2>2
    <3>. QED
      BY <2>2, <3>1
  <2>. QED
    BY <1>2, <1>5, <2>1, <2>2
<1>. QED
  BY <1>4, <1>8 DEF e

(* The ids in all lists of s.                                              *)
LEMMA AllListed ==
  ASSUME NEW s \in Side, TypeOK
  PROVE  IdsIn(Lists(s)) = Ids(mSendEventQueue[s]) \union Ids(mUnorderedSendEventQueue[s])
           \union Ids(mNotifyEventList[s]) \union UNION {Pk(s, p) : p \in DOMAIN eventLists[s]}
<1>. DEFINE t == <<mSendEventQueue[s], mUnorderedSendEventQueue[s], mNotifyEventList[s]>>
            e == eventLists[s]
            c == t \o e
            all == Ids(mSendEventQueue[s]) \union Ids(mUnorderedSendEventQueue[s])
                     \union Ids(mNotifyEventList[s]) \union UNION {Pk(s, p) : p \in DOMAIN e}
<1>1. /\ mSendEventQueue[s] \in Seq(Event) /\ mUnorderedSendEventQueue[s] \in Seq(Event)
      /\ mNotifyEventList[s] \in Seq(Event)
  BY EventTypes DEF TypeOK
<1>2. /\ t \in Seq(Seq(Event)) /\ Len(t) = 3 /\ t[1] = mSendEventQueue[s]
      /\ t[2] = mUnorderedSendEventQueue[s] /\ t[3] = mNotifyEventList[s]
  BY <1>1, TripleLists
<1>3. e \in Seq(Seq(Event))
  BY DEF TypeOK
<1>4. c = t \o e /\ Lists(s) = c
  BY DEF Lists
<1>5. \A a \in DOMAIN c : Ids(c[a]) \subseteq all
  BY <1>4, ListsAre DEF Pk
<1>. HIDE DEF t, e, c
<1>6. /\ \A i \in DOMAIN t : i \in DOMAIN c /\ c[i] = t[i]
      /\ \A i \in DOMAIN e : Len(t) + i \in DOMAIN c /\ c[Len(t) + i] = e[i]
  <2>1. t \in Seq(Seq(Event)) /\ e \in Seq(Seq(Event)) /\ c = t \o e
    BY <1>2, <1>3, <1>4
  <2>2. JoinOf(t, e, c)
    BY <2>1, JoinedIs
  <2>. QED
    BY <2>2 DEF JoinOf
<1>7. DOMAIN t = 1 .. 3
  BY <1>2, LenProperties
<1>8. /\ 1 \in DOMAIN c /\ c[1] = mSendEventQueue[s]
      /\ 2 \in DOMAIN c /\ c[2] = mUnorderedSendEventQueue[s]
      /\ 3 \in DOMAIN c /\ c[3] = mNotifyEventList[s]
  BY <1>2, <1>6, <1>7
<1>9. \A p \in DOMAIN e : \E a \in DOMAIN c : Pk(s, p) = Ids(c[a])
  BY <1>6 DEF Pk, e
<1>10. all \subseteq IdsIn(c)
  <2>1. \A a \in DOMAIN c : Ids(c[a]) \subseteq IdsIn(c)
    BY DEF IdsIn
  <2>2. \A p \in DOMAIN e : Pk(s, p) \subseteq IdsIn(c)
    BY <1>9, <2>1
  <2>. QED
    BY <1>8, <2>1, <2>2
<1>11. IdsIn(c) \subseteq all
  BY <1>5 DEF IdsIn
<1>. QED
  BY <1>4, <1>10, <1>11 DEF e

(* The ids of the lists are apart (SenderInv, PacketsApart), and no list   *)
(* has an id twice (ListsInv).                                             *)
LEMMA InOnePlace == IInv => EventInOnePlace
<1>. SUFFICES ASSUME IInv, NEW s \in Side, open[s]
     PROVE  /\ NoneTwice(Lists(s))
            /\ IdsIn(Lists(s)) \intersect (delivered[s] \union undelivered[s]) = {}
            /\ delivered[s] \intersect undelivered[s] = {}
            /\ IdsIn(Lists(s)) \union delivered[s] \union undelivered[s] = DOMAIN posted[s]
  BY DEF EventInOnePlace
<1>. DEFINE P == posted[s]
            Q == Ids(mSendEventQueue[s])
            U == Ids(mUnorderedSendEventQueue[s])
            N == Ids(mNotifyEventList[s])
            told == delivered[s] \union undelivered[s]
            lists == Lists(s)
<1>1. TypeOK /\ SideInv(s)
  BY DEF IInv
<1>2. /\ delivered[s] \intersect undelivered[s] = {}
      /\ N \intersect Q = {} /\ (N \union Q \union U) \intersect told = {}
      /\ \A p \in DOMAIN eventLists[s] : Pk(s, p) \intersect (N \union Q \union U \union told) = {}
      /\ Q \union U \union N \union told \union UNION {Pk(s, p) : p \in DOMAIN eventLists[s]} = DOMAIN P
  BY <1>1 DEF SideInv, SenderInv
<1>3. IdsIn(lists) = Q \union U \union N \union UNION {Pk(s, p) : p \in DOMAIN eventLists[s]}
  BY <1>1, AllListed
<1>4. Q \intersect U = {} /\ N \intersect U = {}
  <2>1. /\ mSendEventQueue[s] \in Seq(OrderedEvent) /\ mNotifyEventList[s] \in Seq(OrderedEvent)
        /\ mUnorderedSendEventQueue[s] \in Seq(UnorderedEvent)
    BY <1>1 DEF TypeOK
  <2>2. Strict(P, Q) = Q
    BY <1>1, <2>1, OrderedIds DEF SideInv, ListsInv, OrderedList
  <2>3. Strict(P, N) = N
    BY <1>1, <2>1, OrderedIds DEF SideInv, ListsInv, OrderedList
  <2>4. Strict(P, U) = {}
    BY <1>1, <2>1, UnorderedIds DEF SideInv, ListsInv, UnorderedList
  <2>. QED
    BY <2>2, <2>3, <2>4 DEF Strict
<1>5. \A p, q \in DOMAIN eventLists[s] : p # q => Pk(s, p) \intersect Pk(s, q) = {}
  BY <1>1 DEF SideInv, PacketsApart
<1>6. \A a \in DOMAIN lists :
        \/ a = 1 /\ lists[a] = mSendEventQueue[s]
        \/ a = 2 /\ lists[a] = mUnorderedSendEventQueue[s]
        \/ a = 3 /\ lists[a] = mNotifyEventList[s]
        \/ \E p \in DOMAIN eventLists[s] : a = 3 + p /\ a > 3 /\ lists[a] = eventLists[s][p]
  BY <1>1, ListsAre
<1>7. \A a \in DOMAIN lists : Distinct(lists[a])
  <2>1. Distinct(mSendEventQueue[s]) /\ Distinct(mNotifyEventList[s])
    BY <1>1, SortedOnce DEF TypeOK, SideInv, ListsInv, PacketList, UnorderedList
  <2>2. Distinct(mUnorderedSendEventQueue[s])
    BY <1>1 DEF SideInv, ListsInv, UnorderedList
  <2>3. \A p \in DOMAIN eventLists[s] : Distinct(eventLists[s][p])
    BY <1>1 DEF SideInv, ListsInv, PacketList, UnorderedList
  <2>. QED
    BY <1>6, <2>1, <2>2, <2>3
<1>. HIDE DEF lists, Q, U, N, told
<1>8. \A a \in DOMAIN lists :
        \/ a = 1 /\ Ids(lists[a]) = Q
        \/ a = 2 /\ Ids(lists[a]) = U
        \/ a = 3 /\ Ids(lists[a]) = N
        \/ \E p \in DOMAIN eventLists[s] : a = 3 + p /\ a > 3 /\ Ids(lists[a]) = Pk(s, p)
  BY <1>6 DEF Q, U, N, Pk
<1>9. ASSUME NEW a \in DOMAIN lists, NEW b \in DOMAIN lists, a # b
      PROVE  Ids(lists[a]) \intersect Ids(lists[b]) = {}
  <2>. DEFINE small(i, X) == (i = 1 /\ X = Q) \/ (i = 2 /\ X = U) \/ (i = 3 /\ X = N)
  <2>1. CASE small(a, Ids(lists[a])) /\ small(b, Ids(lists[b]))
    BY <1>2, <1>4, <1>9, <2>1
  <2>2. CASE small(a, Ids(lists[a])) /\ \E p \in DOMAIN eventLists[s] : Ids(lists[b]) = Pk(s, p)
    BY <1>2, <2>2
  <2>3. CASE small(b, Ids(lists[b])) /\ \E p \in DOMAIN eventLists[s] : Ids(lists[a]) = Pk(s, p)
    BY <1>2, <2>3
  <2>4. CASE \E p, q \in DOMAIN eventLists[s] :
               a = 3 + p /\ b = 3 + q /\ Ids(lists[a]) = Pk(s, p) /\ Ids(lists[b]) = Pk(s, q)
    BY <1>5, <1>9, <2>4
  <2>5. \/ small(a, Ids(lists[a]))
        \/ \E p \in DOMAIN eventLists[s] : a = 3 + p /\ Ids(lists[a]) = Pk(s, p)
    BY <1>8
  <2>6. \/ small(b, Ids(lists[b]))
        \/ \E p \in DOMAIN eventLists[s] : b = 3 + p /\ Ids(lists[b]) = Pk(s, p)
    BY <1>8
  <2>. HIDE DEF small
  <2>. QED
    BY <2>1, <2>2, <2>3, <2>4, <2>5, <2>6
<1>10. NoneTwice(lists)
  <2>. SUFFICES ASSUME NEW a \in DOMAIN lists, NEW b \in DOMAIN lists,
                       NEW i \in DOMAIN lists[a], NEW j \in DOMAIN lists[b],
                       lists[a][i].id = lists[b][j].id
                PROVE  a = b /\ i = j
    BY DEF NoneTwice
  <2>1. lists[a][i].id \in Ids(lists[a]) /\ lists[a][i].id \in Ids(lists[b])
    BY DEF Ids
  <2>2. a = b
    BY <1>9, <2>1
  <2>. QED
    BY <1>7, <2>2 DEF Distinct
<1>11. /\ IdsIn(lists) \intersect told = {}
       /\ IdsIn(lists) \union told = DOMAIN P
  BY <1>2, <1>3
<1>. QED
  BY <1>2, <1>10, <1>11 DEF lists, told

(* processed is a list without an id twice.                                *)
LEMMA Once == IInv => ProcessedOnce
BY DEF IInv, SideInv, ListsInv, UnorderedList, Distinct, ProcessedOnce

(* Both halves are parts of the invariant.                                 *)
LEMMA InOrder == IInv => EventsInOrder
<1>. SUFFICES ASSUME IInv PROVE EventsInOrder
  OBVIOUS
<1>1. OrderedInOrder
  BY OrderedInOrderIs DEF IInv, SideInv
<1>2. UnguaranteedInOrder
  BY DEF IInv, SideInv, ListsInv, UnorderedList, UnguaranteedUp, UnguaranteedInOrder
<1>. QED
  BY <1>1, <1>2 DEF EventsInOrder

(* mWaitSeqEvents has events as they were posted (Mine), sorted, above     *)
(* mNextRecvEventSeq.                                                      *)
LEMMA WaitRight == IInv => WaitListRight
<1>. SUFFICES ASSUME IInv, NEW r \in Side, NEW i \in DOMAIN mWaitSeqEvents[r]
     PROVE  LET list == mWaitSeqEvents[r] IN
            /\ list[i].id \in DOMAIN posted[Peer(r)]
            /\ list[i] = posted[Peer(r)][list[i].id]
            /\ list[i].mSeqCount > mNextRecvEventSeq[r]
            /\ i > 1 => list[i - 1].mSeqCount < list[i].mSeqCount
  BY DEF WaitListRight
<1>. DEFINE s == Peer(r)
            P == posted[s]
            list == mWaitSeqEvents[r]
<1>1. s \in Side /\ Peer(s) = r
  BY PeerSide
<1>2. /\ Mine(P, list) /\ Sorted(list)
      /\ Below({mNextRecvEventSeq[r]}, Seqs(P, Ids(list)))
  BY <1>1 DEF IInv, SideInv, ListsInv, OrderedList, ReadInv
<1>3. list \in Seq(OrderedEvent) /\ mNextRecvEventSeq[r] \in Nat
  BY DEF IInv, TypeOK
<1>. HIDE DEF list, P
<1>4. list[i] \in OrderedEvent /\ list[i].id \in DOMAIN P /\ list[i] = P[list[i].id]
  BY <1>2, <1>3, LenProperties, ElementOfSeq DEF Mine, list
<1>5. list[i].mSeqCount \in Seqs(P, Ids(list)) /\ list[i].mSeqCount \in Nat
  <2>1. list[i].id \in Ids(list)
    BY IdsElt DEF list
  <2>2. IsOrdered(P[list[i].id]) /\ list[i].mSeqCount \in Nat
    BY <1>4 DEF OrderedEvent, IsOrdered
  <2>. QED
    BY <1>4, <2>1, <2>2 DEF Seqs, Strict
<1>6. mNextRecvEventSeq[r] < list[i].mSeqCount
  BY <1>2, <1>5 DEF Below
<1>7. i > 1 => i - 1 \in DOMAIN list /\ i - 1 < i
  BY <1>3, LenProperties DEF list
<1>8. i > 1 => list[i - 1].mSeqCount < list[i].mSeqCount
  BY <1>2, <1>7 DEF Sorted, list
<1>9. list[i].mSeqCount > mNextRecvEventSeq[r]
  BY <1>3, <1>5, <1>6
<1>. QED
  BY <1>4, <1>8, <1>9 DEF list, P

(* What has been told of is related to what has been processed by          *)
(* SenderInv.                                                              *)
LEMMA Truth == IInv => NoticesAreTrue
<1>1. IInv => DeliveredMeansProcessed
  BY DEF IInv, SideInv, SenderInv, DeliveredMeansProcessed
<1>2. IInv => UndeliveredNeverProcessed
  BY DEF IInv, SideInv, SenderInv, Got, UndeliveredNeverProcessed
<1>. QED
  BY <1>1, <1>2 DEF NoticesAreTrue

-----------------------------------------------------------------------------
(* Every list of EventConnection has EventNotes of the kind it is for, and *)
(* every counter stays in its range (TypeOK).                              *)
THEOREM TypeCorrect == Spec => []TypeOK
<1>1. IInv => TypeOK
  BY DEF IInv
<1>. QED
  BY <1>1, SpecInv, PTL

(* No EventNote is lost or copied by postNetEvent, writePacket,            *)
(* packetReceived, packetDropped or the destructor, whatever the network   *)
(* loses.                                                                  *)
THEOREM NoEventIsLost == Spec => []EventInOnePlace
BY SpecInv, InOnePlace, PTL

(* No event is processed twice, however often packetDropped puts it back   *)
(* into its queue.                                                         *)
THEOREM NoneProcessedTwice == Spec => []ProcessedOnce
BY SpecInv, Once, PTL

(* Ordered events are processed in the order of postNetEvent without a     *)
(* gap, unguaranteed ones in that order, whatever the window and the       *)
(* number of bits, as long as the window is not the larger.                *)
THEOREM ProcessedInOrder == Spec => []EventsInOrder
BY SpecInv, InOrder, PTL

(* The number that readPacket rebuilds from its last bits is the one that  *)
(* postNetEvent gave, for every EventSpace and every EventWindow up to it. *)
THEOREM WaitingRight == Spec => []WaitListRight
BY SpecInv, WaitRight, PTL

(* notifyDelivered(true) is only called for what the other side has        *)
(* processed and notifyDelivered(false) for what it never will, while the  *)
(* ends that this is said of are up.                                       *)
THEOREM NotifiedTruly == Spec => []NoticesAreTrue
BY SpecInv, Truth, PTL
=============================================================================
