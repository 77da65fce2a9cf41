--------------------- MODULE ConnectionStringTable_proofs ---------------------
(***************************************************************************)
(* The string table of a connection, proved: a string is read as it was    *)
(* written, and a confirmed entry is there, whatever is lost, as long as   *)
(* no more strings are in flight than twice the entries of the table.  A   *)
(* unit that is taken back leaves doubtful the entries of its own texts    *)
(* and of those after it in its packet, and no others.                     *)
(*                                                                         *)
(* The argument is about the uses in flight, the units of the packets      *)
(* whose fate is not told yet, in the order in which they were written.    *)
(* An entry is taken over only when every other entry has been used since  *)
(* its last use.  A text that comes back to an entry after another one has *)
(* been there is therefore two rounds of the whole table away, too far for *)
(* both to be in flight: the note that confirms an entry speaks of its     *)
(* present text, and nothing in flight is going to change it.              *)
(***************************************************************************)
EXTENDS ConnectionStringTable, FiniteSetTheorems, SequenceTheorems, WellFoundedInduction,
        TLAPS

-----------------------------------------------------------------------------
(* Induction over the natural numbers, with sets, and recursion.           *)

(* A set of natural numbers has a least one.                               *)
LEMMA LeastNat == ASSUME NEW T, T \subseteq Nat, T # {}
  PROVE \E x \in T : \A y \in T : x <= y
<1>. DEFINE R == OpToRel(<, Nat)
<1>1. IsWellFoundedOn(R, Nat)
  BY NatLessThanWellFounded
<1>2. \A x, y \in Nat : <<x, y>> \in R <=> x < y
  BY DEF OpToRel
<1>. HIDE DEF R
<1>3. PICK x \in T : \A y \in T : ~(<<y, x>> \in R)
  BY <1>1, WFMin
<1>4. ASSUME NEW y \in T PROVE x <= y
  <2>1. x \in Nat /\ y \in Nat
    OBVIOUS
  <2>2. ~(y < x)
    BY <1>2, <1>3, <2>1
  <2>. QED
    BY <2>1, <2>2
<1>. QED
  BY <1>4

(* Induction over the natural numbers.                                     *)
LEMMA NatSetInduction ==
  ASSUME NEW T, 0 \in T, \A n \in Nat : n \in T => n + 1 \in T
  PROVE  Nat \subseteq T
<1>1. SUFFICES ASSUME Nat \ T # {} PROVE FALSE
  OBVIOUS
<1>2. PICK x \in Nat \ T : \A y \in Nat \ T : x <= y
  BY <1>1, LeastNat
<1>3. x # 0 /\ x - 1 \in Nat /\ x - 1 \notin Nat \ T
  BY <1>2
<1>. QED
  BY <1>2, <1>3

\* f takes n steps in S from a, the kth of them with g[k].
Steps(f, n, S, a, g) ==
  f \in [0..n -> S] /\ f[0] = a /\ \A k \in 1..n : f[k] = g[k][f[k-1]]

(* There is a function that takes the steps: the recursive definitions f[k *)
(* \in 0 .. n] == ... here choose one.                                     *)
LEMMA RecursionExists ==
  ASSUME NEW n \in Nat, NEW S, NEW a \in S, NEW g \in [1..n -> [S -> S]]
  PROVE  \E f : Steps(f, n, S, a, g)
<1>. DEFINE T == {m \in Nat : m <= n =>
                   \E f \in [0..m -> S] : f[0] = a /\ \A k \in 1..m : f[k] = g[k][f[k-1]]}
<1>1. 0 \in T
  <2>. DEFINE f == [i \in 0..0 |-> a]
  <2>1. f \in [0..0 -> S] /\ f[0] = a
    OBVIOUS
  <2>. HIDE DEF f
  <2>2. \A k \in 1..0 : f[k] = g[k][f[k-1]]
    OBVIOUS
  <2>. QED
    BY <2>1, <2>2
<1>2. ASSUME NEW m \in Nat, m \in T PROVE m + 1 \in T
  <2>. SUFFICES ASSUME m + 1 <= n
         PROVE \E f \in [0..m+1 -> S] : f[0] = a /\ \A k \in 1..m+1 : f[k] = g[k][f[k-1]]
    OBVIOUS
  <2>1. PICK f \in [0..m -> S] : f[0] = a /\ \A k \in 1..m : f[k] = g[k][f[k-1]]
    BY <1>2
  <2>. DEFINE h == [i \in 0..m+1 |-> IF i = m + 1 THEN g[m + 1][f[m]] ELSE f[i]]
  <2>2. h \in [0..m+1 -> S]
    BY <2>1
  <2>3. h[0] = a
    BY <2>1
  <2>4. ASSUME NEW k \in 1..m+1 PROVE h[k] = g[k][h[k-1]]
    BY <2>1
  <2>. HIDE DEF h
  <2>. QED
    BY <2>2, <2>3, <2>4
<1>. HIDE DEF T
<1>3. n \in T
  BY <1>1, <1>2, NatSetInduction
<1>4. n <= n
  OBVIOUS
<1>. QED
  BY <1>3, <1>4 DEF T, Steps

-----------------------------------------------------------------------------
(* The invariant.                                                          *)

Text == String \cup {NoString, Garbage}
Entry == [string : String \cup {NoString}, receiveConfirmed : BOOLEAN]
Unit == [index : Index, string : String, text : BOOLEAN, sent : BOOLEAN, relative : BOOLEAN]
Listed == [index : Index, string : String]
Note == [stringList : Seq(Listed), packet : Seq(Unit)]

TypeOK ==
  /\ sent \in [Side -> Nat] /\ notified \in [Side -> Nat]
  /\ arrived \in [Side -> SUBSET Nat]
  /\ mEntryTable \in [Index -> Entry]
  /\ lru \in [1 .. EntryCount -> Index]
  /\ notes \in Seq(Note)
  /\ mRemoteStringTable \in [Index -> Text]
  /\ doubtful \in SUBSET Listed

\* Every packet in flight has its note.
ChannelOK ==
  /\ notified[Sender] <= sent[Sender]
  /\ sent[Sender] - notified[Sender] <= Window
  /\ Len(notes) = sent[Sender] - notified[Sender]
  /\ \A m \in arrived[Sender] : m <= sent[Sender]

-----------------------------------------------------------------------------
(* A history of uses is a function from places, pairs of a packet and a    *)
(* number in it, to units.                                                 *)
Before(p, q) == p[1] < q[1] \/ (p[1] = q[1] /\ p[2] < q[2])

\* The history of packets, a function from packet numbers.
Uses(packets) ==
  [p \in {p \in (DOMAIN packets) \X (1 .. MaxUnits) : p[2] <= Len(packets[p[1]])}
     |-> packets[p[1]][p[2]]]

\* h with one use more.
Used(h, z, x) == [p \in (DOMAIN h) \cup {z} |-> IF p = z THEN x ELSE h[p]]

\* Two texts of one entry: every other entry is used between them.
Apart(h) ==
  \A p, q \in DOMAIN h :
    Before(p, q) /\ h[p].index = h[q].index /\ h[p].string # h[q].string =>
      \A e \in Index \ {h[p].index} :
        \E r \in DOMAIN h : Before(p, r) /\ Before(r, q) /\ h[r].index = e

\* A text the table does not have any more was replaced by the one it has.
Replaced(h, table) ==
  \A p \in DOMAIN h : h[p].string # table[h[p].index].string =>
    \E q \in DOMAIN h : /\ Before(p, q) /\ h[q].index = h[p].index
                        /\ h[q].string = table[h[p].index].string

\* What is later in the LRU list was used later.
InOrder(h, list) ==
  \A i, j \in 1 .. EntryCount : i < j =>
    \A p \in DOMAIN h : h[p].index = list[i] =>
      \E q \in DOMAIN h : Before(p, q) /\ h[q].index = list[j]

\* The packets that may still be read.
Late(p, arr) == \A m \in arr : m < p[1]

\* What has been read is there, until a later text has been read.
Remembered(h, arr, remote, doubt) ==
  \A p \in DOMAIN h : p[1] \in arr /\ Sure(doubt, h[p].index, h[p].string) =>
    \/ remote[h[p].index] = h[p].string
    \/ \E q \in DOMAIN h : /\ q[1] \in arr /\ Before(p, q)
                           /\ h[q].index = h[p].index /\ h[q].string # h[p].string

\* A confirmed entry is there, and nothing that may be read changes it.
Confirmed(h, arr, remote, table, doubt) ==
  \A e \in Index : table[e].receiveConfirmed /\ Sure(doubt, e, table[e].string) =>
    /\ remote[e] = table[e].string
    /\ \A p \in DOMAIN h : Late(p, arr) /\ h[p].index = e => h[p].string = table[e].string

\* So is the entry of a use without text.
Resolved(h, arr, remote, doubt) ==
  \A p \in DOMAIN h : Late(p, arr) /\ ~h[p].text /\ Sure(doubt, h[p].index, h[p].string) =>
    /\ remote[h[p].index] = h[p].string
    /\ \A q \in DOMAIN h : Late(q, arr) /\ Before(q, p) /\ h[q].index = h[p].index =>
         h[q].string = h[p].string

\* The text before place k of a packet.
BufferAt(packet, k, buffer) ==
  \/ buffer = NoString /\ \A i \in 1 .. k : ~packet[i].text
  \/ \E i \in 1 .. k : /\ packet[i].text /\ buffer = packet[i].string
                       /\ \A j \in i + 1 .. k : ~packet[j].text

\* A text is written relative to the one before it, with which it shares a prefix.
RelativeOK(packet) ==
  \A k \in 1 .. Len(packet) : packet[k].relative =>
    \A buffer \in Text : BufferAt(packet, k - 1, buffer) => SharesPrefix(buffer, packet[k].string)

\* The list of a note names uses of its packet.
ListOK(note) ==
  \A k \in 1 .. Len(note.stringList) : \E i \in 1 .. Len(note.packet) :
    /\ note.packet[i].index = note.stringList[k].index
    /\ note.packet[i].string = note.stringList[k].string

\* Every text of the first k units was sent.
AllSent(packet, k) == \A i \in 1 .. k : packet[i].text => packet[i].sent

\* A text that comes after one that was taken back is doubtful, and so is that one.
DoubtOK(packet, doubt) ==
  \A k \in 1 .. Len(packet) :
    packet[k].text /\ Sure(doubt, packet[k].index, packet[k].string) => AllSent(packet, k)

NotesOK ==
  \A i \in 1 .. Len(notes) :
    /\ Len(notes[i].packet) <= MaxUnits /\ RelativeOK(notes[i].packet)
    /\ ListOK(notes[i]) /\ DoubtOK(notes[i].packet, doubtful)

\* Every entry is in the LRU list, once.
AllEntries(list) ==
  /\ \A e \in Index : \E i \in 1 .. EntryCount : list[i] = e
  /\ \A i, j \in 1 .. EntryCount : list[i] = list[j] => i = j

InFlight == [n \in Unnotified(Sender) |-> notes[n - notified[Sender]].packet]

\* No more uses are in flight than twice the entries.
FewInFlight == Cardinality(DOMAIN Uses(InFlight)) <= 2 * EntryCount

HistoryOK(h, table, list, arr, remote, doubt) ==
  /\ Apart(h) /\ Replaced(h, table) /\ InOrder(h, list)
  /\ Remembered(h, arr, remote, doubt) /\ Confirmed(h, arr, remote, table, doubt)
  /\ Resolved(h, arr, remote, doubt)

IInv ==
  /\ TypeOK /\ ChannelOK /\ NotesOK /\ AllEntries(lru)
  /\ HistoryOK(Uses(InFlight), mEntryTable, lru, arrived[Sender], mRemoteStringTable, doubtful)

-----------------------------------------------------------------------------
Place == Int \X Int
IsHistory(h) == DOMAIN h \subseteq Place /\ h \in [DOMAIN h -> Unit]
AllBefore(h, z) == \A p \in DOMAIN h : Before(p, z)

(* Places are ordered.                                                     *)
LEMMA PlacesAreOrdered ==
  /\ \A p \in Place : ~Before(p, p)
  /\ \A p, q, r \in Place : Before(p, q) /\ Before(q, r) => Before(p, r)
  /\ \A p, q \in Place : p = q \/ Before(p, q) \/ Before(q, p)
<1>1. \A p \in Place : p[1] \in Int /\ p[2] \in Int /\ p = <<p[1], p[2]>>
  BY DEF Place
<1>. QED
  BY <1>1 DEF Before

\* g is h with x as its last use.
Adds(g, h, z, x) ==
  /\ IsHistory(g)
  /\ \A p : p \in DOMAIN g <=> p \in DOMAIN h \/ p = z
  /\ g[z] = x
  /\ \A p \in DOMAIN h : g[p] = h[p] /\ p \in Place /\ p # z
  /\ \A p \in DOMAIN g : ~Before(z, p)

LEMMA UsedIs ==
  ASSUME NEW h, IsHistory(h), NEW z \in Place, NEW x \in Unit, AllBefore(h, z)
  PROVE  Adds(Used(h, z, x), h, z, x)
<1>. DEFINE g == Used(h, z, x)
<1>1. \A p \in DOMAIN h : p \in Place /\ p # z /\ h[p] \in Unit /\ ~Before(z, p)
  BY PlacesAreOrdered DEF AllBefore, IsHistory
<1>2. g = [p \in (DOMAIN h) \cup {z} |-> IF p = z THEN x ELSE h[p]]
  BY DEF Used
<1>. HIDE DEF g
<1>3. DOMAIN g = (DOMAIN h) \cup {z} /\ g[z] = x /\ \A p \in DOMAIN h : g[p] = h[p]
  BY <1>1, <1>2
<1>4. g \in [DOMAIN g -> Unit]
  BY <1>1, <1>2
<1>5. IsHistory(g)
  BY <1>1, <1>3, <1>4 DEF IsHistory
<1>6. \A p : p \in DOMAIN g <=> p \in DOMAIN h \/ p = z
  BY <1>3
<1>7. \A p \in DOMAIN g : ~Before(z, p)
  BY <1>1, <1>6, PlacesAreOrdered
<1>8. Adds(g, h, z, x)
  BY <1>1, <1>3, <1>5, <1>6, <1>7 DEF Adds
<1>. QED
  BY <1>8 DEF g

-----------------------------------------------------------------------------
(* A text that is replaced and comes back is two rounds of the table away. *)

(* Between two texts of an entry every other entry has a place.            *)
LEMMA OneRound ==
  ASSUME NEW h, IsFiniteSet(DOMAIN h), Apart(h), NEW p \in DOMAIN h, NEW q \in DOMAIN h,
         Before(p, q), h[p].index \in Index, h[p].index = h[q].index, h[p].string # h[q].string,
         NEW A, A = {r \in DOMAIN h : Before(p, r) /\ Before(r, q)}
  PROVE  IsFiniteSet(A) /\ Cardinality(A) \in Nat /\ EntryCount - 1 <= Cardinality(A)
<1>. DEFINE Others == Index \ {h[p].index}
            f == [e \in Others |-> CHOOSE r \in A : h[r].index = e]
<1>1. IsFiniteSet(A) /\ Cardinality(A) \in Nat
  <2>1. A \in SUBSET DOMAIN h
    OBVIOUS
  <2>2. IsFiniteSet(A)
    BY <2>1, FS_Subset
  <2>. QED
    BY <2>2, FS_CardinalityType
<1>2. \A e \in Others : f[e] \in A /\ h[f[e]].index = e
  <2>1. \A e \in Others : \E r \in A : h[r].index = e
    BY DEF Apart
  <2>. QED
    BY <2>1
<1>. HIDE DEF f
<1>3. f \in [Others -> A]
  BY <1>2 DEF f
<1>4. f \in Injection(Others, A)
  BY <1>2, <1>3 DEF Injection, IsInjective
<1>5. IsFiniteSet(Index) /\ Cardinality(Index) = EntryCount
  <2>1. 0 \in Int /\ EntryCount - 1 \in Int /\ 0 <= EntryCount - 1
    BY StringConstants
  <2>2. IsFiniteSet(0 .. EntryCount - 1)
        /\ Cardinality(0 .. EntryCount - 1) = (EntryCount - 1) - 0 + 1
    BY <2>1, FS_Interval
  <2>. QED
    BY <2>2, StringConstants DEF Index
<1>6. Cardinality(Others) = EntryCount - 1
  BY <1>5, FS_RemoveElement
<1>. HIDE DEF Others
<1>7. Cardinality(Others) <= Cardinality(A)
  BY <1>1, <1>4, FS_Injection
<1>. QED
  BY <1>1, <1>6, <1>7

(* So a text does not come back among few uses.                            *)
LEMMA NoTextComesBack ==
  ASSUME NEW h, IsHistory(h), IsFiniteSet(DOMAIN h), Cardinality(DOMAIN h) <= 2 * EntryCount,
         Apart(h), NEW p \in DOMAIN h, NEW q \in DOMAIN h, NEW r \in DOMAIN h,
         Before(p, q), Before(q, r), h[q].index = h[p].index, h[r].index = h[p].index,
         h[q].string # h[p].string
  PROVE  h[r].string # h[p].string
<1>. SUFFICES ASSUME h[r].string = h[p].string PROVE FALSE
  OBVIOUS
<1>. DEFINE A == {x \in DOMAIN h : Before(p, x) /\ Before(x, q)}
            B == {x \in DOMAIN h : Before(q, x) /\ Before(x, r)}
<1>1. h[p].index \in Index /\ DOMAIN h \subseteq Place
  BY DEF IsHistory, Unit
<1>2. IsFiniteSet(A) /\ Cardinality(A) \in Nat /\ EntryCount - 1 <= Cardinality(A)
  BY <1>1, OneRound
<1>3. IsFiniteSet(B) /\ Cardinality(B) \in Nat /\ EntryCount - 1 <= Cardinality(B)
  BY <1>1, OneRound
<1>4. /\ A \cap B = {} /\ p \notin A \cup B /\ q \notin A \cup B /\ r \notin A \cup B
      /\ p # q /\ q # r /\ p # r
  <2>1. \A x \in DOMAIN h : ~Before(x, x)
    BY <1>1, PlacesAreOrdered
  <2>2. \A x, y, z \in DOMAIN h : Before(x, y) /\ Before(y, z) => Before(x, z)
    BY <1>1, PlacesAreOrdered
  <2>3. p # q /\ q # r /\ p # r
    BY <2>1, <2>2
  <2>4. \A x \in A \cup B : x # p /\ x # q /\ x # r
    BY <2>1, <2>2
  <2>5. \A x \in A : x \notin B
    BY <2>1, <2>2
  <2>. QED
    BY <2>3, <2>4, <2>5
<1>5. A \cup B \subseteq DOMAIN h
  OBVIOUS
<1>. HIDE DEF A, B
<1>. DEFINE C == A \cup B
            D == C \cup {p}
            E == D \cup {q}
            F == E \cup {r}
<1>6. IsFiniteSet(C) /\ Cardinality(C) = Cardinality(A) + Cardinality(B)
  <2>1. IsFiniteSet(C) /\ Cardinality(C) = Cardinality(A) + Cardinality(B) - Cardinality(A \cap B)
    BY <1>2, <1>3, FS_Union
  <2>2. Cardinality(A \cap B) = 0
    BY <1>4, FS_EmptySet
  <2>. QED
    BY <1>2, <1>3, <2>1, <2>2
<1>7. p \notin C /\ q \notin D /\ r \notin E /\ F \subseteq DOMAIN h
  BY <1>4, <1>5
<1>. HIDE DEF C
<1>8. IsFiniteSet(D) /\ Cardinality(D) = Cardinality(C) + 1
  BY <1>6, <1>7, FS_AddElement
<1>. HIDE DEF D
<1>9. IsFiniteSet(E) /\ Cardinality(E) = Cardinality(D) + 1
  BY <1>7, <1>8, FS_AddElement
<1>. HIDE DEF E
<1>10. IsFiniteSet(F) /\ Cardinality(F) = Cardinality(E) + 1
  BY <1>7, <1>9, FS_AddElement
<1>. HIDE DEF F
<1>11. Cardinality(F) <= Cardinality(DOMAIN h) /\ Cardinality(DOMAIN h) \in Nat
  BY <1>7, FS_Subset, FS_CardinalityType
<1>. QED
  BY <1>2, <1>3, <1>6, <1>8, <1>9, <1>10, <1>11, StringConstants

-----------------------------------------------------------------------------
(* A string is written.                                                    *)

(* The entry that is pushed back is the last one, and the order of the     *)
(* others is what it was.                                                  *)
MovesBack(after, list, e) ==
  /\ after \in [1 .. EntryCount -> Index] /\ AllEntries(after) /\ after[EntryCount] = e
  /\ \A i, j \in 1 .. EntryCount : i < j =>
       /\ after[i] # e
       /\ j = EntryCount \/ \E m, n \in 1 .. EntryCount :
                              m < n /\ list[m] = after[i] /\ list[n] = after[j]

LEMMA PushedBackIs ==
  ASSUME NEW list \in [1 .. EntryCount -> Index], AllEntries(list), NEW e \in Index
  PROVE  MovesBack(PushedBack(list, e), list, e)
<1>. DEFINE at == CHOOSE i \in 1 .. EntryCount : list[i] = e
            after == PushedBack(list, e)
<1>1. at \in 1 .. EntryCount /\ list[at] = e
  BY DEF AllEntries
<1>2. after = [k \in 1 .. EntryCount |-> IF k = EntryCount THEN e
                                      ELSE IF k < at THEN list[k] ELSE list[k + 1]]
  BY DEF PushedBack
<1>3. EntryCount \in Nat \ {0}
  BY StringConstants
<1>. HIDE DEF at, after
<1>4. after \in [1 .. EntryCount -> Index]
  BY <1>1, <1>2, <1>3
<1>5. after[EntryCount] = e
  BY <1>2, <1>3
<1>. DEFINE from == [k \in 1 .. EntryCount |-> IF k = EntryCount THEN at
                                              ELSE IF k < at THEN k ELSE k + 1]
<1>6. \A k \in 1 .. EntryCount : from[k] \in 1 .. EntryCount /\ after[k] = list[from[k]]
  BY <1>1, <1>2, <1>3
<1>7. \A i, j \in 1 .. EntryCount : i < j =>
         from[i] # at /\ from[i] # from[j] /\ (j = EntryCount \/ from[i] < from[j])
  BY <1>1, <1>3
<1>8. \A k \in 1 .. EntryCount : \E i \in 1 .. EntryCount : from[i] = k
  <2>. TAKE k \in 1 .. EntryCount
  <2>1. CASE k = at
    BY <1>3, <2>1
  <2>2. CASE k < at
    BY <1>1, <1>3, <2>2
  <2>3. CASE k > at
    <3>1. k - 1 \in 1 .. EntryCount /\ from[k - 1] = k
      BY <1>1, <1>3, <2>3
    <3>. QED
      BY <3>1
  <2>. QED
    BY <1>1, <2>1, <2>2, <2>3
<1>. HIDE DEF from
<1>9. AllEntries(after)
  <2>1. ASSUME NEW g \in Index PROVE \E i \in 1 .. EntryCount : after[i] = g
    <3>1. PICK k \in 1 .. EntryCount : list[k] = g
      BY DEF AllEntries
    <3>. QED
      BY <1>6, <1>8, <3>1
  <2>2. ASSUME NEW i \in 1 .. EntryCount, NEW j \in 1 .. EntryCount, after[i] = after[j], i # j
        PROVE  FALSE
    <3>1. from[i] = from[j]
      BY <1>6, <2>2 DEF AllEntries
    <3>2. i < j \/ j < i
      BY <1>3, <2>2
    <3>. QED
      BY <1>7, <3>1, <3>2
  <2>. QED
    BY <2>1, <2>2 DEF AllEntries
<1>10. ASSUME NEW i \in 1 .. EntryCount, NEW j \in 1 .. EntryCount, i < j
       PROVE  /\ after[i] # e
              /\ j = EntryCount \/ \E m, n \in 1 .. EntryCount :
                   m < n /\ list[m] = after[i] /\ list[n] = after[j]
  <2>1. after[i] # e
    BY <1>1, <1>6, <1>7, <1>10 DEF AllEntries
  <2>. QED
    BY <1>6, <1>7, <1>10, <2>1
<1>. QED
  BY <1>4, <1>5, <1>9, <1>10 DEF after, MovesBack

(* The use of an entry keeps what is known of a history.                   *)
LEMMA UseKeepsHistory ==
  ASSUME NEW h, IsHistory(h), NEW z \in Place, AllBefore(h, z),
         NEW table \in [Index -> Entry], NEW list \in [1 .. EntryCount -> Index],
         AllEntries(list), NEW arr, \A m \in arr : m < z[1], NEW remote, NEW doubt,
         HistoryOK(h, table, list, arr, remote, doubt),
         NEW e \in Index, NEW s \in String, table[e].string = s \/ e = list[1],
         NEW x \in Unit, x.index = e, x.string = s,
         ~x.text => TakenOver(table[e], s).receiveConfirmed
  PROVE  HistoryOK(Used(h, z, x), [table EXCEPT ![e] = TakenOver(@, s)],
                   PushedBack(list, e), arr, remote, doubt)
<1>. DEFINE g == Used(h, z, x)
            new == [table EXCEPT ![e] = TakenOver(@, s)]
            after == PushedBack(list, e)
<1>1. Adds(g, h, z, x)
  BY UsedIs
<1>2. MovesBack(after, list, e)
  BY PushedBackIs
<1>3. /\ \A d \in Index : d # e => new[d] = table[d]
      /\ new[e] = TakenOver(table[e], s) /\ new[e].string = s
      /\ table[e].string # s => ~new[e].receiveConfirmed
      /\ table[e].string = s => new[e] = table[e]
  BY DEF TakenOver, Entry
<1>4. \A p \in DOMAIN h : h[p].index \in Index
  BY DEF IsHistory, Unit
<1>. HIDE DEF g, new, after
<1>6. Apart(g)
  <2>. SUFFICES ASSUME NEW p \in DOMAIN g, NEW q \in DOMAIN g, Before(p, q),
                       g[p].index = g[q].index, g[p].string # g[q].string,
                       NEW d \in Index \ {g[p].index}
                PROVE  \E r \in DOMAIN g : Before(p, r) /\ Before(r, q) /\ g[r].index = d
    BY DEF Apart
  <2>1. p \in DOMAIN h /\ g[p] = h[p]
    BY <1>1 DEF Adds
  <2>2. CASE q \in DOMAIN h
    <3>1. \E r \in DOMAIN h : Before(p, r) /\ Before(r, q) /\ h[r].index = d
      BY <1>1, <2>1, <2>2 DEF HistoryOK, Apart, Adds
    <3>. QED
      BY <1>1, <3>1 DEF Adds
  <2>3. CASE q = z
    <3>1. h[p].index = e /\ h[p].string # s /\ d # e
      BY <1>1, <2>1, <2>3 DEF Adds
    <3>2. CASE table[e].string = s
      <4>1. PICK r \in DOMAIN h : /\ Before(p, r) /\ h[r].index = e /\ h[r].string = s
        BY <2>1, <3>1, <3>2 DEF HistoryOK, Replaced
      <4>2. PICK u \in DOMAIN h : Before(p, u) /\ Before(u, r) /\ h[u].index = d
        BY <2>1, <3>1, <4>1 DEF HistoryOK, Apart
      <4>. QED
        BY <1>1, <2>3, <4>2 DEF Adds, AllBefore
    <3>3. CASE e = list[1]
      <4>1. PICK j \in 1 .. EntryCount : list[j] = d
        BY DEF AllEntries
      <4>2. 1 \in 1 .. EntryCount /\ 1 < j
        BY <3>1, <3>3, <4>1, StringConstants
      <4>3. PICK r \in DOMAIN h : Before(p, r) /\ h[r].index = d
        BY <2>1, <3>1, <3>3, <4>1, <4>2 DEF HistoryOK, InOrder
      <4>. QED
        BY <1>1, <2>3, <4>3 DEF Adds, AllBefore
    <3>. QED
      BY <3>2, <3>3
  <2>. QED
    BY <1>1, <2>2, <2>3 DEF Adds
<1>7. Replaced(g, new)
  <2>. SUFFICES ASSUME NEW p \in DOMAIN g, g[p].string # new[g[p].index].string
                PROVE  \E q \in DOMAIN g : /\ Before(p, q) /\ g[q].index = g[p].index
                                           /\ g[q].string = new[g[p].index].string
    BY DEF Replaced
  <2>1. p \in DOMAIN h /\ g[p] = h[p]
    BY <1>1, <1>3 DEF Adds
  <2>2. CASE h[p].index = e
    BY <1>1, <1>3, <2>1, <2>2 DEF Adds, AllBefore
  <2>3. CASE h[p].index # e
    <3>1. \E q \in DOMAIN h : /\ Before(p, q) /\ h[q].index = h[p].index
                              /\ h[q].string = table[h[p].index].string
      BY <1>3, <1>4, <2>1, <2>3 DEF HistoryOK, Replaced
    <3>. QED
      BY <1>1, <1>3, <1>4, <2>1, <2>3, <3>1 DEF Adds
  <2>. QED
    BY <2>2, <2>3
<1>8. InOrder(g, after)
  <2>. SUFFICES ASSUME NEW i \in 1 .. EntryCount, NEW j \in 1 .. EntryCount, i < j,
                       NEW p \in DOMAIN g, g[p].index = after[i]
                PROVE  \E q \in DOMAIN g : Before(p, q) /\ g[q].index = after[j]
    BY DEF InOrder
  <2>1. p \in DOMAIN h /\ g[p] = h[p]
    BY <1>1, <1>2 DEF Adds, MovesBack
  <2>2. CASE j = EntryCount
    BY <1>1, <1>2, <2>1, <2>2 DEF Adds, MovesBack, AllBefore
  <2>3. CASE j # EntryCount
    <3>1. PICK m \in 1 .. EntryCount, n \in 1 .. EntryCount :
                 m < n /\ list[m] = after[i] /\ list[n] = after[j]
      BY <1>2, <2>3 DEF MovesBack
    <3>2. PICK q \in DOMAIN h : Before(p, q) /\ h[q].index = list[n]
      BY <2>1, <3>1 DEF HistoryOK, InOrder
    <3>. QED
      BY <1>1, <3>1, <3>2 DEF Adds
  <2>. QED
    BY <2>2, <2>3
<1>9. z[1] \notin arr /\ Late(z, arr)
  BY DEF Late, Place
<1>10. Remembered(g, arr, remote, doubt)
  <2>. SUFFICES ASSUME NEW p \in DOMAIN g, p[1] \in arr,
                       Sure(doubt, g[p].index, g[p].string), remote[g[p].index] # g[p].string
                PROVE  \E q \in DOMAIN g : /\ q[1] \in arr /\ Before(p, q)
                                           /\ g[q].index = g[p].index /\ g[q].string # g[p].string
    BY DEF Remembered
  <2>1. p \in DOMAIN h /\ g[p] = h[p]
    BY <1>1, <1>9 DEF Adds
  <2>2. \E q \in DOMAIN h : /\ q[1] \in arr /\ Before(p, q)
                            /\ h[q].index = h[p].index /\ h[q].string # h[p].string
    BY <2>1 DEF HistoryOK, Remembered
  <2>. QED
    BY <1>1, <2>1, <2>2 DEF Adds
<1>11. Confirmed(g, arr, remote, new, doubt)
  <2>. SUFFICES ASSUME NEW d \in Index, new[d].receiveConfirmed, Sure(doubt, d, new[d].string)
                PROVE  /\ remote[d] = new[d].string
                       /\ \A p \in DOMAIN g : Late(p, arr) /\ g[p].index = d =>
                            g[p].string = new[d].string
    BY DEF Confirmed
  <2>1. new[d] = table[d]
    BY <1>3
  <2>2. /\ remote[d] = table[d].string
        /\ \A p \in DOMAIN h : Late(p, arr) /\ h[p].index = d => h[p].string = table[d].string
    BY <2>1 DEF HistoryOK, Confirmed
  <2>. QED
    BY <1>1, <1>3, <2>1, <2>2 DEF Adds
<1>12. Resolved(g, arr, remote, doubt)
  <2>. SUFFICES ASSUME NEW p \in DOMAIN g, Late(p, arr), ~g[p].text,
                       Sure(doubt, g[p].index, g[p].string)
                PROVE  /\ remote[g[p].index] = g[p].string
                       /\ \A q \in DOMAIN g : Late(q, arr) /\ Before(q, p) /\ g[q].index = g[p].index =>
                             g[q].string = g[p].string
    BY DEF Resolved
  <2>1. CASE p = z
    <3>1. new[e].receiveConfirmed /\ g[p] = x
      BY <1>1, <1>3, <2>1 DEF Adds
    <3>. QED
      BY <1>1, <1>3, <1>11, <3>1 DEF Confirmed, Adds
  <2>2. CASE p \in DOMAIN h
    BY <1>1, <2>2 DEF HistoryOK, Resolved, Adds
  <2>. QED
    BY <1>1, <2>1, <2>2 DEF Adds
<1>. QED
  BY <1>6, <1>7, <1>8, <1>10, <1>11, <1>12 DEF HistoryOK, g, new, after

(* And what is known is known of fewer texts.                              *)
LEMMA DoubtGrows ==
  ASSUME NEW h, NEW table, NEW list, NEW arr, NEW remote, NEW doubt, NEW more,
         doubt \subseteq more, HistoryOK(h, table, list, arr, remote, doubt)
  PROVE  HistoryOK(h, table, list, arr, remote, more)
<1>1. \A e, t : Sure(more, e, t) => Sure(doubt, e, t)
  BY DEF Sure
<1>2. Remembered(h, arr, remote, more)
  BY <1>1 DEF HistoryOK, Remembered
<1>3. Confirmed(h, arr, remote, table, more)
  BY <1>1 DEF HistoryOK, Confirmed
<1>4. Resolved(h, arr, remote, more)
  BY <1>1 DEF HistoryOK, Resolved
<1>. QED
  BY <1>2, <1>3, <1>4 DEF HistoryOK

\* A state of writing a packet.
WState == [table : [Index -> Entry], lru : [1 .. EntryCount -> Index],
           buffer : String \cup {NoString}, stringList : Seq(Listed), packet : Seq(Unit),
           sound : BOOLEAN, doubtful : SUBSET Listed]

\* w2 follows w when s is written, as unit x.
Writes(w2, w, s, x) ==
  /\ x \in Unit /\ x.string = s
  /\ w.table[x.index].string = s \/ x.index = w.lru[1]
  /\ ~x.text => TakenOver(w.table[x.index], s).receiveConfirmed
  /\ x.relative => x.text /\ SharesPrefix(w.buffer, s)
  /\ w2.table = [w.table EXCEPT ![x.index] = TakenOver(@, s)]
  /\ w2.lru = PushedBack(w.lru, x.index)
  /\ w2.buffer = IF x.text THEN s ELSE w.buffer
  /\ w2.stringList = w.stringList
     \/ w2.stringList = Append(w.stringList, [index |-> x.index, string |-> s])
  /\ w2.packet = Append(w.packet, x)
  /\ w2.sound => w.sound /\ (x.text => x.sent)
  /\ w.doubtful \subseteq w2.doubtful
  /\ x.text /\ Sure(w2.doubtful, x.index, s) => w2.sound

(* The state after a string has been written.                              *)
LEMMA WriteIs ==
  ASSUME NEW w \in WState, NEW s \in String, NEW fits \in BOOLEAN
  PROVE  /\ writeStringTableEntry(w, s, fits) \in WState
         /\ \E x : Writes(writeStringTableEntry(w, s, fits), w, s, x)
<1>. DEFINE e == EntryFor(w, s)
            table == [w.table EXCEPT ![e] = TakenOver(@, s)]
            text == ~table[e].receiveConfirmed
            x == [index |-> e, string |-> s, text |-> text, sent |-> fits,
                  relative |-> text /\ SharesPrefix(w.buffer, s)]
            sound == w.sound /\ (text => fits)
            listed == [index |-> e, string |-> s]
            after == PushedBack(w.lru, e)
            list == IF text THEN Append(w.stringList, listed) ELSE w.stringList
            packet == Append(w.packet, x)
            buffer == IF text THEN s ELSE w.buffer
            doubt == IF text /\ ~sound THEN w.doubtful \union {listed} ELSE w.doubtful
            w2 == [table |-> table, lru |-> after, buffer |-> buffer,
                   stringList |-> list, packet |-> packet, sound |-> sound, doubtful |-> doubt]
<1>1. /\ w.table \in [Index -> Entry] /\ w.lru \in [1 .. EntryCount -> Index]
      /\ w.buffer \in String \cup {NoString}
      /\ w.stringList \in Seq(Listed) /\ w.packet \in Seq(Unit)
      /\ w.sound \in BOOLEAN /\ w.doubtful \in SUBSET Listed
  BY DEF WState
<1>2. writeStringTableEntry(w, s, fits) = w2
  BY DEF writeStringTableEntry
<1>3. e \in Index /\ (w.table[e].string = s \/ e = w.lru[1])
  <2>1. w.lru[1] \in Index
    BY <1>1, StringConstants
  <2>. QED
    BY <2>1 DEF EntryFor
<1>. HIDE DEF e
<1>4. table \in [Index -> Entry] /\ table[e] = TakenOver(w.table[e], s) /\ text \in BOOLEAN
  <2>1. TakenOver(w.table[e], s) \in Entry
    BY <1>1, <1>3 DEF TakenOver, Entry
  <2>2. table \in [Index -> Entry] /\ table[e] = TakenOver(w.table[e], s)
    BY <1>1, <1>3, <2>1
  <2>. QED
    BY <2>1, <2>2
<1>5. after \in [1 .. EntryCount -> Index]
  <2>. DEFINE at == CHOOSE i \in 1 .. EntryCount : w.lru[i] = e
              F(k) == IF k = EntryCount THEN e ELSE IF k < at THEN w.lru[k] ELSE w.lru[k + 1]
  <2>1. after = [k \in 1 .. EntryCount |-> F(k)]
    BY DEF PushedBack
  <2>2. \A k \in 1 .. EntryCount : F(k) \in Index
    <3>. HIDE DEF at
    <3>1. \A k \in 1 .. EntryCount : k # EntryCount => k + 1 \in 1 .. EntryCount
      BY StringConstants
    <3>. QED
      BY <1>1, <1>3, <3>1
  <2>. HIDE DEF F
  <2>. QED
    BY <2>1, <2>2
<1>. HIDE DEF table, after
<1>6. x \in Unit
  BY <1>3, <1>4 DEF Unit, SharesPrefix
<1>7. listed \in Listed
  BY <1>3 DEF Listed
<1>8. list \in Seq(Listed)
  <2>. HIDE DEF listed
  <2>. QED
    BY <1>1, <1>7
<1>9. packet \in Seq(Unit)
  <2>. HIDE DEF x
  <2>. QED
    BY <1>1, <1>6
<1>10. buffer \in String \cup {NoString}
  BY <1>1
<1>11. sound \in BOOLEAN /\ doubt \in SUBSET Listed
  <2>. HIDE DEF listed
  <2>. QED
    BY <1>1, <1>4, <1>7
<1>12. w2 \in WState
  <2>. HIDE DEF list, packet, buffer, sound, doubt
  <2>. QED
    BY <1>4, <1>5, <1>8, <1>9, <1>10, <1>11 DEF WState
<1>13. Writes(w2, w, s, x)
  <2>1. /\ x.string = s /\ x.index = e /\ x.text = text /\ x.sent = fits
        /\ x.relative = (text /\ SharesPrefix(w.buffer, s))
    OBVIOUS
  <2>2. ~x.text => TakenOver(w.table[x.index], s).receiveConfirmed
    BY <1>4, <2>1
  <2>3. /\ w2.table = [w.table EXCEPT ![e] = TakenOver(@, s)]
        /\ w2.lru = PushedBack(w.lru, e)
    BY DEF table, after
  <2>4. /\ w2.buffer = IF text THEN s ELSE w.buffer
        /\ w2.stringList = w.stringList
           \/ w2.stringList = Append(w.stringList, [index |-> e, string |-> s])
        /\ w2.packet = Append(w.packet, x)
    OBVIOUS
  <2>5. w2.sound = sound /\ w2.doubtful = doubt
    <3>. HIDE DEF sound, doubt
    <3>. QED
      OBVIOUS
  <2>6. /\ w2.sound => w.sound /\ (text => fits)
        /\ w.doubtful \subseteq w2.doubtful
        /\ text /\ Sure(w2.doubtful, e, s) => w2.sound
    <3>. HIDE DEF w2
    <3>. QED
      BY <1>1, <1>4, <2>5 DEF Sure
  <2>. HIDE DEF x, w2, text
  <2>. QED
    BY <1>3, <1>6, <2>1, <2>2, <2>3, <2>4, <2>6 DEF Writes
<1>. QED
  <2>. HIDE DEF w2, x
  <2>. QED
    BY <1>2, <1>12, <1>13

\* The packets in flight and the one that is written.
With(packet) ==
  [n \in notified[Sender] + 1 .. sent[Sender] + 1 |->
     IF n <= sent[Sender] THEN notes[n - notified[Sender]].packet ELSE packet]

(* The notes of the packets in flight.                                     *)
LEMMA NoteFacts ==
  ASSUME TypeOK, ChannelOK
  PROVE  /\ notified[Sender] \in Nat /\ sent[Sender] \in Nat
         /\ \A n \in Unnotified(Sender) :
              /\ n \in Int /\ n - notified[Sender] \in 1 .. Len(notes)
              /\ notes[n - notified[Sender]] \in Note
              /\ notes[n - notified[Sender]].packet \in Seq(Unit)
<1>1. notified[Sender] \in Nat /\ sent[Sender] \in Nat
  BY DEF TypeOK, Side, Sender
<1>. SUFFICES ASSUME NEW n \in Unnotified(Sender)
     PROVE /\ n \in Int /\ n - notified[Sender] \in 1 .. Len(notes)
           /\ notes[n - notified[Sender]] \in Note
           /\ notes[n - notified[Sender]].packet \in Seq(Unit)
  BY <1>1
<1>2. n \in Int /\ n - notified[Sender] \in 1 .. Len(notes)
  BY <1>1 DEF Unnotified, ChannelOK
<1>3. notes[n - notified[Sender]] \in Note
  BY <1>2, ElementOfSeq DEF TypeOK
<1>. QED
  BY <1>2, <1>3 DEF Note

\* What is needed of a function from packet numbers.
IsPackets(packets) ==
  /\ DOMAIN packets \subseteq Int
  /\ \A n \in DOMAIN packets : packets[n] \in Seq(Unit)

LEMMA UsesFacts ==
  ASSUME NEW packets, IsPackets(packets)
  PROVE  /\ IsHistory(Uses(packets))
         /\ \A p : p \in DOMAIN Uses(packets) <=>
                     /\ p \in (DOMAIN packets) \X (1 .. MaxUnits)
                     /\ p[2] <= Len(packets[p[1]])
         /\ \A p \in DOMAIN Uses(packets) : Uses(packets)[p] = packets[p[1]][p[2]]
<1>. DEFINE D == {p \in (DOMAIN packets) \X (1 .. MaxUnits) : p[2] <= Len(packets[p[1]])}
            h == Uses(packets)
<1>1. h = [p \in D |-> packets[p[1]][p[2]]]
  BY DEF Uses
<1>2. \A p \in D : p \in Place /\ packets[p[1]][p[2]] \in Unit
  <2>. SUFFICES ASSUME NEW p \in D PROVE p \in Place /\ packets[p[1]][p[2]] \in Unit
    OBVIOUS
  <2>1. p[1] \in DOMAIN packets /\ p[2] \in 1 .. MaxUnits /\ p = <<p[1], p[2]>>
    OBVIOUS
  <2>2. packets[p[1]] \in Seq(Unit) /\ p[1] \in Int /\ p[2] \in Int
    BY <2>1, StringConstants DEF IsPackets
  <2>3. p[2] \in 1 .. Len(packets[p[1]])
    BY <2>1, <2>2
  <2>4. packets[p[1]][p[2]] \in Unit
    BY <2>2, <2>3, ElementOfSeq
  <2>5. p \in Place
    BY <2>1, <2>2 DEF Place
  <2>. QED
    BY <2>4, <2>5
<1>3. \A p : p \in D <=> /\ p \in (DOMAIN packets) \X (1 .. MaxUnits)
                         /\ p[2] <= Len(packets[p[1]])
  OBVIOUS
<1>. HIDE DEF D, h
<1>4. DOMAIN h = D /\ \A p \in D : h[p] = packets[p[1]][p[2]]
  BY <1>1
<1>5. h \in [DOMAIN h -> Unit] /\ DOMAIN h \subseteq Place
  BY <1>1, <1>2, <1>4
<1>6. IsHistory(h)
  BY <1>5 DEF IsHistory
<1>. QED
  BY <1>3, <1>4, <1>6 DEF h

(* The uses with one unit more in the packet that is written.              *)
LEMMA UsesWith ==
  ASSUME TypeOK, ChannelOK, NEW packet \in Seq(Unit), Len(packet) < MaxUnits, NEW x \in Unit
  PROVE  LET z == <<sent[Sender] + 1, Len(packet) + 1>>
         IN  /\ IsHistory(Uses(With(packet)))
             /\ z \in Place /\ AllBefore(Uses(With(packet)), z)
             /\ Uses(With(Append(packet, x))) = Used(Uses(With(packet)), z, x)
<1>. DEFINE z == <<sent[Sender] + 1, Len(packet) + 1>>
            hi == sent[Sender] + 1
            A == With(packet)
            B == With(Append(packet, x))
            h == Uses(A)
            g == Uses(B)
<1>1. notified[Sender] \in Nat /\ sent[Sender] \in Nat /\ notified[Sender] <= sent[Sender]
  BY NoteFacts DEF ChannelOK
<1>2. Len(packet) \in Nat /\ Append(packet, x) \in Seq(Unit) /\ MaxUnits \in Nat
      /\ Len(Append(packet, x)) = Len(packet) + 1
      /\ Append(packet, x)[Len(packet) + 1] = x
      /\ \A k \in 1 .. Len(packet) : Append(packet, x)[k] = packet[k]
  BY StringConstants
<1>3. /\ DOMAIN A = notified[Sender] + 1 .. hi
      /\ DOMAIN B = DOMAIN A /\ hi \in DOMAIN A /\ hi \in Int
      /\ DOMAIN A \subseteq Int
      /\ \A n \in DOMAIN A : n <= hi
      /\ A[hi] = packet /\ B[hi] = Append(packet, x)
      /\ \A n \in DOMAIN A : n # hi => A[n] = B[n] /\ n \in Unnotified(Sender)
                                       /\ A[n] = notes[n - notified[Sender]].packet
  BY <1>1 DEF With, Unnotified
<1>. HIDE DEF A, B, hi
<1>4. IsPackets(A) /\ IsPackets(B)
  BY <1>2, <1>3, NoteFacts DEF IsPackets
<1>5. /\ IsHistory(h)
      /\ \A p : p \in DOMAIN h <=> p \in (DOMAIN A) \X (1 .. MaxUnits) /\ p[2] <= Len(A[p[1]])
      /\ \A p \in DOMAIN h : h[p] = A[p[1]][p[2]]
  BY <1>4, UsesFacts
<1>6. /\ IsHistory(g)
      /\ \A p : p \in DOMAIN g <=> p \in (DOMAIN B) \X (1 .. MaxUnits) /\ p[2] <= Len(B[p[1]])
      /\ \A p \in DOMAIN g : g[p] = B[p[1]][p[2]]
  BY <1>4, UsesFacts
<1>. HIDE DEF h, g
<1>7. z \in Place /\ z = <<hi, Len(packet) + 1>> /\ z[1] = hi /\ z[2] = Len(packet) + 1
  BY <1>1, <1>2 DEF Place, hi
<1>. HIDE DEF z
<1>8. AllBefore(h, z)
  <2>. SUFFICES ASSUME NEW p \in DOMAIN h PROVE Before(p, z)
    BY DEF AllBefore
  <2>1. p[1] \in DOMAIN A /\ p[2] \in 1 .. MaxUnits /\ p[2] <= Len(A[p[1]])
    BY <1>5
  <2>2. p[1] <= hi /\ p[1] \in Int
    BY <1>3, <2>1
  <2>3. CASE p[1] = hi
    <3>1. p[2] < Len(packet) + 1
      BY <1>2, <1>3, <2>1, <2>3
    <3>. QED
      BY <1>7, <2>3, <3>1 DEF Before
  <2>4. CASE p[1] # hi
    BY <1>3, <1>7, <2>2, <2>4 DEF Before
  <2>. QED
    BY <2>3, <2>4
<1>9. \A p : p \in DOMAIN g <=> p \in DOMAIN h \/ p = z
  <2>. TAKE p
  <2>1. ASSUME p \in DOMAIN h PROVE p \in DOMAIN g
    <3>1. p[1] \in DOMAIN A /\ p[2] \in 1 .. MaxUnits /\ p[2] <= Len(A[p[1]])
      BY <1>5, <2>1
    <3>2. p[2] <= Len(B[p[1]])
      BY <1>2, <1>3, <3>1
    <3>. QED
      BY <1>3, <1>5, <1>6, <2>1, <3>2
  <2>2. z \in DOMAIN g
    <3>1. z \in (DOMAIN B) \X (1 .. MaxUnits) /\ z[2] <= Len(B[z[1]])
      BY <1>2, <1>3, <1>7
    <3>. QED
      BY <1>6, <3>1
  <2>3. ASSUME p \in DOMAIN g, p # z PROVE p \in DOMAIN h
    <3>1. /\ p \in (DOMAIN B) \X (1 .. MaxUnits) /\ p[1] \in DOMAIN A /\ p[2] \in 1 .. MaxUnits
          /\ p[2] <= Len(B[p[1]]) /\ p = <<p[1], p[2]>>
      BY <1>3, <1>6, <2>3
    <3>2. p[2] <= Len(A[p[1]])
      BY <1>2, <1>3, <1>7, <2>3, <3>1
    <3>. QED
      BY <1>3, <1>5, <3>1, <3>2
  <2>. QED
    BY <2>1, <2>2, <2>3
<1>10. g[z] = x
  BY <1>2, <1>3, <1>6, <1>7, <1>9
<1>11. \A p \in DOMAIN h : g[p] = h[p] /\ p # z
  <2>. TAKE p \in DOMAIN h
  <2>1. p[1] \in DOMAIN A /\ p[2] \in 1 .. MaxUnits /\ p[2] <= Len(A[p[1]])
    BY <1>5
  <2>2. A[p[1]][p[2]] = B[p[1]][p[2]]
    BY <1>2, <1>3, <2>1
  <2>3. p # z
    BY <1>2, <1>3, <1>7, <2>1
  <2>. QED
    BY <1>5, <1>6, <1>9, <2>2, <2>3
<1>12. g = Used(h, z, x)
  <2>1. DOMAIN g = (DOMAIN h) \cup {z}
    BY <1>9
  <2>2. \A p \in DOMAIN g : g[p] = IF p = z THEN x ELSE h[p]
    BY <1>9, <1>10, <1>11
  <2>3. g = [p \in DOMAIN g |-> g[p]]
    BY <1>6 DEF IsHistory
  <2>4. g = [p \in (DOMAIN h) \cup {z} |-> IF p = z THEN x ELSE h[p]]
    BY <2>1, <2>2, <2>3
  <2>. QED
    BY <2>4 DEF Used
<1>. QED
  BY <1>5, <1>7, <1>8, <1>12 DEF h, g, A, B, z

(* A packet has one text before a place.                                   *)
LEMMA OneBuffer ==
  ASSUME NEW packet \in Seq(Unit), NEW k \in 0 .. Len(packet), NEW a1, NEW a2,
         BufferAt(packet, k, a1), BufferAt(packet, k, a2)
  PROVE  a1 = a2
<1>1. ASSUME NEW i \in 1 .. k, NEW j \in 1 .. k, packet[i].text, packet[j].text,
             \A m \in i + 1 .. k : ~packet[m].text, \A m \in j + 1 .. k : ~packet[m].text
      PROVE  i = j
  BY <1>1
<1>. QED
  BY <1>1 DEF BufferAt

\* What is known of a state of writing a packet.
WInv(w) ==
  /\ w \in WState /\ AllEntries(w.lru)
  /\ HistoryOK(Uses(With(w.packet)), w.table, w.lru, arrived[Sender], mRemoteStringTable,
               w.doubtful)
  /\ RelativeOK(w.packet) /\ BufferAt(w.packet, Len(w.packet), w.buffer)
  /\ ListOK([stringList |-> w.stringList, packet |-> w.packet])
  /\ w.sound => AllSent(w.packet, Len(w.packet))
  /\ DoubtOK(w.packet, w.doubtful) /\ doubtful \subseteq w.doubtful

(* It is still true when a string has been written.                        *)
LEMMA WriteKeeps ==
  ASSUME TypeOK, ChannelOK, NEW w, WInv(w), Len(w.packet) < MaxUnits,
         NEW w2 \in WState, NEW s \in String, NEW x, Writes(w2, w, s, x)
  PROVE  WInv(w2) /\ Len(w2.packet) = Len(w.packet) + 1
<1>. DEFINE m == Len(w.packet)
            z == <<sent[Sender] + 1, m + 1>>
            e == x.index
<1>1. /\ w.table \in [Index -> Entry] /\ w.lru \in [1 .. EntryCount -> Index]
      /\ w.buffer \in String \cup {NoString}
      /\ w.stringList \in Seq(Listed) /\ w.packet \in Seq(Unit)
  BY DEF WInv, WState
<1>2. x \in Unit /\ x.string = s /\ e \in Index /\ x.text \in BOOLEAN /\ x.relative \in BOOLEAN
  BY DEF Writes, Unit
<1>3. /\ w2.packet = Append(w.packet, x) /\ m \in Nat /\ Len(w2.packet) = m + 1
      /\ w2.packet[m + 1] = x /\ w2.packet \in Seq(Unit)
      /\ \A k \in 1 .. m : w2.packet[k] = w.packet[k]
  <2>1. w2.packet = Append(w.packet, x)
    BY DEF Writes
  <2>. QED
    BY <1>1, <1>2, <2>1
<1>4. /\ w2.table = [w.table EXCEPT ![e] = TakenOver(@, s)]
      /\ w2.lru = PushedBack(w.lru, e)
      /\ w.table[e].string = s \/ e = w.lru[1]
      /\ ~x.text => TakenOver(w.table[e], s).receiveConfirmed
  BY DEF Writes
<1>5. w2.lru \in [1 .. EntryCount -> Index] /\ AllEntries(w2.lru)
  <2>1. MovesBack(w2.lru, w.lru, e)
    BY <1>1, <1>2, <1>4, PushedBackIs DEF WInv
  <2>. QED
    BY <2>1 DEF MovesBack
<1>6. HistoryOK(Uses(With(w2.packet)), w2.table, w2.lru, arrived[Sender], mRemoteStringTable,
                w2.doubtful)
  <2>. DEFINE h == Uses(With(w.packet))
              arr == arrived[Sender]
  <2>1. /\ IsHistory(h) /\ z \in Place /\ AllBefore(h, z)
        /\ Uses(With(w2.packet)) = Used(h, z, x)
    BY <1>1, <1>2, <1>3, UsesWith
  <2>2. \A k \in arr : k < z[1]
    <3>1. \A k \in arr : k \in Nat /\ k <= sent[Sender]
      BY DEF TypeOK, ChannelOK, Side, Sender
    <3>2. z[1] = sent[Sender] + 1 /\ sent[Sender] \in Nat
      BY NoteFacts
    <3>. QED
      BY <3>1, <3>2
  <2>3. /\ HistoryOK(h, w.table, w.lru, arr, mRemoteStringTable, w.doubtful)
        /\ AllEntries(w.lru)
    BY DEF WInv
  <2>. HIDE DEF h, arr, z, e
  <2>4. HistoryOK(Used(h, z, x), [w.table EXCEPT ![e] = TakenOver(@, s)],
                  PushedBack(w.lru, e), arr, mRemoteStringTable, w.doubtful)
    BY <1>1, <1>2, <1>4, <2>1, <2>2, <2>3, UseKeepsHistory DEF e
  <2>5. w.doubtful \subseteq w2.doubtful
    BY DEF Writes
  <2>6. HistoryOK(Used(h, z, x), [w.table EXCEPT ![e] = TakenOver(@, s)],
                  PushedBack(w.lru, e), arr, mRemoteStringTable, w2.doubtful)
    BY <2>4, <2>5, DoubtGrows
  <2>. QED
    BY <1>4, <2>1, <2>6 DEF h, arr, e
<1>. HIDE DEF m, z, e
<1>7. BufferAt(w.packet, m, w.buffer)
  BY DEF WInv, m
<1>8. ASSUME NEW k \in 0 .. m, NEW b PROVE BufferAt(w2.packet, k, b) <=> BufferAt(w.packet, k, b)
  <2>1. \A i \in 1 .. k : w2.packet[i] = w.packet[i]
    BY <1>3
  <2>2. \A i \in 1 .. k : \A j \in i + 1 .. k : j \in 1 .. k
    BY <1>3
  <2>. QED
    BY <2>1, <2>2 DEF BufferAt
<1>9. RelativeOK(w2.packet)
  <2>. SUFFICES ASSUME NEW k \in 1 .. m + 1, w2.packet[k].relative, NEW b \in Text,
                       BufferAt(w2.packet, k - 1, b)
                PROVE  SharesPrefix(b, w2.packet[k].string)
    BY <1>3 DEF RelativeOK
  <2>1. k - 1 \in 0 .. m /\ BufferAt(w.packet, k - 1, b)
    BY <1>3, <1>8
  <2>2. CASE k = m + 1
    <3>1. SharesPrefix(w.buffer, s)
      BY <1>3, <2>2 DEF Writes
    <3>2. b = w.buffer
      BY <1>1, <1>3, <1>7, <2>1, <2>2, OneBuffer DEF m
    <3>. QED
      BY <1>2, <1>3, <2>2, <3>1, <3>2
  <2>3. CASE k \in 1 .. m
    <3>1. w.packet[k].relative /\ w2.packet[k] = w.packet[k]
      BY <1>3, <2>3
    <3>2. RelativeOK(w.packet)
      BY DEF WInv
    <3>. QED
      BY <2>1, <2>3, <3>1, <3>2 DEF RelativeOK, m
  <2>. QED
    BY <1>3, <2>2, <2>3
<1>10. BufferAt(w2.packet, m + 1, w2.buffer)
  <2>1. w2.buffer = IF x.text THEN s ELSE w.buffer
    BY DEF Writes
  <2>2. CASE x.text
    <3>1. /\ m + 1 \in 1 .. m + 1 /\ w2.packet[m + 1].text /\ w2.buffer = w2.packet[m + 1].string
          /\ \A j \in (m + 1) + 1 .. m + 1 : ~w2.packet[j].text
      BY <1>2, <1>3, <2>1, <2>2
    <3>. QED
      BY <3>1 DEF BufferAt
  <2>3. CASE ~x.text
    <3>1. w2.buffer = w.buffer
      BY <2>1, <2>3
    <3>2. CASE w.buffer = NoString /\ \A i \in 1 .. m : ~w.packet[i].text
      <4>1. \A i \in 1 .. m + 1 : ~w2.packet[i].text
        BY <1>3, <2>3, <3>2
      <4>. QED
        BY <3>1, <3>2, <4>1 DEF BufferAt
    <3>3. CASE \E i \in 1 .. m : /\ w.packet[i].text /\ w.buffer = w.packet[i].string
                                 /\ \A j \in i + 1 .. m : ~w.packet[j].text
      <4>1. PICK i \in 1 .. m : /\ w.packet[i].text /\ w.buffer = w.packet[i].string
                                /\ \A j \in i + 1 .. m : ~w.packet[j].text
        BY <3>3
      <4>2. \A j \in i + 1 .. m + 1 : ~w2.packet[j].text
        BY <1>3, <2>3, <4>1
      <4>3. i \in 1 .. m + 1 /\ w2.packet[i].text /\ w2.buffer = w2.packet[i].string
        BY <1>3, <3>1, <4>1
      <4>. QED
        BY <4>2, <4>3 DEF BufferAt
    <3>. QED
      BY <1>7, <3>2, <3>3 DEF BufferAt
  <2>. QED
    BY <2>2, <2>3
<1>11. ListOK([stringList |-> w2.stringList, packet |-> w2.packet])
  <2>. SUFFICES ASSUME NEW k \in 1 .. Len(w2.stringList)
                PROVE  \E i \in 1 .. Len(w2.packet) :
                         /\ w2.packet[i].index = w2.stringList[k].index
                         /\ w2.packet[i].string = w2.stringList[k].string
    BY DEF ListOK
  <2>1. \A n \in 1 .. Len(w.stringList) : \E i \in 1 .. Len(w.packet) :
                         /\ w.packet[i].index = w.stringList[n].index
                         /\ w.packet[i].string = w.stringList[n].string
    BY DEF WInv, ListOK
  <2>2. ASSUME NEW n \in 1 .. Len(w.stringList), w2.stringList[k] = w.stringList[n]
        PROVE  \E i \in 1 .. Len(w2.packet) :
                         /\ w2.packet[i].index = w2.stringList[k].index
                         /\ w2.packet[i].string = w2.stringList[k].string
    <3>1. PICK i \in 1 .. m : /\ w.packet[i].index = w.stringList[n].index
                              /\ w.packet[i].string = w.stringList[n].string
      BY <2>1 DEF m
    <3>. QED
      BY <1>3, <2>2, <3>1
  <2>3. CASE w2.stringList = w.stringList
    BY <2>2, <2>3
  <2>4. CASE w2.stringList = Append(w.stringList, [index |-> e, string |-> s])
    <3>1. Len(w.stringList) \in Nat
          /\ Len(w2.stringList) = Len(w.stringList) + 1
          /\ w2.stringList[Len(w.stringList) + 1] = [index |-> e, string |-> s]
          /\ \A n \in 1 .. Len(w.stringList) : w2.stringList[n] = w.stringList[n]
      BY <1>1, <2>4
    <3>2. CASE k \in 1 .. Len(w.stringList)
      BY <2>2, <3>1, <3>2
    <3>3. CASE k = Len(w.stringList) + 1
      <4>1. m + 1 \in 1 .. Len(w2.packet) /\ w2.packet[m + 1].index = e /\ w2.packet[m + 1].string = s
        BY <1>2, <1>3 DEF e
      <4>. QED
        BY <3>1, <3>3, <4>1
    <3>. QED
      BY <3>1, <3>2, <3>3
  <2>. QED
    BY <2>3, <2>4 DEF Writes, e
<1>12. ASSUME w2.sound PROVE AllSent(w2.packet, m + 1)
  <2>1. AllSent(w.packet, m) /\ (x.text => x.sent)
    BY <1>12 DEF WInv, Writes, m
  <2>. QED
    BY <1>3, <2>1 DEF AllSent
<1>13. DoubtOK(w2.packet, w2.doubtful)
  <2>. SUFFICES ASSUME NEW k \in 1 .. m + 1, w2.packet[k].text,
                       Sure(w2.doubtful, w2.packet[k].index, w2.packet[k].string)
                PROVE  AllSent(w2.packet, k)
    BY <1>3 DEF DoubtOK
  <2>1. CASE k = m + 1
    <3>1. w2.sound
      BY <1>2, <1>3, <2>1 DEF Writes, e
    <3>. QED
      BY <1>12, <2>1, <3>1
  <2>2. CASE k \in 1 .. m
    <3>1. Sure(w.doubtful, w.packet[k].index, w.packet[k].string)
      BY <1>3, <2>2 DEF Writes, Sure
    <3>2. AllSent(w.packet, k)
      BY <1>3, <2>2, <3>1 DEF WInv, DoubtOK, m
    <3>. QED
      BY <1>3, <2>2, <3>2 DEF AllSent
  <2>. QED
    BY <1>3, <2>1, <2>2
<1>14. doubtful \subseteq w2.doubtful
  BY DEF WInv, Writes
<1>. QED
  BY <1>3, <1>5, <1>6, <1>9, <1>10, <1>11, <1>12, <1>13, <1>14 DEF WInv, m

\* The state before the first string.
Start == [table |-> mEntryTable, lru |-> lru, buffer |-> NoString,
          stringList |-> << >>, packet |-> << >>, sound |-> TRUE, doubtful |-> doubtful]

(* Writing goes through a sequence of states.                              *)
LEMMA WritingFn ==
  ASSUME TypeOK, NEW n \in Nat, NEW strings \in [1 .. n -> String],
         NEW fits \in [1 .. n -> BOOLEAN]
  PROVE  \E f : /\ Writing(strings, fits) = f[n]
                /\ f[0] = Start /\ Start \in WState
                /\ \A k \in 1 .. n :
                     /\ f[k] \in WState
                     /\ f[k] = writeStringTableEntry(f[k - 1], strings[k], fits[k])
<1>. DEFINE Step(w, k) == writeStringTableEntry(w, strings[k], fits[k])
            g == [k \in 1 .. n |-> [w \in WState |-> Step(w, k)]]
            IsF(h) == h = [k \in 0 .. n |-> IF k = 0 THEN Start ELSE Step(h[k - 1], k)]
            f == CHOOSE h : IsF(h)
<1>1. Start \in WState
  <2>1. << >> \in Seq(Listed) /\ << >> \in Seq(Unit)
    OBVIOUS
  <2>. QED
    BY <2>1 DEF Start, WState, TypeOK
<1>2. g \in [1 .. n -> [WState -> WState]]
  <2>1. \A k \in 1 .. n : \A w \in WState : Step(w, k) \in WState
    BY WriteIs
  <2>. HIDE DEF Step
  <2>. QED
    BY <2>1
<1>3. PICK h : h \in [0 .. n -> WState] /\ h[0] = Start /\ \A k \in 1 .. n : h[k] = g[k][h[k - 1]]
  <2>. HIDE DEF g
  <2>1. PICK h : Steps(h, n, WState, Start, g)
    BY <1>1, <1>2, RecursionExists
  <2>. QED
    BY <2>1 DEF Steps
<1>. HIDE DEF Step
<1>4. \A k \in 1 .. n : h[k] = Step(h[k - 1], k)
  <2>. SUFFICES ASSUME NEW k \in 1 .. n PROVE h[k] = Step(h[k - 1], k)
    OBVIOUS
  <2>1. h[k - 1] \in WState
    <3>1. k - 1 \in 0 .. n
      OBVIOUS
    <3>. QED
      BY <1>3, <3>1
  <2>2. g[k] = [w \in WState |-> Step(w, k)]
    OBVIOUS
  <2>3. h[k] = g[k][h[k - 1]]
    BY <1>3
  <2>. QED
    BY <2>1, <2>2, <2>3
<1>5. IsF(h)
  <2>. DEFINE R(k) == IF k = 0 THEN Start ELSE Step(h[k - 1], k)
  <2>1. \A k \in 0 .. n : h[k] = R(k)
    <3>. SUFFICES ASSUME NEW k \in 0 .. n PROVE h[k] = R(k)
      OBVIOUS
    <3>1. CASE k = 0
      BY <1>3, <3>1
    <3>2. CASE k \in 1 .. n
      BY <1>4, <3>2
    <3>. QED
      BY <3>1, <3>2
  <2>. HIDE DEF R
  <2>2. h = [k \in 0 .. n |-> R(k)]
    BY <1>3, <2>1
  <2>. QED
    BY <2>2 DEF R
<1>6. Writing(strings, fits) = f[n]
  <2>1. Len(strings) = n
    <3>1. strings \in Seq(String) /\ DOMAIN strings = 1 .. n
      BY IsASeq
    <3>. QED
      BY <3>1, LenProperties
  <2>2. Writing(strings, fits) = f[Len(strings)]
    BY <2>1 DEF Writing, Start, Step
  <2>. QED
    BY <2>1, <2>2
<1>7. IsF(f)
  <2>. HIDE DEF IsF
  <2>. QED
    BY <1>5
<1>8. f[0] = Start /\ \A k \in 1 .. n : f[k] = Step(f[k - 1], k)
  <2>. DEFINE R(k) == IF k = 0 THEN Start ELSE Step(f[k - 1], k)
  <2>. HIDE DEF f
  <2>1. f = [k \in 0 .. n |-> R(k)]
    BY <1>7
  <2>. HIDE DEF R
  <2>2. \A k \in 0 .. n : f[k] = R(k)
    BY <2>1
  <2>3. 0 \in 0 .. n /\ \A k \in 1 .. n : k \in 0 .. n /\ k # 0
    OBVIOUS
  <2>. QED
    BY <2>2, <2>3 DEF R
<1>. HIDE DEF f, g, IsF
<1>9. \A k \in 0 .. n : f[k] \in WState
  <2>. DEFINE T == {k \in Nat : k <= n => f[k] \in WState}
  <2>1. 0 \in T
    BY <1>1, <1>8
  <2>2. ASSUME NEW k \in Nat, k \in T PROVE k + 1 \in T
    <3>. SUFFICES ASSUME k + 1 <= n PROVE f[k + 1] \in WState
      OBVIOUS
    <3>1. f[k] \in WState /\ k + 1 \in 1 .. n /\ (k + 1) - 1 = k
      BY <2>2
    <3>2. f[k + 1] = Step(f[k], k + 1)
      BY <1>8, <3>1
    <3>. QED
      BY <3>1, <3>2, WriteIs DEF Step
  <2>. HIDE DEF T
  <2>3. Nat \subseteq T
    BY <2>1, <2>2, NatSetInduction
  <2>. QED
    BY <2>3 DEF T
<1>. QED
  BY <1>1, <1>6, <1>8, <1>9 DEF Step

(* A packet without units is no use.                                       *)
LEMMA UsesOfNothing ==
  ASSUME TypeOK, ChannelOK
  PROVE  IsHistory(Uses(InFlight)) /\ Uses(With(<< >>)) = Uses(InFlight)
<1>. DEFINE A == With(<< >>)
            B == InFlight
            h == Uses(A)
            g == Uses(B)
            hi == sent[Sender] + 1
<1>1. notified[Sender] \in Nat /\ sent[Sender] \in Nat /\ notified[Sender] <= sent[Sender]
  BY NoteFacts DEF ChannelOK
<1>2. /\ DOMAIN A = notified[Sender] + 1 .. hi
      /\ DOMAIN B = notified[Sender] + 1 .. hi - 1
      /\ A[hi] = << >>
      /\ \A n \in DOMAIN B : n \in DOMAIN A /\ A[n] = B[n] /\ n \in Unnotified(Sender)
                             /\ B[n] = notes[n - notified[Sender]].packet
      /\ \A n \in DOMAIN A : n \in Int /\ (n = hi \/ n \in DOMAIN B)
      /\ hi \notin DOMAIN B
  BY <1>1 DEF With, Unnotified, InFlight
<1>3. << >> \in Seq(Unit) /\ Len(<< >>) = 0
  OBVIOUS
<1>. HIDE DEF A, B, hi
<1>4. IsPackets(A) /\ IsPackets(B)
  BY <1>2, <1>3, NoteFacts DEF IsPackets
<1>5. /\ IsHistory(h)
      /\ \A p : p \in DOMAIN h <=> p \in (DOMAIN A) \X (1 .. MaxUnits) /\ p[2] <= Len(A[p[1]])
      /\ \A p \in DOMAIN h : h[p] = A[p[1]][p[2]]
  BY <1>4, UsesFacts
<1>6. /\ IsHistory(g)
      /\ \A p : p \in DOMAIN g <=> p \in (DOMAIN B) \X (1 .. MaxUnits) /\ p[2] <= Len(B[p[1]])
      /\ \A p \in DOMAIN g : g[p] = B[p[1]][p[2]]
  BY <1>4, UsesFacts
<1>. HIDE DEF h, g
<1>7. \A p : p \in DOMAIN h <=> p \in DOMAIN g
  <2>. TAKE p
  <2>1. ASSUME p \in DOMAIN h PROVE p \in DOMAIN g
    <3>1. /\ p[1] \in DOMAIN A /\ p[2] \in 1 .. MaxUnits /\ p = <<p[1], p[2]>>
          /\ p[2] <= Len(A[p[1]])
      BY <1>5, <2>1
    <3>2. p[1] # hi
      BY <1>2, <1>3, <3>1, StringConstants
    <3>. QED
      BY <1>2, <1>6, <3>1, <3>2
  <2>2. ASSUME p \in DOMAIN g PROVE p \in DOMAIN h
    <3>1. /\ p[1] \in DOMAIN B /\ p[2] \in 1 .. MaxUnits /\ p = <<p[1], p[2]>>
          /\ p[2] <= Len(B[p[1]])
      BY <1>6, <2>2
    <3>. QED
      BY <1>2, <1>5, <3>1
  <2>. QED
    BY <2>1, <2>2
<1>8. \A p \in DOMAIN g : g[p] = h[p]
  <2>. TAKE p \in DOMAIN g
  <2>1. p[1] \in DOMAIN B
    BY <1>6
  <2>. QED
    BY <1>2, <1>5, <1>6, <1>7, <2>1
<1>9. h = g
  <2>1. h = [p \in DOMAIN h |-> h[p]] /\ g = [p \in DOMAIN g |-> g[p]]
    BY <1>5, <1>6 DEF IsHistory
  <2>2. DOMAIN h = DOMAIN g
    BY <1>7
  <2>. QED
    BY <1>8, <2>1, <2>2
<1>. QED
  BY <1>6, <1>9 DEF h, g, A, B

(* What is known of the state when the packet is written.                  *)
LEMMA WritingKeeps ==
  ASSUME IInv, NEW n \in Nat, n <= MaxUnits, NEW strings \in [1 .. n -> String],
         NEW fits \in [1 .. n -> BOOLEAN]
  PROVE  WInv(Writing(strings, fits)) /\ Len(Writing(strings, fits).packet) = n
<1>1. TypeOK /\ ChannelOK
  BY DEF IInv
<1>3. PICK f : /\ Writing(strings, fits) = f[n]
               /\ f[0] = Start /\ Start \in WState
               /\ \A k \in 1 .. n :
                    /\ f[k] \in WState
                    /\ f[k] = writeStringTableEntry(f[k - 1], strings[k], fits[k])
  BY <1>1, WritingFn
<1>4. WInv(Start) /\ Len(Start.packet) = 0
  <2>1. /\ Start.packet = << >> /\ Start.table = mEntryTable /\ Start.lru = lru
        /\ Start.buffer = NoString /\ Start.stringList = << >>
        /\ Start.doubtful = doubtful
    BY DEF Start
  <2>2. HistoryOK(Uses(With(<< >>)), mEntryTable, lru, arrived[Sender], mRemoteStringTable, doubtful)
    BY <1>1, UsesOfNothing DEF IInv
  <2>3. Len(<< >>) = 0 /\ 1 .. 0 = {}
    OBVIOUS
  <2>4. RelativeOK(<< >>) /\ BufferAt(<< >>, 0, NoString)
    BY <2>3 DEF RelativeOK, BufferAt
  <2>5. ListOK([stringList |-> << >>, packet |-> << >>])
    BY <2>3 DEF ListOK
  <2>6. AllEntries(lru)
    BY DEF IInv
  <2>7. AllSent(<< >>, 0) /\ DoubtOK(<< >>, doubtful)
    BY <2>3 DEF AllSent, DoubtOK
  <2>. QED
    BY <1>3, <2>1, <2>2, <2>3, <2>4, <2>5, <2>6, <2>7 DEF WInv
<1>. DEFINE T == {k \in Nat : k <= n => WInv(f[k]) /\ Len(f[k].packet) = k}
<1>5. 0 \in T
  BY <1>3, <1>4
<1>6. ASSUME NEW k \in Nat, k \in T PROVE k + 1 \in T
  <2>. SUFFICES ASSUME k + 1 <= n PROVE WInv(f[k + 1]) /\ Len(f[k + 1].packet) = k + 1
    OBVIOUS
  <2>1. WInv(f[k]) /\ Len(f[k].packet) = k /\ k + 1 \in 1 .. n /\ (k + 1) - 1 = k
    BY <1>6
  <2>2. f[k + 1] \in WState /\ f[k + 1] = writeStringTableEntry(f[k], strings[k + 1], fits[k + 1])
    BY <1>3, <2>1
  <2>3. strings[k + 1] \in String /\ fits[k + 1] \in BOOLEAN /\ f[k] \in WState
    BY <2>1 DEF WInv
  <2>4. PICK x : Writes(f[k + 1], f[k], strings[k + 1], x)
    BY <2>2, <2>3, WriteIs
  <2>5. Len(f[k].packet) < MaxUnits
    BY <2>1, StringConstants
  <2>6. WInv(f[k + 1]) /\ Len(f[k + 1].packet) = Len(f[k].packet) + 1
    BY <1>1, <2>1, <2>2, <2>3, <2>4, <2>5, WriteKeeps
  <2>. QED
    BY <2>1, <2>6
<1>. HIDE DEF T
<1>7. n \in T
  BY <1>5, <1>6, NatSetInduction
<1>8. n <= n
  OBVIOUS
<1>. QED
  BY <1>3, <1>7, <1>8 DEF T

(* WritePacket keeps the invariant.                                        *)
LEMMA WritePacketKeeps == ASSUME IInv, WritePacket PROVE IInv'
<1>. DEFINE lo == notified[Sender]
            hi == sent[Sender]
<1>1. TypeOK /\ ChannelOK /\ NotesOK
  BY DEF IInv
<1>2. PICK n \in 1 .. MaxUnits :
        \E strings \in [1 .. n -> String], fits \in [1 .. n -> BOOLEAN] :
          /\ mEntryTable' = Writing(strings, fits).table
          /\ lru' = Writing(strings, fits).lru
          /\ notes' = Append(notes, [stringList |-> Writing(strings, fits).stringList,
                                     packet |-> Writing(strings, fits).packet])
          /\ doubtful' = Writing(strings, fits).doubtful
  BY DEF WritePacket
<1>20. PICK strings \in [1 .. n -> String], fits \in [1 .. n -> BOOLEAN] :
          /\ mEntryTable' = Writing(strings, fits).table
          /\ lru' = Writing(strings, fits).lru
          /\ notes' = Append(notes, [stringList |-> Writing(strings, fits).stringList,
                                     packet |-> Writing(strings, fits).packet])
          /\ doubtful' = Writing(strings, fits).doubtful
  BY <1>2
<1>. DEFINE w == Writing(strings, fits)
            note == [stringList |-> w.stringList, packet |-> w.packet]
<1>3. WInv(w) /\ Len(w.packet) = n
  <2>1. n \in Nat /\ n <= MaxUnits
    BY StringConstants
  <2>. QED
    BY <2>1, WritingKeeps
<1>4. /\ mEntryTable' = w.table /\ lru' = w.lru /\ notes' = Append(notes, note)
      /\ doubtful' = w.doubtful
  BY <1>20
<1>. HIDE DEF w
<1>5. /\ hi - lo < Window
      /\ sent' = [sent EXCEPT ![Sender] = @ + 1]
      /\ notified' = notified /\ arrived' = arrived /\ mRemoteStringTable' = mRemoteStringTable
  BY DEF WritePacket, Send, Sender
<1>6. lo \in Nat /\ hi \in Nat /\ lo <= hi /\ Window \in Nat
  BY <1>1, NoteFacts, WindowAssumption DEF ChannelOK
<1>7. sent'[Sender] = hi + 1 /\ sent' \in [Side -> Nat]
  BY <1>1, <1>5, <1>6 DEF TypeOK, Side, Sender
<1>8. /\ w.table \in [Index -> Entry] /\ w.lru \in [1 .. EntryCount -> Index]
      /\ w.stringList \in Seq(Listed) /\ w.packet \in Seq(Unit)
      /\ w.doubtful \in SUBSET Listed
  BY <1>3 DEF WInv, WState
<1>9. note \in Note /\ note.packet = w.packet
  BY <1>8 DEF Note
<1>. HIDE DEF note
<1>10. /\ notes' \in Seq(Note) /\ Len(notes) = hi - lo /\ Len(notes') = hi - lo + 1
       /\ notes'[hi - lo + 1] = note /\ \A i \in 1 .. hi - lo : notes'[i] = notes[i]
  BY <1>1, <1>4, <1>6, <1>9 DEF TypeOK, ChannelOK
<1>11. TypeOK'
  BY <1>1, <1>4, <1>5, <1>7, <1>8, <1>10 DEF TypeOK
<1>12. ChannelOK'
  <2>1. \A m \in arrived[Sender] : m \in Nat /\ m <= hi
    BY <1>1 DEF TypeOK, ChannelOK, Side, Sender
  <2>2. \A m \in arrived'[Sender] : m <= sent'[Sender]
    BY <1>5, <1>6, <1>7, <2>1
  <2>3. lo <= hi + 1 /\ hi + 1 - lo <= Window /\ hi + 1 - lo = hi - lo + 1
    BY <1>5, <1>6
  <2>4. notified'[Sender] = lo
    BY <1>5
  <2>5. /\ notified'[Sender] <= sent'[Sender]
        /\ sent'[Sender] - notified'[Sender] <= Window
        /\ Len(notes') = sent'[Sender] - notified'[Sender]
    BY <1>6, <1>7, <1>10, <2>3, <2>4
  <2>. QED
    BY <2>2, <2>5 DEF ChannelOK, Sender
<1>13. NotesOK'
  <2>. SUFFICES ASSUME NEW i \in 1 .. Len(notes')
                PROVE  /\ Len(notes'[i].packet) <= MaxUnits
                       /\ RelativeOK(notes'[i].packet) /\ ListOK(notes'[i])
                       /\ DoubtOK(notes'[i].packet, doubtful')
    BY DEF NotesOK, RelativeOK, ListOK, BufferAt, SharesPrefix, DoubtOK, AllSent, Sure
  <2>1. CASE i \in 1 .. hi - lo
    <3>1. \A e, t : Sure(doubtful', e, t) => Sure(doubtful, e, t)
      BY <1>3, <1>4 DEF WInv, Sure
    <3>2. DoubtOK(notes[i].packet, doubtful')
      BY <1>1, <1>10, <2>1, <3>1 DEF NotesOK, DoubtOK
    <3>. QED
      BY <1>1, <1>10, <2>1, <3>2 DEF NotesOK
  <2>2. CASE i = hi - lo + 1
    <3>1. n <= MaxUnits
      BY StringConstants
    <3>2. RelativeOK(w.packet) /\ ListOK(note) /\ DoubtOK(w.packet, doubtful')
      BY <1>3, <1>4 DEF WInv, note
    <3>. QED
      BY <1>3, <1>9, <1>10, <2>2, <3>1, <3>2
  <2>. QED
    BY <1>6, <1>10, <2>1, <2>2
<1>14. (InFlight)' = With(w.packet)
  <2>1. (InFlight)' = [k \in lo + 1 .. hi + 1 |-> notes'[k - lo].packet]
    BY <1>5, <1>7 DEF InFlight, Unnotified, Sender
  <2>2. \A k \in lo + 1 .. hi + 1 :
           notes'[k - lo].packet = IF k <= hi THEN notes[k - lo].packet ELSE w.packet
    <3>. TAKE k \in lo + 1 .. hi + 1
    <3>1. CASE k <= hi
      <4>1. k - lo \in 1 .. hi - lo
        BY <1>6, <3>1
      <4>. QED
        BY <1>10, <3>1, <4>1
    <3>2. CASE ~(k <= hi)
      <4>1. k - lo = hi - lo + 1
        BY <1>6, <3>2
      <4>. QED
        BY <1>9, <1>10, <3>2, <4>1
    <3>. QED
      BY <3>1, <3>2
  <2>. QED
    BY <2>1, <2>2 DEF With
<1>15. (Uses(InFlight))' = Uses(With(w.packet))
  BY <1>14 DEF Uses
<1>16. AllEntries(lru')
  BY <1>3, <1>4 DEF WInv
<1>17. HistoryOK((Uses(InFlight))', mEntryTable', lru', arrived'[Sender], mRemoteStringTable',
                 doubtful')
  BY <1>3, <1>4, <1>5, <1>15 DEF WInv
<1>. QED
  BY <1>11, <1>12, <1>13, <1>16, <1>17 DEF IInv

-----------------------------------------------------------------------------
(* The fate of a packet is told.                                           *)

(* What is known of a history is known of its end.                         *)
LEMMA EndOfHistory ==
  ASSUME NEW h, NEW g, NEW table, NEW list, NEW arr, NEW remote, NEW doubt,
         HistoryOK(h, table, list, arr, remote, doubt),
         \A p \in DOMAIN g : p \in DOMAIN h /\ g[p] = h[p],
         \A p \in DOMAIN g : \A q \in DOMAIN h : Before(p, q) => q \in DOMAIN g
  PROVE  HistoryOK(g, table, list, arr, remote, doubt)
<1>1. Apart(g)
  BY DEF HistoryOK, Apart
<1>2. Replaced(g, table)
  BY DEF HistoryOK, Replaced
<1>3. InOrder(g, list)
  BY DEF HistoryOK, InOrder
<1>4. Remembered(g, arr, remote, doubt)
  BY DEF HistoryOK, Remembered
<1>5. Confirmed(g, arr, remote, table, doubt)
  BY DEF HistoryOK, Confirmed
<1>6. Resolved(g, arr, remote, doubt)
  BY DEF HistoryOK, Resolved
<1>. QED
  BY <1>1, <1>2, <1>3, <1>4, <1>5, <1>6 DEF HistoryOK

(* The present text of an entry that was used in a packet that has been    *)
(* read is there, and stays there.                                         *)
LEMMA ReadUseIsThere ==
  ASSUME NEW h, IsHistory(h), IsFiniteSet(DOMAIN h), Cardinality(DOMAIN h) <= 2 * EntryCount,
         NEW table, NEW list, NEW arr, NEW remote, NEW doubt,
         HistoryOK(h, table, list, arr, remote, doubt),
         NEW p \in DOMAIN h, p[1] \in arr, h[p].string = table[h[p].index].string,
         Sure(doubt, h[p].index, h[p].string)
  PROVE  /\ remote[h[p].index] = h[p].string
         /\ \A q \in DOMAIN h : Late(q, arr) /\ h[q].index = h[p].index =>
              h[q].string = h[p].string
<1>1. ASSUME NEW q \in DOMAIN h, Before(p, q), h[q].index = h[p].index
      PROVE  h[q].string = h[p].string
  <2>. SUFFICES ASSUME h[q].string # h[p].string PROVE FALSE
    OBVIOUS
  <2>1. PICK r \in DOMAIN h : /\ Before(q, r) /\ h[r].index = h[p].index
                              /\ h[r].string = h[p].string
    BY <1>1 DEF HistoryOK, Replaced
  <2>2. Apart(h)
    BY DEF HistoryOK
  <2>. QED
    BY <1>1, <2>1, <2>2, NoTextComesBack
<1>2. remote[h[p].index] = h[p].string
  BY <1>1 DEF HistoryOK, Remembered
<1>3. ASSUME NEW q \in DOMAIN h, Late(q, arr), h[q].index = h[p].index
      PROVE  h[q].string = h[p].string
  <2>1. Before(p, q)
    BY <1>3 DEF Late, Before
  <2>. QED
    BY <1>1, <1>3, <2>1
<1>. QED
  BY <1>2, <1>3

\* h is the history of the packets lo + 1 .. hi.
InWindow(h, lo, hi) ==
  /\ IsHistory(h) /\ lo \in Int /\ hi \in Int
  /\ DOMAIN h \subseteq (lo + 1 .. hi) \X (1 .. MaxUnits)
  /\ \A n \in Int, k \in Int :
       <<n, k>> \in DOMAIN h <=>
         /\ n \in lo + 1 .. hi /\ k \in 1 .. MaxUnits
         /\ k <= Len(notes[n - lo].packet)
  /\ \A p \in DOMAIN h : /\ p = <<p[1], p[2]>> /\ p[1] \in Int /\ p[2] \in Int
                         /\ h[p] = notes[p[1] - lo].packet[p[2]]

(* The places in flight.                                                   *)
LEMMA PlacesInFlight ==
  ASSUME TypeOK, ChannelOK
  PROVE  InWindow(Uses(InFlight), notified[Sender], sent[Sender])
<1>. DEFINE A == InFlight
            h == Uses(A)
            lo == notified[Sender]
            hi == sent[Sender]
<1>1. lo \in Nat /\ hi \in Nat
  BY NoteFacts
<1>2. DOMAIN A = lo + 1 .. hi /\ \A n \in lo + 1 .. hi : A[n] = notes[n - lo].packet
  BY DEF InFlight, Unnotified
<1>3. IsPackets(A)
  BY <1>1, <1>2, NoteFacts DEF IsPackets, Unnotified
<1>. HIDE DEF A
<1>4. /\ IsHistory(h)
      /\ \A p : p \in DOMAIN h <=> p \in (DOMAIN A) \X (1 .. MaxUnits) /\ p[2] <= Len(A[p[1]])
      /\ \A p \in DOMAIN h : h[p] = A[p[1]][p[2]]
  BY <1>3, UsesFacts
<1>. HIDE DEF h, lo, hi
<1>5. \A p \in DOMAIN h : /\ p = <<p[1], p[2]>> /\ p[1] \in Int /\ p[2] \in Int
                          /\ h[p] = notes[p[1] - lo].packet[p[2]]
                          /\ p \in (lo + 1 .. hi) \X (1 .. MaxUnits)
  <2>. TAKE p \in DOMAIN h
  <2>1. p \in (lo + 1 .. hi) \X (1 .. MaxUnits)
    BY <1>2, <1>4
  <2>2. p = <<p[1], p[2]>> /\ p[1] \in lo + 1 .. hi /\ p[2] \in 1 .. MaxUnits
    BY <2>1
  <2>3. p[1] \in Int /\ p[2] \in Int
    BY <1>1, <2>2, StringConstants
  <2>. QED
    BY <1>2, <1>4, <2>1, <2>2, <2>3
<1>6. \A n \in Int, k \in Int :
        <<n, k>> \in DOMAIN h <=>
          /\ n \in lo + 1 .. hi /\ k \in 1 .. MaxUnits
          /\ k <= Len(notes[n - lo].packet)
  <2>. TAKE n \in Int, k \in Int
  <2>1. <<n, k>> \in DOMAIN h <=> <<n, k>> \in (DOMAIN A) \X (1 .. MaxUnits) /\ k <= Len(A[n])
    BY <1>4
  <2>2. <<n, k>> \in (DOMAIN A) \X (1 .. MaxUnits) <=> n \in lo + 1 .. hi /\ k \in 1 .. MaxUnits
    BY <1>2
  <2>. QED
    BY <1>2, <2>1, <2>2
<1>7. lo \in Int /\ hi \in Int
  BY <1>1
<1>8. InWindow(h, lo, hi)
  BY <1>4, <1>5, <1>6, <1>7 DEF InWindow
<1>. QED
  BY <1>8 DEF h, lo, hi, A

(* They are no more than a window of packets has room for.                 *)
LEMMA FiniteInFlight ==
  ASSUME TypeOK, ChannelOK
  PROVE  /\ IsFiniteSet(DOMAIN Uses(InFlight))
         /\ Cardinality(DOMAIN Uses(InFlight)) <= Window * MaxUnits
<1>. DEFINE lo == notified[Sender]
            hi == sent[Sender]
            S == lo + 1 .. hi
            T == 1 .. MaxUnits
            d == hi - lo
<1>1. DOMAIN Uses(InFlight) \subseteq S \X T
  BY PlacesInFlight DEF InWindow
<1>2. lo \in Nat /\ hi \in Nat /\ d \in Nat /\ d <= Window /\ Window \in Nat /\ MaxUnits \in Nat
  BY NoteFacts, WindowAssumption, StringConstants DEF ChannelOK
<1>3. IsFiniteSet(S) /\ Cardinality(S) = d
  <2>1. lo + 1 \in Int /\ hi \in Int
    BY <1>2
  <2>2. IsFiniteSet(S) /\ Cardinality(S) = IF lo + 1 > hi THEN 0 ELSE hi - (lo + 1) + 1
    BY <2>1, FS_Interval
  <2>. QED
    BY <1>2, <2>2
<1>4. IsFiniteSet(T) /\ Cardinality(T) = MaxUnits
  <2>1. 1 \in Int /\ MaxUnits \in Int
    BY <1>2
  <2>2. IsFiniteSet(T) /\ Cardinality(T) = IF 1 > MaxUnits THEN 0 ELSE MaxUnits - 1 + 1
    BY <2>1, FS_Interval
  <2>. QED
    BY <1>2, <2>2
<1>. HIDE DEF S, T, d
<1>5. IsFiniteSet(S \X T) /\ Cardinality(S \X T) = d * MaxUnits
  BY <1>3, <1>4, FS_Product
<1>6. d * MaxUnits <= Window * MaxUnits
  <2>. DEFINE k == Window - d
  <2>1. k \in Nat /\ Window = d + k
    BY <1>2
  <2>. HIDE DEF k
  <2>2. Window * MaxUnits = d * MaxUnits + k * MaxUnits
    BY <1>2, <2>1
  <2>3. d * MaxUnits \in Nat /\ k * MaxUnits \in Nat
    BY <1>2, <2>1
  <2>. QED
    BY <2>2, <2>3
<1>7. /\ IsFiniteSet(DOMAIN Uses(InFlight))
      /\ Cardinality(DOMAIN Uses(InFlight)) <= Cardinality(S \X T)
  BY <1>1, <1>5, FS_Subset
<1>8. Cardinality(DOMAIN Uses(InFlight)) \in Nat
  BY <1>7, FS_CardinalityType
<1>9. d * MaxUnits \in Int /\ Window * MaxUnits \in Int
  BY <1>2
<1>. QED
  BY <1>5, <1>6, <1>7, <1>8, <1>9

\* What packetReceived makes of the table, with the list of the note.
ConfirmedBy(table, list) ==
  [e \in Index |-> [table[e] EXCEPT !.receiveConfirmed =
     @ \/ \E k \in DOMAIN list : list[k] = [index |-> e, string |-> table[e].string]]]

(* The entries that a note confirms are there.                             *)
LEMMA ConfirmKeeps ==
  ASSUME FewInFlight, IInv, Unnotified(Sender) # {}, notified[Sender] + 1 \in arrived[Sender]
  PROVE  LET table == ConfirmedBy(mEntryTable, Head(notes).stringList)
         IN  /\ table \in [Index -> Entry]
             /\ HistoryOK(Uses(InFlight), table, lru, arrived[Sender], mRemoteStringTable, doubtful)
<1>. DEFINE h == Uses(InFlight)
            lo == notified[Sender]
            hi == sent[Sender]
            arr == arrived[Sender]
            list == Head(notes).stringList
            table == ConfirmedBy(mEntryTable, list)
            By(e) == \E k \in DOMAIN list : list[k] = [index |-> e, string |-> mEntryTable[e].string]
<1>1. TypeOK /\ ChannelOK /\ NotesOK
      /\ HistoryOK(h, mEntryTable, lru, arr, mRemoteStringTable, doubtful)
  BY DEF IInv
<1>2. InWindow(h, lo, hi)
  BY <1>1, PlacesInFlight
<1>3. hi - lo <= Window /\ lo \in Nat /\ hi \in Nat /\ lo + 1 \in lo + 1 .. hi
      /\ Len(notes) = hi - lo
  BY <1>1, NoteFacts DEF ChannelOK, Unnotified
<1>4. notes \in Seq(Note) /\ Head(notes) = notes[1] /\ 1 \in 1 .. Len(notes) /\ notes[1] \in Note
  <2>1. notes \in Seq(Note) /\ 1 \in 1 .. Len(notes)
    BY <1>1, <1>3 DEF TypeOK
  <2>. QED
    BY <2>1, ElementOfSeq
<1>5. /\ list \in Seq(Listed) /\ DOMAIN list = 1 .. Len(list)
      /\ notes[1].packet \in Seq(Unit) /\ Len(notes[1].packet) <= MaxUnits
      /\ ListOK(notes[1])
  BY <1>1, <1>4 DEF Note, NotesOK
<1>. HIDE DEF h, arr, lo, hi
<1>6. /\ table \in [Index -> Entry]
      /\ \A e \in Index : /\ table[e].string = mEntryTable[e].string
                          /\ table[e].receiveConfirmed =>
                               mEntryTable[e].receiveConfirmed \/ By(e)
  <2>. HIDE DEF list
  <2>1. mEntryTable \in [Index -> Entry]
    BY <1>1 DEF TypeOK
  <2>2. \A e \in Index : By(e) \in BOOLEAN
    OBVIOUS
  <2>3. table = [e \in Index |-> [mEntryTable[e] EXCEPT !.receiveConfirmed = @ \/ By(e)]]
    BY DEF ConfirmedBy
  <2>. HIDE DEF table, By
  <2>4. \A e \in Index :
          [mEntryTable[e] EXCEPT !.receiveConfirmed = @ \/ By(e)]
            = [string |-> mEntryTable[e].string,
               receiveConfirmed |-> mEntryTable[e].receiveConfirmed \/ By(e)]
    BY <2>1 DEF Entry
  <2>5. \A e \in Index : table[e] = [string |-> mEntryTable[e].string,
               receiveConfirmed |-> mEntryTable[e].receiveConfirmed \/ By(e)]
    BY <2>3, <2>4
  <2>6. table = [e \in Index |-> [string |-> mEntryTable[e].string,
               receiveConfirmed |-> mEntryTable[e].receiveConfirmed \/ By(e)]]
    BY <2>3, <2>4
  <2>7. \A e \in Index : /\ mEntryTable[e].string \in String \cup {NoString}
                         /\ mEntryTable[e].receiveConfirmed \in BOOLEAN
    BY <2>1 DEF Entry
  <2>8. table \in [Index -> Entry]
    BY <2>2, <2>6, <2>7 DEF Entry
  <2>9. ASSUME NEW e \in Index
        PROVE  /\ table[e].string = mEntryTable[e].string
               /\ table[e].receiveConfirmed => mEntryTable[e].receiveConfirmed \/ By(e)
    <3>. DEFINE is == mEntryTable[e].receiveConfirmed \/ By(e)
                rec == [string |-> mEntryTable[e].string, receiveConfirmed |-> is]
    <3>1. table[e] = rec
      BY <2>5
    <3>2. rec.string = mEntryTable[e].string /\ rec.receiveConfirmed = is
      <4>. HIDE DEF is
      <4>. QED
        OBVIOUS
    <3>. HIDE DEF rec, is
    <3>3. table[e].string = mEntryTable[e].string /\ table[e].receiveConfirmed = is
      BY <3>1, <3>2
    <3>4. table[e].receiveConfirmed => is
      BY <3>3
    <3>. QED
      BY <3>3, <3>4 DEF is
  <2>. QED
    BY <2>8, <2>9
<1>7. ASSUME NEW e \in Index, By(e), Sure(doubtful, e, mEntryTable[e].string)
      PROVE  /\ mRemoteStringTable[e] = mEntryTable[e].string
             /\ \A q \in DOMAIN h : Late(q, arr) /\ h[q].index = e =>
                  h[q].string = mEntryTable[e].string
  <2>1. PICK k \in 1 .. Len(list) : list[k] = [index |-> e, string |-> mEntryTable[e].string]
    BY <1>5, <1>7
  <2>2. list[k].index = e /\ list[k].string = mEntryTable[e].string
    BY <2>1
  <2>3. PICK i \in 1 .. Len(notes[1].packet) :
           notes[1].packet[i].index = e /\ notes[1].packet[i].string = mEntryTable[e].string
    BY <1>4, <1>5, <2>1, <2>2 DEF ListOK
  <2>. DEFINE p == <<lo + 1, i>>
  <2>4. i \in Int /\ i \in 1 .. MaxUnits /\ (lo + 1) - lo = 1 /\ lo + 1 \in Int
    BY <1>3, <1>5, <2>3, StringConstants
  <2>5. p \in DOMAIN h /\ p[1] = lo + 1 /\ p[2] = i
    <3>1. i <= Len(notes[(lo + 1) - lo].packet)
      BY <1>5, <2>3, <2>4
    <3>2. <<lo + 1, i>> \in DOMAIN h
      BY <1>2, <1>3, <2>4, <3>1 DEF InWindow
    <3>. QED
      BY <3>2
  <2>6. h[p] = notes[1].packet[i]
    <3>1. h[p] = notes[p[1] - lo].packet[p[2]]
      BY <1>2, <2>5 DEF InWindow
    <3>. QED
      BY <2>4, <2>5, <3>1
  <2>7. p[1] \in arr
    BY <2>5 DEF arr, lo
  <2>. HIDE DEF p
  <2>8. h[p].index = e /\ h[p].string = mEntryTable[e].string
    BY <2>3, <2>6
  <2>9. /\ IsHistory(h) /\ IsFiniteSet(DOMAIN h)
        /\ Cardinality(DOMAIN h) <= 2 * EntryCount
    BY <1>1, <1>2, FiniteInFlight DEF InWindow, FewInFlight, h
  <2>10. /\ mRemoteStringTable[h[p].index] = h[p].string
         /\ \A q \in DOMAIN h : Late(q, arr) /\ h[q].index = h[p].index =>
              h[q].string = h[p].string
    BY <1>1, <1>7, <2>5, <2>7, <2>8, <2>9, ReadUseIsThere
  <2>. QED
    BY <2>8, <2>10
<1>. HIDE DEF table, By, list
<1>8. HistoryOK(h, table, lru, arr, mRemoteStringTable, doubtful)
  <2>1. Confirmed(h, arr, mRemoteStringTable, table, doubtful)
    BY <1>1, <1>6, <1>7 DEF HistoryOK, Confirmed
  <2>2. Replaced(h, table)
    <3>1. \A p \in DOMAIN h : h[p].index \in Index
      BY <1>2 DEF InWindow, IsHistory, Unit
    <3>. QED
      BY <1>1, <1>6, <3>1 DEF HistoryOK, Replaced
  <2>. QED
    BY <1>1, <2>1, <2>2 DEF HistoryOK
<1>. QED
  BY <1>6, <1>8 DEF h, arr, table, list

(* packetReceived and packetDropped keep the invariant.                    *)
LEMMA NotifyKeeps ==
  ASSUME FewInFlight, IInv, packetReceived \/ packetDropped PROVE IInv'
<1>. DEFINE lo == notified[Sender]
            hi == sent[Sender]
            h == Uses(InFlight)
            g == Uses([n \in lo + 2 .. hi |-> notes[n - lo].packet])
<1>1. TypeOK /\ ChannelOK /\ NotesOK /\ AllEntries(lru)
  BY DEF IInv
<1>2. HandleNotify
  BY DEF packetReceived, packetDropped
<1>3. /\ Unnotified(Sender) # {}
      /\ notified' = [notified EXCEPT ![Sender] = lo + 1]
      /\ notes' = Tail(notes)
      /\ sent' = sent /\ arrived' = arrived /\ lru' = lru
      /\ mRemoteStringTable' = mRemoteStringTable /\ doubtful' = doubtful
  BY <1>2 DEF HandleNotify, NotifyUpTo
<1>4. /\ mEntryTable' \in [Index -> Entry]
      /\ HistoryOK(h, mEntryTable', lru, arrived[Sender], mRemoteStringTable, doubtful)
  <2>1. CASE packetReceived
    <3>1. mEntryTable' = ConfirmedBy(mEntryTable, Head(notes).stringList)
      BY <2>1 DEF packetReceived, ConfirmedBy, IsConfirmedBy
    <3>2. lo + 1 \in arrived[Sender]
      BY <2>1 DEF packetReceived
    <3>. QED
      BY <1>3, <3>1, <3>2, ConfirmKeeps
  <2>2. CASE packetDropped
    BY <2>2 DEF packetDropped, IInv, TypeOK
  <2>. QED
    BY <2>1, <2>2
<1>5. /\ lo \in Nat /\ hi \in Nat /\ lo + 1 <= hi /\ hi - lo <= Window /\ Len(notes) = hi - lo
      /\ notes \in Seq(Note)
  BY <1>1, <1>3, NoteFacts DEF ChannelOK, Unnotified, TypeOK
<1>6. InWindow(h, lo, hi)
  BY <1>1, PlacesInFlight
<1>7. notified'[Sender] = lo + 1 /\ notified' \in [Side -> Nat]
  BY <1>1, <1>3, <1>5 DEF TypeOK, Side, Sender
<1>8. /\ notes' \in Seq(Note) /\ Len(notes') = hi - (lo + 1)
      /\ \A i \in 1 .. Len(notes') : notes'[i] = notes[i + 1] /\ i + 1 \in 1 .. Len(notes)
  <2>1. notes # << >> /\ Len(notes) \in Nat
    BY <1>5
  <2>2. notes' \in Seq(Note) /\ Len(notes') = Len(notes) - 1
        /\ \A i \in 1 .. Len(notes) - 1 : notes'[i] = notes[i + 1]
    BY <1>3, <1>5, <2>1, HeadTailProperties
  <2>. QED
    BY <1>5, <2>1, <2>2
<1>9. (InFlight)' = [n \in lo + 2 .. hi |-> notes[n - lo].packet]
  <2>1. (InFlight)' = [n \in lo + 1 + 1 .. hi |-> notes'[n - (lo + 1)].packet]
    <3>1. (InFlight)' = [n \in notified'[Sender] + 1 .. sent'[Sender] |->
                            notes'[n - notified'[Sender]].packet]
      BY DEF InFlight, Unnotified, Sender
    <3>2. sent'[Sender] = hi
      BY <1>3
    <3>. HIDE DEF lo, hi
    <3>. QED
      BY <1>7, <3>1, <3>2
  <2>2. lo + 1 + 1 = lo + 2
    BY <1>5
  <2>3. \A n \in lo + 2 .. hi : notes'[n - (lo + 1)] = notes[n - lo]
    <3>. TAKE n \in lo + 2 .. hi
    <3>1. n - (lo + 1) \in 1 .. Len(notes') /\ n - (lo + 1) + 1 = n - lo
      <4>1. lo \in Int /\ hi \in Int /\ n \in Int /\ n >= lo + 2 /\ n <= hi
        BY <1>5
      <4>2. Len(notes') = hi - (lo + 1)
        BY <1>8
      <4>. HIDE DEF lo, hi
      <4>. QED
        BY <4>1, <4>2
    <3>2. notes'[n - (lo + 1)] = notes[n - (lo + 1) + 1]
      BY <1>8, <3>1
    <3>. QED
      BY <3>1, <3>2
  <2>. QED
    BY <2>1, <2>2, <2>3
<1>10. g = (Uses(InFlight))'
  BY <1>9 DEF Uses
<1>11. HistoryOK(g, mEntryTable', lru, arrived[Sender], mRemoteStringTable, doubtful)
  <2>. DEFINE B == [n \in lo + 2 .. hi |-> notes[n - lo].packet]
  <2>1. DOMAIN B = lo + 2 .. hi /\ \A n \in lo + 2 .. hi : B[n] = notes[n - lo].packet
    OBVIOUS
  <2>2. IsPackets(B)
    <3>1. \A n \in lo + 2 .. hi : n \in Int /\ n \in Unnotified(Sender)
      BY <1>5 DEF Unnotified
    <3>. QED
      BY <1>1, <2>1, <3>1, NoteFacts DEF IsPackets
  <2>3. g = Uses(B)
    OBVIOUS
  <2>. HIDE DEF B
  <2>4. /\ \A p : p \in DOMAIN g <=> p \in (DOMAIN B) \X (1 .. MaxUnits) /\ p[2] <= Len(B[p[1]])
        /\ \A p \in DOMAIN g : g[p] = B[p[1]][p[2]]
    BY <2>2, <2>3, UsesFacts
  <2>. HIDE DEF g, h, lo, hi
  <2>5. ASSUME NEW n \in Int, NEW k \in Int
        PROVE  <<n, k>> \in DOMAIN g <=> <<n, k>> \in DOMAIN h /\ n # lo + 1
    <3>1. <<n, k>> \in DOMAIN g <=> /\ n \in lo + 2 .. hi /\ k \in 1 .. MaxUnits
                                    /\ k <= Len(B[n])
      BY <2>1, <2>4
    <3>2. n \in lo + 2 .. hi <=> n \in lo + 1 .. hi /\ n # lo + 1
      BY <1>5
    <3>. QED
      BY <1>6, <2>1, <3>1, <3>2 DEF InWindow
  <2>6. \A p \in DOMAIN g : p = <<p[1], p[2]>> /\ p[1] \in Int /\ p[2] \in Int /\ p[1] \in lo + 2 .. hi
    <3>. TAKE p \in DOMAIN g
    <3>1. p \in (lo + 2 .. hi) \X (1 .. MaxUnits)
      BY <2>1, <2>4
    <3>. QED
      BY <1>5, <3>1, StringConstants
  <2>7. \A p \in DOMAIN g : p \in DOMAIN h
    BY <2>5, <2>6
  <2>8. \A p \in DOMAIN g : g[p] = h[p]
    BY <1>6, <2>1, <2>4, <2>6, <2>7 DEF InWindow
  <2>9. \A p \in DOMAIN g : \A q \in DOMAIN h : Before(p, q) => q \in DOMAIN g
    <3>. TAKE p \in DOMAIN g
    <3>. TAKE q \in DOMAIN h
    <3>. HAVE Before(p, q)
    <3>1. q = <<q[1], q[2]>> /\ q[1] \in Int /\ q[2] \in Int
      BY <1>6 DEF InWindow
    <3>2. p[1] \in lo + 2 .. hi /\ p[1] <= q[1]
      BY <1>5, <2>6, <3>1 DEF Before
    <3>3. q[1] # lo + 1
      BY <1>5, <3>1, <3>2
    <3>4. <<q[1], q[2]>> \in DOMAIN g
      BY <2>5, <3>1, <3>3
    <3>. QED
      BY <3>1, <3>4
  <2>. QED
    BY <1>4, <2>7, <2>8, <2>9, EndOfHistory
<1>. HIDE DEF g, h
<1>12. TypeOK'
  BY <1>1, <1>3, <1>4, <1>7, <1>8 DEF TypeOK
<1>13. ChannelOK'
  <2>1. /\ lo + 1 <= hi /\ hi - (lo + 1) <= Window
    BY <1>5, WindowAssumption
  <2>2. \A m \in arrived'[Sender] : m <= sent'[Sender]
    BY <1>1, <1>3 DEF ChannelOK
  <2>3. sent'[Sender] = hi
    BY <1>3
  <2>4. /\ notified'[Sender] <= sent'[Sender]
        /\ sent'[Sender] - notified'[Sender] <= Window
        /\ Len(notes') = sent'[Sender] - notified'[Sender]
    BY <1>7, <1>8, <2>1, <2>3
  <2>. QED
    BY <2>2, <2>4 DEF ChannelOK, Sender
<1>14. NotesOK'
  <2>. SUFFICES ASSUME NEW i \in 1 .. Len(notes')
                PROVE  /\ Len(notes'[i].packet) <= MaxUnits
                       /\ RelativeOK(notes'[i].packet) /\ ListOK(notes'[i])
                       /\ DoubtOK(notes'[i].packet, doubtful')
    BY DEF NotesOK, RelativeOK, ListOK, BufferAt, SharesPrefix, DoubtOK, AllSent, Sure
  <2>. QED
    BY <1>1, <1>3, <1>8 DEF NotesOK
<1>15. HistoryOK((Uses(InFlight))', mEntryTable', lru', arrived'[Sender], mRemoteStringTable',
                doubtful')
  BY <1>3, <1>10, <1>11
<1>16. AllEntries(lru')
  BY <1>1, <1>3
<1>. QED
  BY <1>12, <1>13, <1>14, <1>15, <1>16 DEF IInv

-----------------------------------------------------------------------------
(* A packet is read.                                                       *)

RState == [table : [Index -> Text], buffer : Text]

LEMMA ReadIs ==
  ASSUME NEW r \in RState, NEW x \in Unit
  PROVE  /\ readStringTableEntry(r, x) \in RState
         /\ x.sent /\ x.text =>
              /\ readStringTableEntry(r, x).table = [r.table EXCEPT ![x.index] = TextOf(r, x)]
              /\ readStringTableEntry(r, x).buffer = TextOf(r, x)
         /\ ~(x.sent /\ x.text) => readStringTableEntry(r, x) = r
<1>. DEFINE table == [r.table EXCEPT ![x.index] = TextOf(r, x)]
            r2 == [table |-> table, buffer |-> TextOf(r, x)]
<1>1. /\ r.table \in [Index -> Text] /\ r.buffer \in Text
      /\ x.index \in Index /\ x.string \in String
  BY DEF RState, Unit
<1>2. TextOf(r, x) \in Text
  BY <1>1 DEF TextOf, Text
<1>3. table \in [Index -> Text]
  BY <1>1, <1>2
<1>4. readStringTableEntry(r, x) = IF x.sent /\ x.text THEN r2 ELSE r
  BY DEF readStringTableEntry
<1>. HIDE DEF table
<1>5. r2 \in RState /\ r2.table = table /\ r2.buffer = TextOf(r, x)
  BY <1>2, <1>3 DEF RState
<1>. HIDE DEF r2
<1>. QED
  BY <1>4, <1>5 DEF table

\* The state after the first k units of a packet: the last use of an entry
\* decides what is there, unless it is doubtful.
ReadTo(r, packet, k, remote, doubt) ==
  /\ AllSent(packet, k) => BufferAt(packet, k, r.buffer)
  /\ \A e \in Index :
       \/ r.table[e] = remote[e] /\ \A i \in 1 .. k : packet[i].index # e
       \/ \E i \in 1 .. k :
            /\ packet[i].index = e
            /\ Sure(doubt, e, packet[i].string) => r.table[e] = packet[i].string
            /\ \A j \in i + 1 .. k : packet[j].index # e

\* The uses without text of a packet.
Resolves(packet, remote, doubt) ==
  \A k \in 1 .. Len(packet) :
    ~packet[k].text /\ Sure(doubt, packet[k].index, packet[k].string) =>
      /\ remote[packet[k].index] = packet[k].string
      /\ \A i \in 1 .. k - 1 : packet[i].index = packet[k].index =>
           packet[i].string = packet[k].string

(* One unit more is read as it was written.                                *)
LEMMA ReadStep ==
  ASSUME NEW packet \in Seq(Unit), NEW remote \in [Index -> Text], NEW doubt,
         RelativeOK(packet), DoubtOK(packet, doubt), Resolves(packet, remote, doubt),
         NEW k \in Nat, k + 1 <= Len(packet),
         NEW r \in RState, ReadTo(r, packet, k, remote, doubt)
  PROVE  ReadTo(readStringTableEntry(r, packet[k + 1]), packet, k + 1, remote, doubt)
<1>. DEFINE x == packet[k + 1]
            r2 == readStringTableEntry(r, x)
<1>1. k + 1 \in 1 .. Len(packet) /\ Len(packet) \in Nat
  OBVIOUS
<1>2. x \in Unit /\ x.index \in Index /\ x.string \in String /\ x.text \in BOOLEAN
      /\ x.sent \in BOOLEAN /\ x.relative \in BOOLEAN
  <2>1. x \in Unit
    BY <1>1, ElementOfSeq
  <2>. HIDE DEF x
  <2>. QED
    BY <2>1 DEF Unit
<1>3. /\ x.sent /\ x.text => /\ r2.table = [r.table EXCEPT ![x.index] = TextOf(r, x)]
                             /\ r2.buffer = TextOf(r, x)
      /\ ~(x.sent /\ x.text) => r2 = r
  BY <1>2, ReadIs
<1>4. r.table \in [Index -> Text] /\ r.buffer \in Text
  BY DEF RState
<1>5. ASSUME AllSent(packet, k) PROVE TextOf(r, x) = x.string
  <2>1. ASSUME x.relative PROVE SharesPrefix(r.buffer, x.string)
    <3>1. BufferAt(packet, (k + 1) - 1, r.buffer)
      BY <1>5 DEF ReadTo
    <3>. QED
      BY <1>1, <1>4, <2>1, <3>1 DEF RelativeOK
  <2>. QED
    BY <2>1 DEF TextOf
<1>. HIDE DEF r2
<1>6. AllSent(packet, k + 1) => AllSent(packet, k) /\ (x.text => x.sent)
  BY DEF AllSent
<1>7. ASSUME Sure(doubt, x.index, x.string) PROVE r2.table[x.index] = x.string
  <2>1. CASE x.text
    <3>1. AllSent(packet, k + 1)
      BY <1>1, <1>7, <2>1 DEF DoubtOK
    <3>. QED
      BY <1>2, <1>3, <1>4, <1>5, <1>6, <2>1, <3>1
  <2>2. CASE ~x.text
    <3>1. /\ remote[x.index] = x.string
          /\ \A i \in 1 .. k : packet[i].index = x.index => packet[i].string = x.string
      <4>1. (k + 1) - 1 = k
        OBVIOUS
      <4>. QED
        BY <1>1, <1>7, <2>2, <4>1 DEF Resolves
    <3>2. r.table[x.index] = x.string
      BY <1>2, <1>7, <3>1 DEF ReadTo
    <3>. QED
      BY <1>3, <2>2, <3>2
  <2>. QED
    BY <2>1, <2>2
<1>8. \A e \in Index : e # x.index => r2.table[e] = r.table[e]
  BY <1>2, <1>3, <1>4
<1>. HIDE DEF x
<1>9. ASSUME AllSent(packet, k + 1) PROVE BufferAt(packet, k + 1, r2.buffer)
  <2>0. BufferAt(packet, k, r.buffer)
    BY <1>6, <1>9 DEF ReadTo
  <2>1. CASE x.text
    <3>1. /\ k + 1 \in 1 .. k + 1 /\ packet[k + 1].text /\ r2.buffer = packet[k + 1].string
          /\ \A j \in (k + 1) + 1 .. k + 1 : ~packet[j].text
      BY <1>3, <1>5, <1>6, <1>9, <2>1 DEF x
    <3>. QED
      BY <3>1 DEF BufferAt
  <2>2. CASE ~x.text
    <3>1. r2.buffer = r.buffer
      BY <1>3, <2>2
    <3>2. CASE r.buffer = NoString /\ \A i \in 1 .. k : ~packet[i].text
      <4>1. \A i \in 1 .. k + 1 : ~packet[i].text
        BY <2>2, <3>2 DEF x
      <4>. QED
        BY <3>1, <3>2, <4>1 DEF BufferAt
    <3>3. CASE \E i \in 1 .. k : /\ packet[i].text /\ r.buffer = packet[i].string
                                 /\ \A j \in i + 1 .. k : ~packet[j].text
      <4>1. PICK i \in 1 .. k : /\ packet[i].text /\ r.buffer = packet[i].string
                                /\ \A j \in i + 1 .. k : ~packet[j].text
        BY <3>3
      <4>2. i \in 1 .. k + 1 /\ \A j \in i + 1 .. k + 1 : ~packet[j].text
        BY <2>2, <4>1 DEF x
      <4>. QED
        BY <3>1, <4>1, <4>2 DEF BufferAt
    <3>. QED
      BY <2>0, <3>2, <3>3 DEF BufferAt
  <2>. QED
    BY <2>1, <2>2
<1>10. ASSUME NEW e \in Index
       PROVE  \/ r2.table[e] = remote[e] /\ \A i \in 1 .. k + 1 : packet[i].index # e
              \/ \E i \in 1 .. k + 1 :
                   /\ packet[i].index = e
                   /\ Sure(doubt, e, packet[i].string) => r2.table[e] = packet[i].string
                   /\ \A j \in i + 1 .. k + 1 : packet[j].index # e
  <2>1. CASE e = x.index
    <3>1. /\ k + 1 \in 1 .. k + 1 /\ packet[k + 1].index = e
          /\ Sure(doubt, e, packet[k + 1].string) => r2.table[e] = packet[k + 1].string
          /\ \A j \in (k + 1) + 1 .. k + 1 : packet[j].index # e
      BY <1>7, <2>1 DEF x
    <3>. QED
      BY <3>1
  <2>2. CASE e # x.index
    <3>1. r2.table[e] = r.table[e] /\ packet[k + 1].index # e
      BY <1>8, <2>2 DEF x
    <3>2. CASE r.table[e] = remote[e] /\ \A i \in 1 .. k : packet[i].index # e
      BY <3>1, <3>2
    <3>3. CASE \E i \in 1 .. k :
                 /\ packet[i].index = e
                 /\ Sure(doubt, e, packet[i].string) => r.table[e] = packet[i].string
                 /\ \A j \in i + 1 .. k : packet[j].index # e
      <4>1. PICK i \in 1 .. k :
                 /\ packet[i].index = e
                 /\ Sure(doubt, e, packet[i].string) => r.table[e] = packet[i].string
                 /\ \A j \in i + 1 .. k : packet[j].index # e
        BY <3>3
      <4>2. i \in 1 .. k + 1 /\ \A j \in i + 1 .. k + 1 : packet[j].index # e
        BY <3>1, <4>1
      <4>. QED
        BY <3>1, <4>1, <4>2
    <3>. QED
      BY <3>2, <3>3 DEF ReadTo
  <2>. QED
    BY <2>1, <2>2
<1>. QED
  BY <1>9, <1>10 DEF ReadTo, r2, x

(* A whole packet is read.                                                 *)
LEMMA ReadingIs ==
  ASSUME TypeOK, NEW n, NEW packet \in Seq(Unit), notes[n - notified[Sender]].packet = packet,
         RelativeOK(packet), DoubtOK(packet, doubtful),
         Resolves(packet, mRemoteStringTable, doubtful)
  PROVE  \A k \in 0 .. Len(packet) :
           /\ Reading(n)[k] \in RState
           /\ ReadTo(Reading(n)[k], packet, k, mRemoteStringTable, doubtful)
<1>. DEFINE m == Len(packet)
            remote == mRemoteStringTable
            first == [table |-> remote, buffer |-> NoString]
            Step(r, k) == readStringTableEntry(r, packet[k])
            g == [k \in 1 .. m |-> [r \in RState |-> Step(r, k)]]
            IsF(h) == h = [k \in 0 .. m |-> IF k = 0 THEN first ELSE Step(h[k - 1], k)]
            f == CHOOSE h : IsF(h)
<1>1. m \in Nat /\ \A k \in 1 .. m : packet[k] \in Unit
  BY ElementOfSeq
<1>2. remote \in [Index -> Text]
  BY DEF TypeOK
<1>3. first \in RState
  <2>1. NoString \in Text
    BY DEF Text
  <2>. QED
    BY <1>2, <2>1 DEF RState
<1>4. Reading(n) = f
  BY DEF Reading
<1>. HIDE DEF m, remote
<1>5. g \in [1 .. m -> [RState -> RState]]
  <2>1. \A k \in 1 .. m : \A r \in RState : Step(r, k) \in RState
    BY <1>1, ReadIs
  <2>. HIDE DEF Step
  <2>. QED
    BY <2>1
<1>. HIDE DEF first
<1>6. PICK h : h \in [0 .. m -> RState] /\ h[0] = first /\ \A k \in 1 .. m : h[k] = g[k][h[k - 1]]
  <2>. HIDE DEF g
  <2>1. PICK h : Steps(h, m, RState, first, g)
    BY <1>1, <1>3, <1>5, RecursionExists
  <2>. QED
    BY <2>1 DEF Steps
<1>. HIDE DEF Step
<1>7. \A k \in 1 .. m : h[k] = Step(h[k - 1], k)
  <2>. SUFFICES ASSUME NEW k \in 1 .. m PROVE h[k] = Step(h[k - 1], k)
    OBVIOUS
  <2>1. h[k - 1] \in RState
    <3>1. k - 1 \in 0 .. m
      BY <1>1
    <3>. QED
      BY <1>6, <3>1
  <2>2. g[k] = [r \in RState |-> Step(r, k)]
    OBVIOUS
  <2>3. h[k] = g[k][h[k - 1]]
    BY <1>6
  <2>. QED
    BY <2>1, <2>2, <2>3
<1>8. IsF(h)
  <2>. DEFINE R(k) == IF k = 0 THEN first ELSE Step(h[k - 1], k)
  <2>1. \A k \in 0 .. m : h[k] = R(k)
    <3>. SUFFICES ASSUME NEW k \in 0 .. m PROVE h[k] = R(k)
      OBVIOUS
    <3>1. CASE k = 0
      BY <1>6, <3>1
    <3>2. CASE k \in 1 .. m
      BY <1>1, <1>7, <3>2
    <3>. QED
      BY <1>1, <3>1, <3>2
  <2>. HIDE DEF R
  <2>2. h = [k \in 0 .. m |-> R(k)]
    BY <1>6, <2>1
  <2>. QED
    BY <2>2 DEF R
<1>9. IsF(f)
  <2>. HIDE DEF IsF
  <2>. QED
    BY <1>8
<1>10. f[0] = first /\ \A k \in 1 .. m : f[k] = Step(f[k - 1], k)
  <2>. DEFINE R(k) == IF k = 0 THEN first ELSE Step(f[k - 1], k)
  <2>. HIDE DEF f
  <2>1. f = [k \in 0 .. m |-> R(k)]
    BY <1>9
  <2>. HIDE DEF R
  <2>2. \A k \in 0 .. m : f[k] = R(k)
    BY <2>1
  <2>3. 0 \in 0 .. m /\ \A k \in 1 .. m : k \in 0 .. m /\ k # 0
    BY <1>1
  <2>. QED
    BY <2>2, <2>3 DEF R
<1>. HIDE DEF f, g, IsF
<1>. DEFINE T == {k \in Nat : k <= m => f[k] \in RState /\ ReadTo(f[k], packet, k, remote, doubtful)}
<1>11. 0 \in T
  <2>1. first.table = remote /\ first.buffer = NoString
    BY DEF first
  <2>2. 1 .. 0 = {}
    OBVIOUS
  <2>3. ReadTo(first, packet, 0, remote, doubtful)
    BY <2>1, <2>2 DEF ReadTo, BufferAt
  <2>. QED
    BY <1>3, <1>10, <2>3
<1>12. ASSUME NEW k \in Nat, k \in T PROVE k + 1 \in T
  <2>. SUFFICES ASSUME k + 1 <= m
                PROVE  f[k + 1] \in RState /\ ReadTo(f[k + 1], packet, k + 1, remote, doubtful)
    OBVIOUS
  <2>1. f[k] \in RState /\ ReadTo(f[k], packet, k, remote, doubtful) /\ k + 1 \in 1 .. m /\ (k + 1) - 1 = k
    BY <1>1, <1>12
  <2>2. f[k + 1] = readStringTableEntry(f[k], packet[k + 1])
    BY <1>10, <2>1 DEF Step
  <2>3. f[k + 1] \in RState
    BY <1>1, <2>1, <2>2, ReadIs
  <2>4. ReadTo(f[k + 1], packet, k + 1, remote, doubtful)
    BY <1>2, <2>1, <2>2, ReadStep DEF m, remote
  <2>. QED
    BY <2>3, <2>4
<1>. HIDE DEF T
<1>13. Nat \subseteq T
  BY <1>11, <1>12, NatSetInduction
<1>14. \A k \in 0 .. m : f[k] \in RState /\ ReadTo(f[k], packet, k, remote, doubtful)
  BY <1>1, <1>13 DEF T
<1>. QED
  BY <1>4, <1>14 DEF m, remote

\* The table of the receiver is after when packet n has been read.
ReadInto(after, remote, h, n, doubt) ==
  \A e \in Index :
    \/ after[e] = remote[e] /\ \A p \in DOMAIN h : p[1] = n => h[p].index # e
    \/ \E p \in DOMAIN h :
         /\ p[1] = n /\ h[p].index = e
         /\ Sure(doubt, e, h[p].string) => after[e] = h[p].string
         /\ \A q \in DOMAIN h : q[1] = n /\ Before(p, q) => h[q].index # e

(* Reading a packet keeps what is known of a history.                      *)
LEMMA ReadKeepsHistory ==
  ASSUME NEW h, IsHistory(h), NEW table, NEW list, NEW arr \in SUBSET Int, NEW n \in Int,
         \A m \in arr : m < n, NEW remote, NEW after, NEW doubt,
         HistoryOK(h, table, list, arr, remote, doubt), ReadInto(after, remote, h, n, doubt)
  PROVE  HistoryOK(h, table, list, arr \cup {n}, after, doubt)
<1>1. \A p \in DOMAIN h : p \in Place /\ p[1] \in Int /\ h[p].index \in Index
  BY DEF IsHistory, Place, Unit
<1>2. \A p \in DOMAIN h : Late(p, arr \cup {n}) => Late(p, arr) /\ n < p[1]
  BY DEF Late
<1>3. \A p \in DOMAIN h : p[1] = n => Late(p, arr)
  BY DEF Late
<1>4. Remembered(h, arr \cup {n}, after, doubt)
  <2>. SUFFICES ASSUME NEW p \in DOMAIN h, p[1] \in arr \cup {n},
                       Sure(doubt, h[p].index, h[p].string), after[h[p].index] # h[p].string
                PROVE  \E q \in DOMAIN h : /\ q[1] \in arr \cup {n} /\ Before(p, q)
                                           /\ h[q].index = h[p].index /\ h[q].string # h[p].string
    BY DEF Remembered
  <2>. DEFINE e == h[p].index
  <2>1. CASE after[e] = remote[e] /\ \A q \in DOMAIN h : q[1] = n => h[q].index # e
    <3>1. p[1] \in arr /\ remote[e] # h[p].string
      BY <2>1
    <3>. QED
      BY <3>1 DEF HistoryOK, Remembered
  <2>2. CASE \E q \in DOMAIN h :
               /\ q[1] = n /\ h[q].index = e
               /\ Sure(doubt, e, h[q].string) => after[e] = h[q].string
               /\ \A r \in DOMAIN h : r[1] = n /\ Before(q, r) => h[r].index # e
    <3>1. PICK q \in DOMAIN h :
               /\ q[1] = n /\ h[q].index = e
               /\ Sure(doubt, e, h[q].string) => after[e] = h[q].string
               /\ \A r \in DOMAIN h : r[1] = n /\ Before(q, r) => h[r].index # e
      BY <2>2
    <3>2. p # q /\ h[q].string # h[p].string
      BY <3>1
    <3>3. CASE p[1] \in arr
      BY <3>1, <3>2, <3>3 DEF Before
    <3>4. CASE p[1] = n
      <4>1. Before(p, q)
        BY <1>1, <3>1, <3>2, <3>4, PlacesAreOrdered
      <4>. QED
        BY <3>1, <3>2, <4>1
    <3>. QED
      BY <3>3, <3>4
  <2>. QED
    BY <1>1, <2>1, <2>2 DEF ReadInto
<1>5. Confirmed(h, arr \cup {n}, after, table, doubt)
  <2>. SUFFICES ASSUME NEW e \in Index, table[e].receiveConfirmed, Sure(doubt, e, table[e].string)
                PROVE  /\ after[e] = table[e].string
                       /\ \A p \in DOMAIN h : Late(p, arr \cup {n}) /\ h[p].index = e =>
                            h[p].string = table[e].string
    BY DEF Confirmed
  <2>1. /\ remote[e] = table[e].string
        /\ \A p \in DOMAIN h : Late(p, arr) /\ h[p].index = e => h[p].string = table[e].string
    BY DEF HistoryOK, Confirmed
  <2>2. after[e] = table[e].string
    BY <1>3, <2>1 DEF ReadInto
  <2>. QED
    BY <1>2, <2>1, <2>2
<1>6. Resolved(h, arr \cup {n}, after, doubt)
  <2>. SUFFICES ASSUME NEW p \in DOMAIN h, Late(p, arr \cup {n}), ~h[p].text,
                       Sure(doubt, h[p].index, h[p].string)
                PROVE  /\ after[h[p].index] = h[p].string
                       /\ \A q \in DOMAIN h : Late(q, arr \cup {n}) /\ Before(q, p)
                                              /\ h[q].index = h[p].index =>
                            h[q].string = h[p].string
    BY DEF Resolved
  <2>1. Late(p, arr) /\ n < p[1]
    BY <1>2
  <2>2. /\ remote[h[p].index] = h[p].string
        /\ \A q \in DOMAIN h : Late(q, arr) /\ Before(q, p) /\ h[q].index = h[p].index =>
             h[q].string = h[p].string
    BY <2>1 DEF HistoryOK, Resolved
  <2>3. \A q \in DOMAIN h : q[1] = n => Before(q, p) /\ Late(q, arr)
    BY <1>3, <2>1 DEF Before
  <2>4. after[h[p].index] = h[p].string
    BY <1>1, <2>2, <2>3 DEF ReadInto
  <2>. QED
    BY <1>2, <2>2, <2>4
<1>. QED
  BY <1>4, <1>5, <1>6 DEF HistoryOK

(* A packet that may be read is read as it was written.                    *)
LEMMA ReadableIsRead ==
  ASSUME IInv, NEW n \in Unnotified(Sender), Readable(Receiver, n)
  PROVE  LET packet == notes[n - notified[Sender]].packet
         IN  /\ packet \in Seq(Unit)
             /\ \A k \in 0 .. Len(packet) :
                  /\ Reading(n)[k] \in RState
                  /\ ReadTo(Reading(n)[k], packet, k, mRemoteStringTable, doubtful)
<1>. DEFINE packet == notes[n - notified[Sender]].packet
            lo == notified[Sender]
            hi == sent[Sender]
            h == Uses(InFlight)
            arr == arrived[Sender]
<1>1. TypeOK /\ ChannelOK /\ NotesOK /\ Resolved(h, arr, mRemoteStringTable, doubtful)
  BY DEF IInv, HistoryOK
<1>2. /\ n \in Int /\ n - lo \in 1 .. Len(notes) /\ packet \in Seq(Unit) /\ n \in lo + 1 .. hi
  BY <1>1, NoteFacts DEF Unnotified
<1>3. Len(packet) <= MaxUnits /\ RelativeOK(packet) /\ DoubtOK(packet, doubtful)
  BY <1>1, <1>2 DEF NotesOK
<1>4. \A m \in arr : m < n
  BY DEF Readable, Receiver, Peer, Sender
<1>5. InWindow(h, lo, hi)
  BY <1>1, PlacesInFlight
<1>. HIDE DEF h, arr
<1>6. \A k \in 1 .. Len(packet) : <<n, k>> \in DOMAIN h /\ h[<<n, k>>] = packet[k]
                                  /\ Late(<<n, k>>, arr)
  <2>. TAKE k \in 1 .. Len(packet)
  <2>1. k \in Int /\ k \in 1 .. MaxUnits /\ k <= Len(packet)
    BY <1>2, <1>3, StringConstants
  <2>2. <<n, k>> \in DOMAIN h
    BY <1>2, <1>5, <2>1 DEF InWindow
  <2>3. h[<<n, k>>] = notes[<<n, k>>[1] - lo].packet[<<n, k>>[2]]
    BY <1>5, <2>2 DEF InWindow
  <2>4. Late(<<n, k>>, arr)
    BY <1>4 DEF Late
  <2>. QED
    BY <2>2, <2>3, <2>4
<1>7. Resolves(packet, mRemoteStringTable, doubtful)
  <2>. SUFFICES ASSUME NEW k \in 1 .. Len(packet), ~packet[k].text,
                       Sure(doubtful, packet[k].index, packet[k].string)
                PROVE  /\ mRemoteStringTable[packet[k].index] = packet[k].string
                       /\ \A i \in 1 .. k - 1 : packet[i].index = packet[k].index =>
                            packet[i].string = packet[k].string
    BY DEF Resolves
  <2>. HIDE DEF packet
  <2>1. /\ mRemoteStringTable[h[<<n, k>>].index] = h[<<n, k>>].string
        /\ \A q \in DOMAIN h : Late(q, arr) /\ Before(q, <<n, k>>)
                               /\ h[q].index = h[<<n, k>>].index => h[q].string = h[<<n, k>>].string
    BY <1>1, <1>6 DEF Resolved
  <2>2. ASSUME NEW i \in 1 .. k - 1, packet[i].index = packet[k].index
        PROVE  packet[i].string = packet[k].string
    <3>1. i \in 1 .. Len(packet) /\ i < k
      BY <1>2
    <3>2. Before(<<n, i>>, <<n, k>>)
      BY <3>1 DEF Before
    <3>. QED
      BY <1>6, <2>1, <2>2, <3>1, <3>2
  <2>. QED
    BY <1>6, <2>1, <2>2
<1>8. \A k \in 0 .. Len(packet) :
        /\ Reading(n)[k] \in RState
        /\ ReadTo(Reading(n)[k], packet, k, mRemoteStringTable, doubtful)
  BY <1>1, <1>2, <1>3, <1>7, ReadingIs
<1>. QED
  BY <1>2, <1>8

(* ReadPacket keeps the invariant.                                         *)
LEMMA ReadPacketKeeps == ASSUME IInv, ReadPacket PROVE IInv'
<1>. DEFINE lo == notified[Sender]
            hi == sent[Sender]
            h == Uses(InFlight)
            arr == arrived[Sender]
<1>1. TypeOK /\ ChannelOK /\ NotesOK /\ AllEntries(lru)
      /\ HistoryOK(h, mEntryTable, lru, arr, mRemoteStringTable, doubtful)
  BY DEF IInv
<1>2. PICK n \in Unnotified(Sender) :
        /\ Readable(Receiver, n)
        /\ arrived' = [arrived EXCEPT ![Sender] = @ \union {n}]
        /\ mRemoteStringTable' = Reading(n)[Len(notes[n - notified[Sender]].packet)].table
        /\ UNCHANGED <<sent, notified, mEntryTable, lru, notes, doubtful>>
  BY DEF ReadPacket
<1>. DEFINE packet == notes[n - lo].packet
            r == Reading(n)[Len(packet)]
<1>3. /\ packet \in Seq(Unit) /\ r \in RState
      /\ ReadTo(r, packet, Len(packet), mRemoteStringTable, doubtful)
  <2>1. /\ packet \in Seq(Unit)
        /\ \A k \in 0 .. Len(packet) :
             /\ Reading(n)[k] \in RState
             /\ ReadTo(Reading(n)[k], packet, k, mRemoteStringTable, doubtful)
    BY <1>2, ReadableIsRead
  <2>2. Len(packet) \in 0 .. Len(packet)
    BY <2>1
  <2>. QED
    BY <2>1, <2>2
<1>4. /\ n \in Int /\ n \in Nat /\ n \in lo + 1 .. hi /\ n - lo \in 1 .. Len(notes)
      /\ lo \in Nat /\ hi \in Nat
  BY <1>1, <1>2, NoteFacts DEF Unnotified
<1>5. \A m \in arr : m < n
  BY <1>2 DEF Readable, Receiver, Peer, Sender
<1>6. arr \in SUBSET Nat /\ arrived'[Sender] = arr \cup {n} /\ arrived' \in [Side -> SUBSET Nat]
  BY <1>1, <1>2, <1>4 DEF TypeOK, Side, Sender
<1>7. InWindow(h, lo, hi)
  BY <1>1, PlacesInFlight
<1>8. r.table \in [Index -> Text]
  BY <1>3 DEF RState
<1>. HIDE DEF h, r
<1>9. ReadInto(r.table, mRemoteStringTable, h, n, doubtful)
  <2>. SUFFICES ASSUME NEW e \in Index
                PROVE  \/ /\ r.table[e] = mRemoteStringTable[e]
                          /\ \A p \in DOMAIN h : p[1] = n => h[p].index # e
                       \/ \E p \in DOMAIN h :
                            /\ p[1] = n /\ h[p].index = e
                            /\ Sure(doubtful, e, h[p].string) => r.table[e] = h[p].string
                            /\ \A q \in DOMAIN h : q[1] = n /\ Before(p, q) => h[q].index # e
    BY DEF ReadInto
  <2>1. Len(packet) <= MaxUnits /\ Len(packet) \in Nat
    BY <1>1, <1>3, <1>4 DEF NotesOK
  <2>2. \A p \in DOMAIN h : p[1] = n => p[2] \in 1 .. Len(packet) /\ h[p] = packet[p[2]]
    <3>. TAKE p \in DOMAIN h
    <3>. HAVE p[1] = n
    <3>1. p = <<n, p[2]>> /\ p[2] \in Int /\ h[p] = packet[p[2]]
      BY <1>7 DEF InWindow
    <3>2. p[2] \in 1 .. MaxUnits /\ p[2] <= Len(packet)
      BY <1>4, <1>7, <3>1 DEF InWindow
    <3>. QED
      BY <2>1, <3>1, <3>2, StringConstants
  <2>3. CASE r.table[e] = mRemoteStringTable[e] /\ \A i \in 1 .. Len(packet) : packet[i].index # e
    BY <2>2, <2>3
  <2>4. CASE \E i \in 1 .. Len(packet) :
               /\ packet[i].index = e
               /\ Sure(doubtful, e, packet[i].string) => r.table[e] = packet[i].string
               /\ \A j \in i + 1 .. Len(packet) : packet[j].index # e
    <3>1. PICK i \in 1 .. Len(packet) :
               /\ packet[i].index = e
               /\ Sure(doubtful, e, packet[i].string) => r.table[e] = packet[i].string
               /\ \A j \in i + 1 .. Len(packet) : packet[j].index # e
      BY <2>4
    <3>. DEFINE p == <<n, i>>
    <3>2. i \in Int /\ i \in 1 .. MaxUnits /\ i <= Len(packet)
      BY <2>1, <3>1, StringConstants
    <3>3. p \in DOMAIN h
      BY <1>4, <1>7, <3>2 DEF InWindow
    <3>4. p[1] = n /\ p[2] = i
      OBVIOUS
    <3>. HIDE DEF p
    <3>5. h[p] = packet[i]
      BY <2>2, <3>3, <3>4
    <3>6. \A q \in DOMAIN h : q[1] = n /\ Before(p, q) => h[q].index # e
      <4>. TAKE q \in DOMAIN h
      <4>. HAVE q[1] = n /\ Before(p, q)
      <4>1. q[2] \in 1 .. Len(packet) /\ h[q] = packet[q[2]]
        BY <2>2
      <4>2. i < q[2]
        BY <1>4, <3>4 DEF Before
      <4>3. q[2] \in i + 1 .. Len(packet)
        BY <2>1, <3>2, <4>1, <4>2
      <4>. QED
        BY <3>1, <4>1, <4>3
    <3>. QED
      BY <3>1, <3>3, <3>4, <3>5, <3>6
  <2>. QED
    BY <1>3, <2>3, <2>4 DEF ReadTo
<1>10. HistoryOK(h, mEntryTable, lru, arr \cup {n}, r.table, doubtful)
  <2>1. IsHistory(h) /\ arr \in SUBSET Int
    BY <1>6, <1>7 DEF InWindow
  <2>. HIDE DEF arr
  <2>. QED
    BY <1>1, <1>4, <1>5, <1>9, <2>1, ReadKeepsHistory
<1>11. TypeOK'
  BY <1>1, <1>2, <1>6, <1>8 DEF TypeOK, r
<1>12. ChannelOK'
  <2>1. \A m \in arrived'[Sender] : m <= sent'[Sender]
    BY <1>1, <1>2, <1>4, <1>6 DEF ChannelOK
  <2>2. /\ notified'[Sender] <= sent'[Sender]
        /\ sent'[Sender] - notified'[Sender] <= Window
        /\ Len(notes') = sent'[Sender] - notified'[Sender]
    BY <1>1, <1>2 DEF ChannelOK
  <2>. QED
    BY <2>1, <2>2 DEF ChannelOK, Sender
<1>13. NotesOK'
  <2>. SUFFICES ASSUME NEW i \in 1 .. Len(notes')
                PROVE  /\ Len(notes'[i].packet) <= MaxUnits
                       /\ RelativeOK(notes'[i].packet) /\ ListOK(notes'[i])
                       /\ DoubtOK(notes'[i].packet, doubtful')
    BY DEF NotesOK, RelativeOK, ListOK, BufferAt, SharesPrefix, DoubtOK, AllSent, Sure
  <2>. QED
    BY <1>1, <1>2 DEF NotesOK
<1>14. (Uses(InFlight))' = h
  BY <1>2 DEF h, Uses, InFlight, Unnotified, Sender
<1>15. HistoryOK((Uses(InFlight))', mEntryTable', lru', arrived'[Sender], mRemoteStringTable',
                doubtful')
  BY <1>2, <1>6, <1>10, <1>14 DEF r
<1>16. AllEntries(lru')
  BY <1>1, <1>2
<1>. QED
  BY <1>11, <1>12, <1>13, <1>15, <1>16 DEF IInv

-----------------------------------------------------------------------------
LEMMA InitInv == Init => IInv
<1>. SUFFICES ASSUME Init PROVE IInv
  OBVIOUS
<1>1. /\ sent = InitSeq /\ notified = InitSeq /\ arrived = [s \in Side |-> {}]
      /\ mEntryTable = [e \in Index |-> [string |-> NoString, receiveConfirmed |-> FALSE]]
      /\ lru = [k \in 1 .. EntryCount |-> k - 1] /\ notes = << >>
      /\ mRemoteStringTable = [e \in Index |-> NoString] /\ doubtful = {}
  BY DEF Init, ChanInit
<1>2. InitSeq \in [Side -> Nat] /\ Sender \in Side /\ EntryCount \in Nat \ {0}
  BY InitSeqAssumption, StringConstants DEF Side, Sender
<1>3. << >> \in Seq(Note) /\ Len(<< >>) = 0
  OBVIOUS
<1>4. TypeOK
  <2>1. lru \in [1 .. EntryCount -> Index]
    BY <1>1, <1>2 DEF Index
  <2>2. mEntryTable \in [Index -> Entry]
    BY <1>1 DEF Entry
  <2>3. mRemoteStringTable \in [Index -> Text]
    BY <1>1 DEF Text
  <2>. QED
    BY <1>1, <1>2, <1>3, <2>1, <2>2, <2>3 DEF TypeOK
<1>5. ChannelOK
  <2>1. sent[Sender] \in Nat /\ notified[Sender] = sent[Sender] /\ arrived[Sender] = {}
    BY <1>1, <1>2
  <2>. QED
    <3>1. /\ notified[Sender] <= sent[Sender] /\ sent[Sender] - notified[Sender] = 0
          /\ 0 <= Window
      BY <2>1, WindowAssumption
    <3>2. Len(notes) = 0
      BY <1>1, <1>3
    <3>. QED
      BY <2>1, <3>1, <3>2 DEF ChannelOK
<1>6. NotesOK
  BY <1>1, <1>3 DEF NotesOK
<1>7. AllEntries(lru)
  <2>1. ASSUME NEW e \in Index PROVE \E i \in 1 .. EntryCount : lru[i] = e
    <3>1. e + 1 \in 1 .. EntryCount /\ lru[e + 1] = e
      BY <1>1, <1>2 DEF Index
    <3>. QED
      BY <3>1
  <2>2. \A i, j \in 1 .. EntryCount : lru[i] = lru[j] => i = j
    BY <1>1, <1>2
  <2>. QED
    BY <2>1, <2>2 DEF AllEntries
<1>8. DOMAIN Uses(InFlight) = {}
  <2>1. InWindow(Uses(InFlight), notified[Sender], sent[Sender])
    BY <1>4, <1>5, PlacesInFlight
  <2>2. notified[Sender] + 1 .. sent[Sender] = {}
    BY <1>1, <1>2
  <2>. QED
    BY <2>1, <2>2 DEF InWindow
<1>9. HistoryOK(Uses(InFlight), mEntryTable, lru, arrived[Sender], mRemoteStringTable, doubtful)
  <2>. DEFINE h == Uses(InFlight)
  <2>. HIDE DEF h
  <2>1. \A p \in DOMAIN h : FALSE
    BY <1>8 DEF h
  <2>2. \A e \in Index : ~mEntryTable[e].receiveConfirmed
    BY <1>1
  <2>3. HistoryOK(h, mEntryTable, lru, arrived[Sender], mRemoteStringTable, doubtful)
    BY <2>1, <2>2 DEF HistoryOK, Apart, Replaced, InOrder, Remembered, Confirmed, Resolved
  <2>. QED
    BY <2>3 DEF h
<1>. QED
  BY <1>4, <1>5, <1>6, <1>7, <1>9 DEF IInv

LEMMA NextInv ==
  ASSUME FewInFlight, IInv, [Next]_vars PROVE IInv'
<1>1. CASE WritePacket
  BY <1>1, WritePacketKeeps
<1>2. CASE packetReceived \/ packetDropped
  BY <1>2, NotifyKeeps
<1>3. CASE ReadPacket
  BY <1>3, ReadPacketKeeps
<1>4. CASE UNCHANGED vars
  <2>1. UNCHANGED <<sent, notified, arrived, mEntryTable, lru, notes, mRemoteStringTable,
                    doubtful>>
    BY <1>4 DEF vars, chanVars
  <2>2. TypeOK'
    BY <2>1 DEF IInv, TypeOK
  <2>3. ChannelOK'
    BY <2>1 DEF IInv, ChannelOK, Sender
  <2>4. NotesOK'
    <3>. SUFFICES ASSUME NEW i \in 1 .. Len(notes')
                  PROVE  /\ Len(notes'[i].packet) <= MaxUnits
                         /\ RelativeOK(notes'[i].packet) /\ ListOK(notes'[i])
                         /\ DoubtOK(notes'[i].packet, doubtful')
      BY DEF NotesOK, RelativeOK, ListOK, BufferAt, SharesPrefix, DoubtOK, AllSent, Sure
    <3>. QED
      BY <2>1 DEF IInv, NotesOK
  <2>5. (Uses(InFlight))' = Uses(InFlight)
    BY <2>1 DEF Uses, InFlight, Unnotified, Sender
  <2>6. HistoryOK((Uses(InFlight))', mEntryTable', lru', arrived'[Sender], mRemoteStringTable',
                doubtful')
    BY <2>1, <2>5 DEF IInv
  <2>7. AllEntries(lru')
    BY <2>1 DEF IInv
  <2>. QED
    BY <2>2, <2>3, <2>4, <2>6, <2>7 DEF IInv
<1>. QED
  BY <1>1, <1>2, <1>3, <1>4 DEF Next

(* What is known in every state, where a packet is read as it was written  *)
(* and a confirmed entry is there.                                         *)
LEMMA InvImplies == IInv => ReadAsWritten /\ ConfirmedIsThere
<1>. SUFFICES ASSUME IInv PROVE ReadAsWritten /\ ConfirmedIsThere
  OBVIOUS
<1>1. ReadAsWritten
  <2>. SUFFICES ASSUME NEW n \in Unnotified(Sender), Readable(Receiver, n),
                       NEW k \in DOMAIN notes[n - notified[Sender]].packet,
                       Sure(doubtful, notes[n - notified[Sender]].packet[k].index,
                            notes[n - notified[Sender]].packet[k].string)
       PROVE Reading(n)[k].table[notes[n - notified[Sender]].packet[k].index]
               = notes[n - notified[Sender]].packet[k].string
    BY DEF ReadAsWritten
  <2>. DEFINE packet == notes[n - notified[Sender]].packet
              r == Reading(n)[k]
  <2>1. packet \in Seq(Unit) /\ \A i \in 0 .. Len(packet) :
          ReadTo(Reading(n)[i], packet, i, mRemoteStringTable, doubtful)
    BY ReadableIsRead
  <2>. HIDE DEF packet
  <2>2. k \in 1 .. Len(packet) /\ k \in 0 .. Len(packet) /\ k \in Int
    BY <2>1 DEF packet
  <2>3. packet[k].index \in Index
    <3>1. packet[k] \in Unit
      BY <2>1, <2>2, ElementOfSeq
    <3>. QED
      BY <3>1 DEF Unit
  <2>4. ReadTo(r, packet, k, mRemoteStringTable, doubtful)
    BY <2>1, <2>2
  <2>. HIDE DEF r
  <2>5. PICK i \in 1 .. k :
               /\ packet[i].index = packet[k].index
               /\ Sure(doubtful, packet[k].index, packet[i].string) =>
                    r.table[packet[k].index] = packet[i].string
               /\ \A j \in i + 1 .. k : packet[j].index # packet[k].index
    BY <2>2, <2>3, <2>4 DEF ReadTo
  <2>6. i = k
    BY <2>2, <2>5
  <2>7. Sure(doubtful, packet[k].index, packet[k].string)
    BY DEF packet
  <2>. QED
    BY <2>5, <2>6, <2>7 DEF packet, r
<1>2. ConfirmedIsThere
  BY DEF IInv, HistoryOK, Confirmed, ConfirmedIsThere
<1>. QED
  BY <1>1, <1>2

(* The inductive invariant, as long as few strings are in flight, however  *)
(* many a packet may carry.                                                *)
THEOREM Invariant == Spec /\ []FewInFlight => []IInv
<1>1. Init => IInv
  BY InitInv
<1>2. FewInFlight /\ IInv /\ [Next]_vars => IInv'
  BY NextInv
<1>. QED
  BY <1>1, <1>2, PTL DEF Spec

(* As long as few strings are in flight, a string is read as it was        *)
(* written, whichever packets were lost before it: writeStringTableEntry   *)
(* sends an index only when readStringTableEntry will find the string      *)
(* under it, and a text only after the beginning that the reader has.      *)
(* receiveConfirmed, "does the other side now have this string?", is true  *)
(* of no entry whose string the receiver does not have.  A unit that is    *)
(* taken back (eventConnection.cpp:320) can harm the entries whose texts   *)
(* its packet has from there on, as long as they keep them, and no others. *)
THEOREM StringsAreThere == Spec /\ []FewInFlight => [](ReadAsWritten /\ ConfirmedIsThere)
BY Invariant, InvImplies, PTL

\* Windows that have no room for more.
FewStrings == Window * MaxUnits <= 2 * EntryCount

(* The inductive invariant, for every window that has no room for more     *)
(* strings than twice the entries of the table.                            *)
THEOREM InvariantOfSmallWindows == ASSUME FewStrings PROVE Spec => []IInv
<1>1. Init => IInv
  BY InitInv
<1>2. IInv => FewInFlight
  <2>. SUFFICES ASSUME IInv PROVE FewInFlight
    OBVIOUS
  <2>. DEFINE n == Cardinality(DOMAIN Uses(InFlight))
              w == Window * MaxUnits
  <2>1. IsFiniteSet(DOMAIN Uses(InFlight)) /\ n <= w
    BY FiniteInFlight DEF IInv
  <2>2. n \in Nat
    BY <2>1, FS_CardinalityType
  <2>3. w \in Int /\ w <= 2 * EntryCount /\ EntryCount \in Nat
    BY StringConstants, WindowAssumption DEF FewStrings
  <2>. HIDE DEF n, w
  <2>4. n <= 2 * EntryCount
    BY <2>1, <2>2, <2>3
  <2>. QED
    BY <2>4 DEF FewInFlight, n
<1>3. IInv /\ [Next]_vars => IInv'
  BY <1>2, NextInv
<1>. QED
  BY <1>1, <1>3, PTL DEF Spec

(* So strings are read as they were written, but for the entries whose     *)
(* texts were taken back or followed one that was in its packet.           *)
THEOREM StringsAreRead == ASSUME FewStrings PROVE Spec => []ReadAsWritten
BY InvariantOfSmallWindows, InvImplies, PTL

(* And confirmed entries are there, but for those.                         *)
THEOREM ConfirmedStringsAreThere == ASSUME FewStrings PROVE Spec => []ConfirmedIsThere
BY InvariantOfSmallWindows, InvImplies, PTL
===============================================================================
