------------------------ MODULE ConnectionTable_proofs ------------------------
(***************************************************************************)
(* Proofs for ConnectionTable, for all connections, addresses, hashes and  *)
(* first sizes of the table.                                               *)
(***************************************************************************)
EXTENDS ConnectionTable, FiniteSetTheorems, SequenceTheorems, WellFoundedInduction, TLAPS

-----------------------------------------------------------------------------
(* Induction over the natural numbers, with sets, and recursion.           *)

(* A set of natural numbers has a least one.                               *)
LEMMA LeastNat == ASSUME NEW T, T \subseteq Nat, T # {}
  PROVE \E x \in T : \A y \in T : x <= y
<1>. DEFINE R == OpToRel(<, Nat)
<1>1. IsWellFoundedOn(R, Nat)
  BY NatLessThanWellFounded
<1>2. \A x, y \in Nat : <<x, y>> \in R <=> x < y
  BY DEF OpToRel
<1>. HIDE DEF R
<1>3. PICK x \in T : \A y \in T : ~(<<y, x>> \in R)
  BY <1>1, WFMin
<1>4. ASSUME NEW y \in T PROVE x <= y
  <2>1. x \in Nat /\ y \in Nat
    OBVIOUS
  <2>2. ~(y < x)
    BY <1>2, <1>3, <2>1
  <2>. QED
    BY <2>1, <2>2
<1>. QED
  BY <1>4

(* Induction over the natural numbers.                                     *)
LEMMA NatSetInduction ==
  ASSUME NEW T, 0 \in T, \A n \in Nat : n \in T => n + 1 \in T
  PROVE  Nat \subseteq T
<1>1. SUFFICES ASSUME Nat \ T # {} PROVE FALSE
  OBVIOUS
<1>2. PICK x \in Nat \ T : \A y \in Nat \ T : x <= y
  BY <1>1, LeastNat
<1>3. x # 0 /\ x - 1 \in Nat /\ x - 1 \notin Nat \ T
  BY <1>2
<1>. QED
  BY <1>2, <1>3

\* f takes n steps in S from a, the kth of them with g[k].
Steps(f, n, S, a, g) ==
  f \in [0..n -> S] /\ f[0] = a /\ \A k \in 1..n : f[k] = g[k][f[k-1]]

(* There is a function that takes the steps: the recursive definitions f[k *)
(* \in 0 .. n] == ... here choose one.                                     *)
LEMMA RecursionExists ==
  ASSUME NEW n \in Nat, NEW S, NEW a \in S, NEW g \in [1..n -> [S -> S]]
  PROVE  \E f : Steps(f, n, S, a, g)
<1>. DEFINE T == {m \in Nat : m <= n =>
                   \E f \in [0..m -> S] : f[0] = a /\ \A k \in 1..m : f[k] = g[k][f[k-1]]}
<1>1. 0 \in T
  <2>. DEFINE f == [j \in 0..0 |-> a]
  <2>1. f \in [0..0 -> S] /\ f[0] = a
    OBVIOUS
  <2>. HIDE DEF f
  <2>2. \A k \in 1..0 : f[k] = g[k][f[k-1]]
    OBVIOUS
  <2>. QED
    BY <2>1, <2>2
<1>2. ASSUME NEW m \in Nat, m \in T PROVE m + 1 \in T
  <2>. SUFFICES ASSUME m + 1 <= n
         PROVE \E f \in [0..m+1 -> S] : f[0] = a /\ \A k \in 1..m+1 : f[k] = g[k][f[k-1]]
    OBVIOUS
  <2>1. PICK f \in [0..m -> S] : f[0] = a /\ \A k \in 1..m : f[k] = g[k][f[k-1]]
    BY <1>2
  <2>. DEFINE h == [j \in 0..m+1 |-> IF j = m + 1 THEN g[m + 1][f[m]] ELSE f[j]]
  <2>2. h \in [0..m+1 -> S]
    BY <2>1
  <2>3. h[0] = a
    BY <2>1
  <2>4. ASSUME NEW k \in 1..m+1 PROVE h[k] = g[k][h[k-1]]
    BY <2>1
  <2>. HIDE DEF h
  <2>. QED
    BY <2>2, <2>3, <2>4
<1>. HIDE DEF T
<1>3. n \in T
  BY <1>1, <1>2, NatSetInduction
<1>4. n <= n
  OBVIOUS
<1>. QED
  BY <1>3, <1>4 DEF T, Steps

-----------------------------------------------------------------------------
(* Tables.                                                                 *)

\* The tables with n slots.
Table(n) == [0 .. n - 1 -> Connection \union {NULL}]

\* The slot of the hash of a connection, in a table with n slots.
Home(n, conn) == Hash[address[conn]] % n

\* How far a slot s is from a slot h, going up and round, and the slot that
\* is k from h.
Dist(n, h, s) == IF s >= h THEN s - h ELSE s - h + n
Up(n, h, k) == IF h + k < n THEN h + k ELSE h + k - n

\* The way from h to s passes the slot x, or ends there.
OnWay(n, h, x, s) == Dist(n, h, x) <= Dist(n, h, s)

\* No slot on the way from its home to the slot of a connection is free.
Chained(t, n) ==
  \A s, x \in 0 .. n - 1 :
    t[s] # NULL /\ OnWay(n, Home(n, t[s]), x, s) => t[x] # NULL

\* The table has each connection of the set S once, and nothing else.
Holds(t, n, S) ==
  /\ \A s \in 0 .. n - 1 : t[s] # NULL => t[s] \in S
  /\ \A conn \in S : \E s \in 0 .. n - 1 : t[s] = conn
  /\ \A s, x \in 0 .. n - 1 : t[s] # NULL /\ t[s] = t[x] => s = x

TableOK(t, n, S) == t \in Table(n) /\ Holds(t, n, S) /\ Chained(t, n)

TypeOK ==
  /\ address \in [Connection -> Address]
  /\ mConnectionList \in Seq(Connection) /\ memory \in Seq(Connection)
  /\ i \in Nat /\ timedOut \in Connection \union {NULL}

\* The connection whose end the application is told of is where the loop will
\* look for it, in the vector or just behind it.
LoopInv ==
  timedOut # NULL =>
    /\ timedOut \in Connected
    /\ i \in 1 .. Len(mConnectionList) + Len(memory)
    /\ Again = timedOut

\* The table is at most half full, so that it has a free slot, and every
\* connection is found from the slot of its hash.
TableInv ==
  /\ IsInjective(mConnectionList)
  /\ \E n \in Nat : /\ n > 2 /\ 2 * Len(mConnectionList) <= n
                    /\ TableOK(mConnectionHashTable, n, Connected)

(* The inductive invariant.                                                *)
IInv == TypeOK /\ TableInv /\ LoopInv

-----------------------------------------------------------------------------
(* Arithmetic of the slots.                                                *)

(* A number has one remainder.                                             *)
LEMMA ModUnique ==
  ASSUME NEW n \in Nat, n > 0, NEW q \in Int, NEW r \in 0 .. n - 1
  PROVE  (q * n + r) % n = r
BY Z3

(* Adding less than the divisor passes it at most once.                    *)
LEMMA ModAdd ==
  ASSUME NEW n \in Nat, n > 0, NEW h \in Nat, NEW k \in 0 .. n - 1
  PROVE  /\ h % n \in 0 .. n - 1
         /\ (h + k) % n = Up(n, h % n, k)
<1>. DEFINE q == h \div n
            r == h % n
<1>1. q \in Int /\ r \in 0 .. n - 1 /\ h = q * n + r
  BY Z3
<1>. HIDE DEF q, r
<1>2. CASE r + k < n
  <2>1. (q * n + (r + k)) % n = r + k
    BY <1>1, <1>2, ModUnique
  <2>2. h + k = q * n + (r + k)
    BY <1>1, Z3
  <2>. QED
    BY <1>1, <1>2, <2>1, <2>2 DEF Up, r
<1>3. CASE r + k >= n
  <2>. DEFINE r1 == r + k - n
  <2>a. r1 \in 0 .. n - 1 /\ q + 1 \in Int
    BY <1>1, <1>3
  <2>. HIDE DEF r1
  <2>b. ((q + 1) * n + r1) % n = r1
    BY <2>a, ModUnique
  <2>1. ((q + 1) * n + (r + k - n)) % n = r + k - n
    BY <2>b DEF r1
  <2>2. h + k = (q + 1) * n + (r + k - n)
    BY <1>1, Z3
  <2>. QED
    BY <1>1, <1>3, <2>1, <2>2 DEF Up, r
<1>. QED
  BY <1>1, <1>2, <1>3

(* Up and Dist are inverse to each other.                                  *)
LEMMA UpDist ==
  ASSUME NEW n \in Nat, n > 0, NEW h \in 0 .. n - 1
  PROVE  /\ \A k \in 0 .. n - 1 : Up(n, h, k) \in 0 .. n - 1 /\ Dist(n, h, Up(n, h, k)) = k
         /\ \A s \in 0 .. n - 1 : Dist(n, h, s) \in 0 .. n - 1 /\ Up(n, h, Dist(n, h, s)) = s
BY DEF Up, Dist

(* A set of numbers has a least one, which is its Min.                     *)
LEMMA MinIsLeast ==
  ASSUME NEW T, T \subseteq Nat, T # {}
  PROVE  Min(T) \in T /\ \A x \in T : Min(T) <= x
BY LeastNat DEF Min

(* The number of slots.                                                    *)
LEMMA SizeOfTable ==
  ASSUME NEW n \in Nat, NEW t, t \in Table(n)
  PROVE  TableSize(t) = n /\ DOMAIN t = 0 .. n - 1
BY FS_Interval, n > 0 \/ n = 0 DEF TableSize, Table

(* The slots of a hash, from its home on.                                  *)
LEMMA SlotIs ==
  ASSUME NEW n \in Nat, n > 0, NEW t, t \in Table(n), NEW h \in Nat, NEW k \in 0 .. n - 1
  PROVE  Slot(t, h, k) = Up(n, h % n, k) /\ h % n \in 0 .. n - 1
<1>1. TableSize(t) = n
  BY SizeOfTable
<1>2. Slot(t, h, k) = (h + k) % n
  BY <1>1 DEF Slot
<1>3. h % n \in 0 .. n - 1 /\ (h + k) % n = Up(n, h % n, k)
  BY ModAdd
<1>. QED
  BY <1>2, <1>3

(* The home of a connection.                                               *)
LEMMA HomeIs ==
  ASSUME address \in [Connection -> Address], NEW conn \in Connection, NEW n \in Nat, n > 0
  PROVE  /\ Hash[address[conn]] \in Nat
         /\ Home(n, conn) = Hash[address[conn]] % n
         /\ Home(n, conn) \in 0 .. n - 1
BY HashAssumption, ModAdd, 0 \in 0 .. n - 1 DEF Home

-----------------------------------------------------------------------------
(* One connection is put in.                                               *)

(* Put takes the first free slot from the home of the connection.          *)
LEMMA PutRight ==
  ASSUME address \in [Connection -> Address], NEW n \in Nat, n > 0, NEW t, t \in Table(n),
         NEW conn \in Connection, \E s \in 0 .. n - 1 : t[s] = NULL
  PROVE  \E s \in 0 .. n - 1 :
           /\ t[s] = NULL
           /\ Put(t, conn) = [t EXCEPT ![s] = conn]
           /\ \A x \in 0 .. n - 1 :
                Dist(n, Home(n, conn), x) < Dist(n, Home(n, conn), s) => t[x] # NULL
<1>. DEFINE hash == Hash[address[conn]]
            h == Home(n, conn)
            F == Free(t, hash)
            s == Slot(t, hash, Min(F))
<1>1. h = hash % n /\ hash \in Nat /\ h \in 0 .. n - 1
  BY HomeIs
<1>2. TableSize(t) = n
  BY SizeOfTable
<1>. HIDE DEF hash, h
<1>3. \A k \in 0 .. n - 1 : Slot(t, hash, k) = Up(n, h, k)
  BY <1>1, SlotIs
<1>4. \A k \in 0 .. n - 1 : k \in F <=> t[Up(n, h, k)] = NULL
  BY <1>2, <1>3 DEF Free
<1>5. F \subseteq 0 .. n - 1
  BY <1>2 DEF Free
<1>6. F # {}
  <2>1. PICK x \in 0 .. n - 1 : t[x] = NULL
    OBVIOUS
  <2>2. Dist(n, h, x) \in 0 .. n - 1 /\ Up(n, h, Dist(n, h, x)) = x
    BY <1>1, UpDist
  <2>. QED
    BY <1>4, <2>1, <2>2
<1>. HIDE DEF F
<1>7. Min(F) \in F /\ \A x \in F : Min(F) <= x
  <2>1. F \subseteq Nat
    BY <1>5
  <2>. QED
    BY <1>6, <2>1, MinIsLeast
<1>8. s = Up(n, h, Min(F)) /\ Min(F) \in 0 .. n - 1
  BY <1>3, <1>5, <1>7
<1>9. s \in 0 .. n - 1 /\ Dist(n, h, s) = Min(F)
  BY <1>1, <1>8, UpDist
<1>10. t[s] = NULL
  BY <1>4, <1>7, <1>8
<1>11. Put(t, conn) = [t EXCEPT ![s] = conn]
  BY DEF Put, hash, F
<1>12. ASSUME NEW x \in 0 .. n - 1, Dist(n, h, x) < Dist(n, h, s) PROVE t[x] # NULL
  <2>1. Dist(n, h, x) \in 0 .. n - 1 /\ Up(n, h, Dist(n, h, x)) = x
    BY <1>1, UpDist
  <2>2. ~(Min(F) <= Dist(n, h, x))
    BY <1>8, <1>9, <1>12, <2>1
  <2>. QED
    BY <1>4, <1>7, <2>1, <2>2
<1>. HIDE DEF s
<1>. QED
  BY <1>9, <1>10, <1>11, <1>12 DEF h

(* Put gives a table in any case.                                          *)
LEMMA PutType ==
  ASSUME NEW n \in Nat, NEW t, t \in Table(n), NEW conn \in Connection
  PROVE  Put(t, conn) \in Table(n)
BY DEF Put, Table

(* Putting in a connection that is not there.                              *)
LEMMA PutOK ==
  ASSUME address \in [Connection -> Address], NEW n \in Nat, n > 0, NEW t,
         NEW S \in SUBSET Connection, TableOK(t, n, S),
         NEW conn \in Connection \ S, \E s \in 0 .. n - 1 : t[s] = NULL
  PROVE  TableOK(Put(t, conn), n, S \union {conn})
<1>. DEFINE u == Put(t, conn)
<1>1. t \in Table(n) /\ Holds(t, n, S) /\ Chained(t, n)
  BY DEF TableOK
<1>2. PICK s \in 0 .. n - 1 :
        /\ t[s] = NULL
        /\ u = [t EXCEPT ![s] = conn]
        /\ \A x \in 0 .. n - 1 :
             Dist(n, Home(n, conn), x) < Dist(n, Home(n, conn), s) => t[x] # NULL
  BY <1>1, PutRight
<1>3. u \in Table(n)
  BY <1>1, PutType
<1>4. \A x \in 0 .. n - 1 : u[x] = IF x = s THEN conn ELSE t[x]
  BY <1>1, <1>2 DEF Table
<1>. HIDE DEF u
<1>5. conn # NULL /\ NULL \notin S
  BY NULLAssumption
<1>6. Holds(u, n, S \union {conn})
  <2>1. ASSUME NEW x \in 0 .. n - 1, u[x] # NULL PROVE u[x] \in S \union {conn}
    BY <1>1, <1>4, <2>1 DEF Holds
  <2>2. ASSUME NEW c \in S \union {conn} PROVE \E x \in 0 .. n - 1 : u[x] = c
    <3>1. CASE c = conn
      BY <1>4, <3>1
    <3>2. CASE c \in S
      <4>1. PICK x \in 0 .. n - 1 : t[x] = c
        BY <1>1, <3>2 DEF Holds
      <4>2. x # s
        BY <1>2, <1>5, <3>2, <4>1
      <4>. QED
        BY <1>4, <4>1, <4>2
    <3>. QED
      BY <3>1, <3>2
  <2>3. ASSUME NEW x \in 0 .. n - 1, NEW y \in 0 .. n - 1, u[x] # NULL, u[x] = u[y]
        PROVE  x = y
    <3>1. \A z \in 0 .. n - 1 : t[z] # conn
      BY <1>1, <1>5 DEF Holds
    <3>2. CASE x = s \/ y = s
      BY <1>4, <2>3, <3>1, <3>2
    <3>3. CASE x # s /\ y # s
      BY <1>1, <1>4, <2>3, <3>3 DEF Holds
    <3>. QED
      BY <3>2, <3>3
  <2>. QED
    BY <2>1, <2>2, <2>3 DEF Holds
<1>7. Chained(u, n)
  <2>. SUFFICES ASSUME NEW y \in 0 .. n - 1, NEW x \in 0 .. n - 1, u[y] # NULL,
                       OnWay(n, Home(n, u[y]), x, y)
                PROVE  u[x] # NULL
    BY DEF Chained
  <2>1. CASE y = s
    <3>1. u[y] = conn
      BY <1>4, <2>1
    <3>2. Home(n, conn) \in 0 .. n - 1
      BY HomeIs
    <3>3. x = s \/ Dist(n, Home(n, conn), x) < Dist(n, Home(n, conn), s)
      <4>. DEFINE h == Home(n, conn)
      <4>1. OnWay(n, h, x, s)
        BY <2>1, <3>1
      <4>. HIDE DEF h
      <4>. QED
        BY <3>2, <4>1 DEF OnWay, Dist, h
    <3>. QED
      BY <1>2, <1>4, <1>5, <3>3
  <2>2. CASE y # s
    <3>1. t[y] # NULL /\ u[y] = t[y]
      BY <1>4, <2>2
    <3>2. t[x] # NULL
      BY <1>1, <3>1 DEF Chained
    <3>. QED
      BY <1>4, <1>5, <3>2
  <2>. QED
    BY <2>1, <2>2
<1>. QED
  BY <1>3, <1>6, <1>7 DEF TableOK, u

(* A table with fewer connections than slots has a free slot.              *)
LEMMA HasFree ==
  ASSUME NEW n \in Nat, NEW k \in Nat, k < n, NEW list, NEW t,
         Holds(t, n, {list[j] : j \in 1 .. k})
  PROVE  \E s \in 0 .. n - 1 : t[s] = NULL
<1>. SUFFICES ASSUME \A s \in 0 .. n - 1 : t[s] # NULL PROVE FALSE
  OBVIOUS
<1>. DEFINE f == [s \in 0 .. n - 1 |-> CHOOSE j \in 1 .. k : list[j] = t[s]]
<1>1. \A s \in 0 .. n - 1 : f[s] \in 1 .. k /\ list[f[s]] = t[s]
  <2>. SUFFICES ASSUME NEW s \in 0 .. n - 1 PROVE f[s] \in 1 .. k /\ list[f[s]] = t[s]
    OBVIOUS
  <2>1. PICK j \in 1 .. k : list[j] = t[s]
    BY DEF Holds
  <2>. QED
    BY <2>1
<1>2. f \in [0 .. n - 1 -> 1 .. k]
  BY <1>1
<1>. HIDE DEF f
<1>3. /\ IsFiniteSet(0 .. n - 1) /\ IsFiniteSet(1 .. k)
      /\ Cardinality(1 .. k) < Cardinality(0 .. n - 1)
  <2>1. Cardinality(0 .. n - 1) = n
    <3>1. 0 \in Int /\ n - 1 \in Int
      OBVIOUS
    <3>2. Cardinality(0 .. n - 1) = IF 0 > n - 1 THEN 0 ELSE (n - 1) - 0 + 1
      BY <3>1, FS_Interval
    <3>. QED
      BY <3>2
  <2>2. Cardinality(1 .. k) = k
    <3>1. 1 \in Int /\ k \in Int
      OBVIOUS
    <3>2. Cardinality(1 .. k) = IF 1 > k THEN 0 ELSE k - 1 + 1
      BY <3>1, FS_Interval
    <3>. QED
      BY <3>2
  <2>. QED
    BY <2>1, <2>2, FS_Interval
<1>4. PICK x \in 0 .. n - 1, y \in 0 .. n - 1 : x # y /\ f[x] = f[y]
  BY <1>2, <1>3, FS_PigeonHole
<1>. QED
  BY <1>1, <1>4 DEF Holds

(* The same for the connections of a list.                                 *)
LEMMA HasFreeForList ==
  ASSUME NEW n \in Nat, NEW list \in Seq(Connection), Len(list) < n, NEW t,
         Holds(t, n, Range(list))
  PROVE  \E s \in 0 .. n - 1 : t[s] = NULL
<1>1. Len(list) \in Nat /\ Range(list) = {list[j] : j \in 1 .. Len(list)}
  BY LenProperties DEF Range
<1>2. Holds(t, n, {list[j] : j \in 1 .. Len(list)})
  BY <1>1
<1>. QED
  BY <1>1, <1>2, HasFree

-----------------------------------------------------------------------------
(* The table is filled.                                                    *)

(* Filled puts in the connections of the list one by one.                  *)
LEMMA FilledFn ==
  ASSUME NEW n \in Nat, NEW t, t \in Table(n), NEW list \in Seq(Connection)
  PROVE  \E f : /\ Filled(t, list) = f[Len(list)]
                /\ f[0] = t
                /\ \A k \in 1 .. Len(list) : f[k] = Put(f[k - 1], list[k])
<1>. DEFINE m == Len(list)
            g == [k \in 1 .. m |-> [u \in Table(n) |-> Put(u, list[k])]]
            IsF(h) == h = [k \in 0 .. m |-> IF k = 0 THEN t ELSE Put(h[k - 1], list[k])]
            f == CHOOSE h : IsF(h)
<1>1. m \in Nat /\ \A k \in 1 .. m : list[k] \in Connection
  BY LenProperties, ElementOfSeq
<1>2. g \in [1 .. m -> [Table(n) -> Table(n)]]
  BY <1>1, PutType
<1>3. PICK h : h \in [0 .. m -> Table(n)] /\ h[0] = t /\ \A k \in 1 .. m : h[k] = g[k][h[k - 1]]
  <2>. HIDE DEF m, g
  <2>1. PICK h : Steps(h, m, Table(n), t, g)
    BY <1>1, <1>2, RecursionExists
  <2>. QED
    BY <2>1 DEF Steps
<1>4. \A k \in 1 .. m : h[k] = Put(h[k - 1], list[k])
  <2>. SUFFICES ASSUME NEW k \in 1 .. m PROVE h[k] = Put(h[k - 1], list[k])
    OBVIOUS
  <2>1. k - 1 \in 0 .. m
    BY <1>1
  <2>2. h[k - 1] \in Table(n)
    BY <1>3, <2>1
  <2>3. g[k] = [u \in Table(n) |-> Put(u, list[k])]
    OBVIOUS
  <2>4. h[k] = g[k][h[k - 1]]
    BY <1>3
  <2>. QED
    BY <2>2, <2>3, <2>4
<1>5. IsF(h)
  <2>. DEFINE R(k) == IF k = 0 THEN t ELSE Put(h[k - 1], list[k])
  <2>1. \A k \in 0 .. m : h[k] = R(k)
    <3>. SUFFICES ASSUME NEW k \in 0 .. m PROVE h[k] = R(k)
      OBVIOUS
    <3>1. CASE k = 0
      BY <1>3, <3>1
    <3>2. CASE k \in 1 .. m
      BY <1>4, <3>2
    <3>. QED
      BY <1>1, <3>1, <3>2
  <2>. HIDE DEF R
  <2>2. h = [k \in 0 .. m |-> R(k)]
    BY <1>3, <2>1
  <2>. QED
    BY <2>2 DEF R
<1>6. Filled(t, list) = f[Len(list)]
  BY DEF Filled
<1>7. IsF(f)
  <2>. HIDE DEF IsF
  <2>. QED
    BY <1>5
<1>8. f[0] = t /\ \A k \in 1 .. m : f[k] = Put(f[k - 1], list[k])
  <2>. DEFINE R(k) == IF k = 0 THEN t ELSE Put(f[k - 1], list[k])
  <2>. HIDE DEF f
  <2>1. f = [k \in 0 .. m |-> R(k)]
    BY <1>7
  <2>. HIDE DEF R
  <2>2. \A k \in 0 .. m : f[k] = R(k)
    BY <2>1
  <2>3. 0 \in 0 .. m /\ \A k \in 1 .. m : k \in 0 .. m /\ k # 0
    BY <1>1
  <2>. QED
    BY <2>2, <2>3 DEF R
<1>. QED
  BY <1>6, <1>8

(* A table that is filled with different connections, fewer than it has    *)
(* slots, has them all.                                                    *)
LEMMA FilledOK ==
  ASSUME address \in [Connection -> Address], NEW list \in Seq(Connection), IsInjective(list),
         NEW n \in Nat, n > 0, Len(list) < n
  PROVE  TableOK(Filled(Empty(n), list), n, Range(list))
<1>. DEFINE m == Len(list)
            S(k) == {list[j] : j \in 1 .. k}
<1>1. m \in Nat /\ (\A k \in 1 .. m : list[k] \in Connection) /\ DOMAIN list = 1 .. m
  BY LenProperties, ElementOfSeq
<1>2. Empty(n) \in Table(n)
  BY DEF Empty, Table
<1>3. PICK f : /\ Filled(Empty(n), list) = f[m]
               /\ f[0] = Empty(n)
               /\ \A k \in 1 .. m : f[k] = Put(f[k - 1], list[k])
  BY <1>2, FilledFn
<1>. DEFINE T == {k \in Nat : k <= m => TableOK(f[k], n, S(k))}
<1>4. 0 \in T
  <2>1. S(0) = {}
    OBVIOUS
  <2>2. \A s \in 0 .. n - 1 : f[0][s] = NULL
    BY <1>3 DEF Empty
  <2>. QED
    BY <1>2, <1>3, <2>1, <2>2 DEF TableOK, Holds, Chained
<1>5. ASSUME NEW k \in Nat, k \in T PROVE k + 1 \in T
  <2>. SUFFICES ASSUME k + 1 <= m PROVE TableOK(f[k + 1], n, S(k + 1))
    OBVIOUS
  <2>1. k + 1 \in 1 .. m /\ k < n /\ k <= m
    BY <1>1
  <2>2. f[k + 1] = Put(f[k], list[k + 1])
    <3>1. (k + 1) - 1 = k
      OBVIOUS
    <3>. QED
      BY <1>3, <2>1, <3>1
  <2>3. TableOK(f[k], n, S(k))
    BY <1>5, <2>1
  <2>4. S(k) \in SUBSET Connection
    BY <1>1, <2>1
  <2>5. list[k + 1] \in Connection \ S(k)
    BY <1>1, <2>1 DEF IsInjective
  <2>6. \E s \in 0 .. n - 1 : f[k][s] = NULL
    <3>1. Holds(f[k], n, {list[j] : j \in 1 .. k})
      BY <2>3 DEF TableOK
    <3>. QED
      BY <2>1, <3>1, HasFree
  <2>7. S(k + 1) = S(k) \union {list[k + 1]}
    BY <2>1
  <2>. HIDE DEF S, T
  <2>8. TableOK(Put(f[k], list[k + 1]), n, S(k) \union {list[k + 1]})
    BY <2>3, <2>4, <2>5, <2>6, PutOK
  <2>. QED
    BY <2>2, <2>7, <2>8
<1>. HIDE DEF T
<1>6. m \in T
  BY <1>1, <1>4, <1>5, NatSetInduction
<1>7. S(m) = Range(list)
  BY <1>1 DEF Range
<1>8. TableOK(f[m], n, S(m))
  BY <1>1, <1>6 DEF T
<1>. QED
  BY <1>3, <1>7, <1>8

-----------------------------------------------------------------------------
(* A connection is removed.                                                *)

(* PutAgain gives a table in any case.                                     *)
LEMMA PutAgainType ==
  ASSUME NEW n \in Nat, NEW t, t \in Table(n), NEW s \in 0 .. n - 1
  PROVE  PutAgain(t, s) \in Table(n)
<1>1. CASE t[s] = NULL
  BY <1>1 DEF PutAgain
<1>2. CASE t[s] # NULL
  <2>1. t[s] \in Connection /\ [t EXCEPT ![s] = NULL] \in Table(n)
    BY <1>2 DEF Table
  <2>. QED
    BY <1>2, <2>1, PutType DEF PutAgain
<1>. QED
  BY <1>1, <1>2

(* AfterSlots goes from slot to slot.                                      *)
LEMMA AfterSlotsFn ==
  ASSUME NEW n \in Nat, n > 0, NEW t, t \in Table(n), NEW slot \in 0 .. n - 1
  PROVE  /\ AfterSlots(t, slot)[0] = t
         /\ \A k \in 1 .. n - 1 :
              AfterSlots(t, slot)[k] = PutAgain(AfterSlots(t, slot)[k - 1], Up(n, slot, k))
<1>. DEFINE g == [k \in 1 .. n |-> [u \in Table(n) |-> PutAgain(u, Slot(t, slot, k))]]
            IsF(h) == h = [k \in 0 .. n |->
                             IF k = 0 THEN t ELSE PutAgain(h[k - 1], Slot(t, slot, k))]
            f == CHOOSE h : IsF(h)
<1>1. TableSize(t) = n
  BY SizeOfTable
<1>2. \A k \in 1 .. n : Slot(t, slot, k) \in 0 .. n - 1
  <2>. SUFFICES ASSUME NEW k \in 1 .. n PROVE (slot + k) % n \in 0 .. n - 1
    BY <1>1 DEF Slot
  <2>1. slot + k \in Nat /\ 0 \in 0 .. n - 1
    OBVIOUS
  <2>. QED
    BY <2>1, ModAdd
<1>3. g \in [1 .. n -> [Table(n) -> Table(n)]]
  BY <1>2, PutAgainType
<1>4. PICK h : h \in [0 .. n -> Table(n)] /\ h[0] = t /\ \A k \in 1 .. n : h[k] = g[k][h[k - 1]]
  <2>. HIDE DEF g
  <2>1. PICK h : Steps(h, n, Table(n), t, g)
    BY <1>3, RecursionExists
  <2>. QED
    BY <2>1 DEF Steps
<1>5. \A k \in 1 .. n : h[k] = PutAgain(h[k - 1], Slot(t, slot, k))
  <2>. SUFFICES ASSUME NEW k \in 1 .. n PROVE h[k] = PutAgain(h[k - 1], Slot(t, slot, k))
    OBVIOUS
  <2>1. k - 1 \in 0 .. n
    OBVIOUS
  <2>2. h[k - 1] \in Table(n)
    BY <1>4, <2>1
  <2>3. g[k] = [u \in Table(n) |-> PutAgain(u, Slot(t, slot, k))]
    OBVIOUS
  <2>4. h[k] = g[k][h[k - 1]]
    BY <1>4
  <2>. QED
    BY <2>2, <2>3, <2>4
<1>6. IsF(h)
  <2>. DEFINE R(k) == IF k = 0 THEN t ELSE PutAgain(h[k - 1], Slot(t, slot, k))
  <2>1. \A k \in 0 .. n : h[k] = R(k)
    <3>. SUFFICES ASSUME NEW k \in 0 .. n PROVE h[k] = R(k)
      OBVIOUS
    <3>1. CASE k = 0
      BY <1>4, <3>1
    <3>2. CASE k \in 1 .. n
      BY <1>5, <3>2
    <3>. QED
      BY <3>1, <3>2
  <2>. HIDE DEF R
  <2>2. h = [k \in 0 .. n |-> R(k)]
    BY <1>4, <2>1
  <2>. QED
    BY <2>2 DEF R
<1>7. AfterSlots(t, slot) = f
  BY <1>1 DEF AfterSlots
<1>8. IsF(f)
  <2>. HIDE DEF IsF
  <2>. QED
    BY <1>6
<1>9. f[0] = t /\ \A k \in 1 .. n : f[k] = PutAgain(f[k - 1], Slot(t, slot, k))
  <2>. DEFINE R(k) == IF k = 0 THEN t ELSE PutAgain(f[k - 1], Slot(t, slot, k))
  <2>. HIDE DEF f
  <2>1. f = [k \in 0 .. n |-> R(k)]
    BY <1>8
  <2>. HIDE DEF R
  <2>2. \A k \in 0 .. n : f[k] = R(k)
    BY <2>1
  <2>3. 0 \in 0 .. n /\ \A k \in 1 .. n : k \in 0 .. n /\ k # 0
    OBVIOUS
  <2>. QED
    BY <2>2, <2>3 DEF R
<1>10. \A k \in 1 .. n - 1 : Slot(t, slot, k) = Up(n, slot, k) /\ k \in 1 .. n
  <2>. SUFFICES ASSUME NEW k \in 1 .. n - 1 PROVE Slot(t, slot, k) = Up(n, slot, k)
    OBVIOUS
  <2>1. slot \in Nat /\ slot % n = slot /\ k \in 0 .. n - 1
    BY SMT
  <2>. QED
    BY <2>1, SlotIs
<1>. HIDE DEF f
<1>. QED
  BY <1>7, <1>9, <1>10

\* What is left after k of the slots behind d: t was the table, S are the
\* connections it keeps.  Behind these slots nothing has changed, and a slot
\* that is free on the way to a connection is among them or d, and the
\* connection behind them.
Between(u, t, n, S, d, k) ==
  /\ u \in Table(n) /\ Holds(u, n, S)
  /\ \A x \in 0 .. n - 1 : Dist(n, d, x) > k => u[x] = t[x]
  /\ \A s, x \in 0 .. n - 1 :
       u[s] # NULL /\ OnWay(n, Home(n, u[s]), x, s) /\ u[x] = NULL =>
         Dist(n, d, s) > k /\ Dist(n, d, x) <= k

(* One slot more: its connection is put in again, and stays before the     *)
(* slots that are still to come.                                           *)
LEMMA BetweenStep ==
  ASSUME address \in [Connection -> Address], NEW n \in Nat, n > 0, NEW t, NEW u,
         NEW S \in SUBSET Connection, NEW d \in 0 .. n - 1, NEW k \in Nat, k + 1 < n,
         Between(u, t, n, S, d, k), t[Up(n, d, k + 1)] # NULL,
         NEW z \in 0 .. n - 1, t[z] = NULL, Dist(n, d, z) > k + 1
  PROVE  Between(PutAgain(u, Up(n, d, k + 1)), t, n, S, d, k + 1)
<1>. DEFINE next == Up(n, d, k + 1)
            c == u[next]
            u1 == [u EXCEPT ![next] = NULL]
            u2 == Put(u1, c)
            h == Home(n, c)
<1>1. next \in 0 .. n - 1 /\ Dist(n, d, next) = k + 1 /\ t[next] # NULL
  BY UpDist
<1>. HIDE DEF next
<1>2. u \in Table(n) /\ Holds(u, n, S)
  BY DEF Between
<1>3. c # NULL /\ u[z] = NULL
  <2>1. Dist(n, d, next) > k /\ Dist(n, d, z) > k
    BY <1>1 DEF Dist
  <2>. QED
    BY <1>1, <2>1 DEF Between
<1>4. c \in S /\ c \in Connection /\ NULL \notin S
  BY <1>1, <1>2, <1>3, NULLAssumption DEF Holds
<1>5. u1 \in Table(n) /\ \A x \in 0 .. n - 1 : u1[x] = IF x = next THEN NULL ELSE u[x]
  BY <1>1, <1>2 DEF Table
<1>6. PutAgain(u, next) = u2
  BY <1>3 DEF PutAgain
<1>. HIDE DEF u1
<1>7. PICK p \in 0 .. n - 1 :
        /\ u1[p] = NULL
        /\ u2 = [u1 EXCEPT ![p] = c]
        /\ \A x \in 0 .. n - 1 : Dist(n, h, x) < Dist(n, h, p) => u1[x] # NULL
  <2>1. \E x \in 0 .. n - 1 : u1[x] = NULL
    BY <1>1, <1>5
  <2>. HIDE DEF c
  <2>. QED
    BY <1>4, <1>5, <2>1, PutRight
<1>8. u2 \in Table(n) /\ \A x \in 0 .. n - 1 : u2[x] = IF x = p THEN c ELSE u1[x]
  <2>1. u2 \in Table(n)
    BY <1>4, <1>5, PutType
  <2>. QED
    BY <1>5, <1>7, <2>1 DEF Table
<1>. HIDE DEF u2, c
<1>9. h \in 0 .. n - 1
  BY <1>4, HomeIs
<1>. HIDE DEF h
<1>10. Dist(n, h, p) <= Dist(n, h, next)
  <2>1. u1[next] = NULL
    BY <1>1, <1>5
  <2>2. ~(Dist(n, h, next) < Dist(n, h, p))
    BY <1>1, <1>7, <2>1
  <2>. QED
    BY <1>1, <1>9, <2>2 DEF Dist
<1>11. p = next \/ Dist(n, d, p) <= k
  <2>. SUFFICES ASSUME p # next PROVE Dist(n, d, p) <= k
    OBVIOUS
  <2>1. u[p] = NULL
    BY <1>5, <1>7
  <2>2. OnWay(n, Home(n, u[next]), p, next)
    BY <1>10 DEF OnWay, h, c
  <2>. QED
    BY <1>1, <1>3, <2>1, <2>2 DEF Between, c
<1>12. Holds(u2, n, S)
  <2>1. ASSUME NEW x \in 0 .. n - 1, u2[x] # NULL PROVE u2[x] \in S
    BY <1>2, <1>4, <1>5, <1>8, <2>1 DEF Holds
  <2>2. ASSUME NEW e \in S PROVE \E x \in 0 .. n - 1 : u2[x] = e
    <3>1. CASE e = c
      BY <1>8, <3>1
    <3>2. CASE e # c
      <4>1. PICK x \in 0 .. n - 1 : u[x] = e
        BY <1>2, <2>2 DEF Holds
      <4>2. x # next
        BY <3>2, <4>1 DEF c
      <4>3. u1[x] = e
        BY <1>5, <4>1, <4>2
      <4>4. x # p
        BY <1>4, <1>7, <2>2, <4>3
      <4>. QED
        BY <1>8, <4>3, <4>4
    <3>. QED
      BY <3>1, <3>2
  <2>3. ASSUME NEW x \in 0 .. n - 1, NEW y \in 0 .. n - 1, u2[x] # NULL, u2[x] = u2[y]
        PROVE  x = y
    <3>1. \A w \in 0 .. n - 1 : u1[w] # c
      <4>. SUFFICES ASSUME NEW w \in 0 .. n - 1, u1[w] = c PROVE FALSE
        OBVIOUS
      <4>1. w # next /\ u[w] = c
        BY <1>3, <1>5
      <4>. QED
        BY <1>1, <1>2, <1>3, <4>1 DEF Holds, c
    <3>2. CASE x = p \/ y = p
      BY <1>8, <2>3, <3>1, <3>2
    <3>3. CASE x # p /\ y # p
      <4>1. u1[x] # NULL /\ u1[x] = u1[y]
        BY <1>8, <2>3, <3>3
      <4>2. u[x] # NULL /\ u[x] = u[y]
        BY <1>5, <4>1
      <4>. QED
        BY <1>2, <4>2 DEF Holds
    <3>. QED
      BY <3>2, <3>3
  <2>. QED
    BY <2>1, <2>2, <2>3 DEF Holds
<1>13. ASSUME NEW x \in 0 .. n - 1, Dist(n, d, x) > k + 1 PROVE u2[x] = t[x]
  <2>1. x # next /\ x # p
    BY <1>1, <1>11, <1>13 DEF Dist
  <2>2. Dist(n, d, x) > k
    BY <1>13 DEF Dist
  <2>. QED
    BY <1>5, <1>8, <2>1, <2>2 DEF Between
<1>14. ASSUME NEW s \in 0 .. n - 1, NEW x \in 0 .. n - 1, u2[s] # NULL,
              OnWay(n, Home(n, u2[s]), x, s), u2[x] = NULL
       PROVE  Dist(n, d, s) > k + 1 /\ Dist(n, d, x) <= k + 1
  <2>1. x # p
    BY <1>3, <1>8, <1>14
  <2>2. u1[x] = NULL
    BY <1>8, <1>14, <2>1
  <2>3. s # p
    <3>. SUFFICES ASSUME s = p PROVE FALSE
      OBVIOUS
    <3>1. OnWay(n, h, x, p)
      BY <1>8, <1>14 DEF h
    <3>2. Dist(n, h, x) < Dist(n, h, p)
      BY <1>9, <2>1, <3>1 DEF OnWay, Dist
    <3>. QED
      BY <1>7, <2>2, <3>2
  <2>4. s # next /\ u[s] = u2[s]
    BY <1>5, <1>8, <1>14, <2>3
  <2>5. \A y \in 0 .. n - 1 : OnWay(n, Home(n, u[s]), y, s) /\ u[y] = NULL =>
          Dist(n, d, s) > k /\ Dist(n, d, y) <= k
    BY <1>14, <2>4 DEF Between
  <2>6. Home(n, u[s]) \in 0 .. n - 1
    <3>1. u[s] \in Connection
      BY <1>2, <1>14, <2>4 DEF Holds
    <3>. QED
      BY <3>1, HomeIs
  <2>. DEFINE g == Home(n, u[s])
  <2>7. OnWay(n, g, x, s)
    BY <1>14, <2>4
  <2>8. CASE x = next
    <3>. SUFFICES ASSUME Dist(n, d, s) <= k + 1 PROVE FALSE
      BY <1>1, <2>8 DEF Dist
    <3>1. ~OnWay(n, g, z, s)
      <4>1. ~(Dist(n, d, z) <= k)
        BY DEF Dist
      <4>. QED
        BY <1>3, <2>5, <4>1
    <3>. HIDE DEF g
    <3>2. g \in 0 .. n - 1
      BY <2>6 DEF g
    <3>. QED
      BY <1>1, <2>4, <2>7, <2>8, <3>1, <3>2 DEF OnWay, Dist
  <2>9. CASE x # next
    <3>1. u[x] = NULL
      BY <1>5, <2>2, <2>9
    <3>2. Dist(n, d, s) > k /\ Dist(n, d, x) <= k
      BY <2>5, <2>7, <3>1
    <3>. QED
      BY <1>1, <2>4, <3>2 DEF Dist
  <2>. QED
    BY <2>8, <2>9
<1>15. Between(u2, t, n, S, d, k + 1)
  BY <1>8, <1>12, <1>13, <1>14 DEF Between
<1>. QED
  BY <1>6, <1>15 DEF next

(* A connection is removed: the others are still found from their homes.   *)
LEMMA RemovedOK ==
  ASSUME address \in [Connection -> Address], NEW n \in Nat, n > 0, NEW t,
         NEW S \in SUBSET Connection, TableOK(t, n, S), NEW conn \in S,
         \E z \in 0 .. n - 1 : t[z] = NULL
  PROVE  TableOK(Removed(t, conn), n, S \ {conn})
<1>. DEFINE d == CHOOSE s \in DOMAIN t : t[s] = conn
            t0 == [t EXCEPT ![d] = NULL]
            after == AfterSlots(t0, d)
            S1 == S \ {conn}
<1>1. t \in Table(n) /\ Holds(t, n, S) /\ Chained(t, n) /\ conn # NULL
  BY NULLAssumption DEF TableOK
<1>2. d \in 0 .. n - 1 /\ t[d] = conn
  <2>1. \E s \in DOMAIN t : t[s] = conn
    BY <1>1 DEF Holds, Table
  <2>. QED
    BY <1>1, <2>1, SizeOfTable
<1>3. PICK z \in 0 .. n - 1 : t[z] = NULL
  OBVIOUS
<1>4. t0 \in Table(n) /\ \A x \in 0 .. n - 1 : t0[x] = IF x = d THEN NULL ELSE t[x]
  BY <1>1, <1>2 DEF Table
<1>. HIDE DEF t0, d
<1>5. /\ after[0] = t0
      /\ \A k \in 1 .. n - 1 : after[k] = PutAgain(after[k - 1], Up(n, d, k))
  BY <1>2, <1>4, AfterSlotsFn
<1>. HIDE DEF after
<1>6. Between(t0, t, n, S1, d, 0)
  <2>1. Holds(t0, n, S1)
    <3>1. ASSUME NEW s \in 0 .. n - 1, t0[s] # NULL PROVE t0[s] \in S1
      <4>1. s # d /\ t0[s] = t[s] /\ t[s] \in S
        BY <1>1, <1>4, <3>1 DEF Holds
      <4>. QED
        BY <1>1, <1>2, <4>1 DEF Holds
    <3>2. ASSUME NEW e \in S1 PROVE \E s \in 0 .. n - 1 : t0[s] = e
      <4>1. PICK s \in 0 .. n - 1 : t[s] = e
        BY <1>1 DEF Holds
      <4>. QED
        BY <1>2, <1>4, <4>1
    <3>3. ASSUME NEW s \in 0 .. n - 1, NEW x \in 0 .. n - 1, t0[s] # NULL, t0[s] = t0[x]
          PROVE  s = x
      BY <1>1, <1>4, <3>3 DEF Holds
    <3>. QED
      BY <3>1, <3>2, <3>3 DEF Holds
  <2>2. ASSUME NEW x \in 0 .. n - 1, Dist(n, d, x) > 0 PROVE t0[x] = t[x]
    BY <1>2, <1>4, <2>2 DEF Dist
  <2>3. ASSUME NEW s \in 0 .. n - 1, NEW x \in 0 .. n - 1, t0[s] # NULL,
               OnWay(n, Home(n, t0[s]), x, s), t0[x] = NULL
        PROVE  Dist(n, d, s) > 0 /\ Dist(n, d, x) <= 0
    <3>1. s # d /\ t0[s] = t[s]
      BY <1>4, <2>3
    <3>2. t[x] # NULL
      BY <1>1, <2>3, <3>1 DEF Chained
    <3>3. x = d
      BY <1>4, <2>3, <3>2
    <3>. QED
      BY <1>2, <3>1, <3>3 DEF Dist
  <2>. QED
    BY <1>4, <2>1, <2>2, <2>3 DEF Between
<1>. DEFINE W == {k \in 0 .. n - 1 : t[Up(n, d, k + 1)] = NULL}
<1>7. Dist(n, d, z) \in 1 .. n - 1 /\ Dist(n, d, z) - 1 \in W
  <2>1. Dist(n, d, z) \in 0 .. n - 1 /\ Up(n, d, Dist(n, d, z)) = z
    BY <1>2, UpDist
  <2>2. z # d
    BY <1>1, <1>2, <1>3
  <2>3. Dist(n, d, z) # 0
    BY <1>2, <2>2 DEF Dist
  <2>4. (Dist(n, d, z) - 1) + 1 = Dist(n, d, z) /\ Dist(n, d, z) - 1 \in 0 .. n - 1
    BY <2>1, <2>3
  <2>. QED
    BY <1>3, <2>1, <2>3, <2>4
<1>8. PICK e \in W : \A k \in W : e <= k
  <2>1. W \subseteq Nat /\ W # {}
    BY <1>7
  <2>. QED
    BY <2>1, LeastNat
<1>9. e \in Nat /\ e + 1 <= Dist(n, d, z) /\ e + 1 < n
  BY <1>7, <1>8
<1>10. \A k \in Nat : k < e => t[Up(n, d, k + 1)] # NULL
  <2>. SUFFICES ASSUME NEW k \in Nat, k < e, t[Up(n, d, k + 1)] = NULL PROVE FALSE
    OBVIOUS
  <2>1. k \in W
    BY <1>9
  <2>. QED
    BY <1>8, <1>9, <2>1
<1>11. t[Up(n, d, e + 1)] = NULL
  BY <1>8
<1>. HIDE DEF W
<1>. DEFINE T == {k \in Nat : k <= e => Between(after[k], t, n, S1, d, k)}
<1>12. ASSUME NEW k \in Nat PROVE k \in T
  <2>1. 0 \in T
    BY <1>5, <1>6
  <2>2. ASSUME NEW j \in Nat, j \in T PROVE j + 1 \in T
    <3>. SUFFICES ASSUME j + 1 <= e PROVE Between(after[j + 1], t, n, S1, d, j + 1)
      OBVIOUS
    <3>1. j <= e /\ j < e /\ j + 1 < n /\ j + 1 \in 1 .. n - 1 /\ (j + 1) - 1 = j
      BY <1>9
    <3>2. after[j + 1] = PutAgain(after[j], Up(n, d, j + 1))
      BY <1>5, <3>1
    <3>3. Between(after[j], t, n, S1, d, j)
      BY <2>2, <3>1
    <3>4. t[Up(n, d, j + 1)] # NULL
      BY <1>10, <3>1
    <3>5. Dist(n, d, z) > j + 1
      BY <1>7, <1>9, <3>1
    <3>6. S1 \in SUBSET Connection
      OBVIOUS
    <3>. HIDE DEF S1
    <3>. QED
      BY <1>2, <1>3, <3>1, <3>2, <3>3, <3>4, <3>5, <3>6, BetweenStep
  <2>. HIDE DEF T
  <2>. QED
    BY <2>1, <2>2, NatSetInduction
<1>13. \A k \in Nat : k <= e => Between(after[k], t, n, S1, d, k)
  BY <1>12
<1>. HIDE DEF T, S1
<1>. DEFINE Ends(k) == after[k][Slot(t0, d, k + 1)] = NULL
<1>14. \A k \in Nat : k <= e => (Ends(k) <=> t[Up(n, d, k + 1)] = NULL)
  <2>. SUFFICES ASSUME NEW k \in Nat, k <= e PROVE Ends(k) <=> t[Up(n, d, k + 1)] = NULL
    OBVIOUS
  <2>1. k + 1 \in 0 .. n - 1
    BY <1>9
  <2>2. Slot(t0, d, k + 1) = Up(n, d, k + 1)
    <3>1. d % n = d /\ d \in Nat
      BY <1>2, SMT
    <3>. QED
      BY <1>4, <2>1, <3>1, SlotIs
  <2>3. Up(n, d, k + 1) \in 0 .. n - 1 /\ Dist(n, d, Up(n, d, k + 1)) = k + 1
    BY <1>2, <2>1, UpDist
  <2>4. Dist(n, d, Up(n, d, k + 1)) > k
    BY <2>3
  <2>5. after[k][Up(n, d, k + 1)] = t[Up(n, d, k + 1)]
    BY <1>13, <2>3, <2>4 DEF Between
  <2>. QED
    BY <2>2, <2>5
<1>15. Removed(t, conn) = after[e]
  <2>1. TableSize(t0) = n
    BY <1>4, SizeOfTable
  <2>2. Removed(t, conn) =
          after[CHOOSE k \in 0 .. n - 1 : Ends(k) /\ \A j \in 0 .. k - 1 : ~Ends(j)]
    BY <2>1 DEF Removed, Rehashed, after, d, t0
  <2>3. e \in 0 .. n - 1 /\ Ends(e) /\ \A j \in 0 .. e - 1 : ~Ends(j)
    <3>1. ASSUME NEW j \in 0 .. e - 1 PROVE ~Ends(j)
      <4>1. j \in Nat /\ j < e /\ j <= e
        BY <1>9
      <4>. QED
        BY <1>10, <1>14, <4>1
    <3>2. e \in 0 .. n - 1 /\ e <= e
      BY <1>9
    <3>3. Ends(e)
      BY <1>9, <1>11, <1>14, <3>2
    <3>. QED
      BY <3>1, <3>2, <3>3
  <2>. HIDE DEF Ends
  <2>4. ASSUME NEW k \in 0 .. n - 1, Ends(k), \A j \in 0 .. k - 1 : ~Ends(j) PROVE k = e
    <3>1. ~(e < k)
      <4>. SUFFICES ASSUME e < k PROVE FALSE
        OBVIOUS
      <4>1. e \in 0 .. k - 1
        BY <1>9
      <4>. QED
        BY <2>3, <2>4, <4>1
    <3>2. ~(k < e)
      <4>. SUFFICES ASSUME k < e PROVE FALSE
        OBVIOUS
      <4>1. k \in 0 .. e - 1
        BY <1>9
      <4>. QED
        BY <2>3, <2>4, <4>1
    <3>. QED
      BY <1>9, <3>1, <3>2
  <2>5. (CHOOSE k \in 0 .. n - 1 : Ends(k) /\ \A j \in 0 .. k - 1 : ~Ends(j)) = e
    BY <2>3, <2>4
  <2>. QED
    BY <2>2, <2>5
<1>16. Between(after[e], t, n, S1, d, e)
  BY <1>9, <1>13
<1>. DEFINE y == Up(n, d, e + 1)
<1>17. y \in 0 .. n - 1 /\ Dist(n, d, y) = e + 1 /\ after[e][y] = NULL
  <2>1. y \in 0 .. n - 1 /\ Dist(n, d, y) = e + 1
    BY <1>2, <1>9, UpDist
  <2>2. Dist(n, d, y) > e
    BY <1>9, <2>1
  <2>. QED
    BY <1>11, <1>16, <2>1, <2>2 DEF Between
<1>. HIDE DEF y
<1>18. Chained(after[e], n)
  <2>. SUFFICES ASSUME NEW s \in 0 .. n - 1, NEW x \in 0 .. n - 1, after[e][s] # NULL,
                       OnWay(n, Home(n, after[e][s]), x, s), after[e][x] = NULL
                PROVE  FALSE
    BY DEF Chained
  <2>. DEFINE g == Home(n, after[e][s])
  <2>1. Dist(n, d, s) > e /\ Dist(n, d, x) <= e
    BY <1>16 DEF Between
  <2>2. s # y
    BY <1>17
  <2>3. ~OnWay(n, g, y, s)
    <3>1. ~(Dist(n, d, y) <= e)
      BY <1>9, <1>17
    <3>. QED
      BY <1>16, <1>17, <3>1 DEF Between
  <2>4. g \in 0 .. n - 1
    <3>1. after[e][s] \in Connection
      BY <1>16 DEF Between, Holds, S1
    <3>. QED
      BY <3>1, HomeIs
  <2>5. OnWay(n, g, x, s)
    OBVIOUS
  <2>. HIDE DEF g
  <2>. QED
    BY <1>2, <1>9, <1>17, <2>1, <2>2, <2>3, <2>4, <2>5 DEF OnWay, Dist
<1>. QED
  BY <1>15, <1>16, <1>18 DEF TableOK, Between, S1

-----------------------------------------------------------------------------
(* The steps.                                                              *)

(* erase_fast takes the connection out of the vector, and changes no       *)
(* element but the one that is erased, nor what lies behind.               *)
LEMMA ErasedOK ==
  ASSUME NEW list \in Seq(Connection), NEW mem \in Seq(Connection), IsInjective(list),
         NEW conn, conn \in Range(list)
  PROVE  /\ Erased(list, conn) \in Seq(Connection)
         /\ <<list[Len(list)]>> \o mem \in Seq(Connection)
         /\ Len(list) > 0 /\ Len(Erased(list, conn)) = Len(list) - 1
         /\ Len(<<list[Len(list)]>> \o mem) = Len(mem) + 1
         /\ IsInjective(Erased(list, conn))
         /\ Range(Erased(list, conn)) = Range(list) \ {conn}
         /\ \A k \in 1 .. Len(list) + Len(mem) :
              (list \o mem)[k] # conn =>
                (Erased(list, conn) \o (<<list[Len(list)]>> \o mem))[k] = (list \o mem)[k]
<1>. DEFINE n == Len(list)
            new == Erased(list, conn)
            newMem == <<list[Len(list)]>> \o mem
<1>1. n \in Nat /\ list \in [1 .. n -> Connection] /\ DOMAIN list = 1 .. n /\ Len(mem) \in Nat
  BY LenProperties
<1>2. PICK p \in 1 .. n : list[p] = conn
  BY <1>1 DEF Range
<1>3. \A k \in 1 .. n : list[k] = conn <=> k = p
  BY <1>1, <1>2 DEF IsInjective
<1>4. new = [k \in 1 .. n - 1 |-> IF list[k] = conn THEN list[n] ELSE list[k]]
  BY DEF Erased
<1>. HIDE DEF n, new
<1>5. n - 1 \in Nat /\ n \in 1 .. n /\ n > 0
  BY <1>1, <1>2
<1>6. new \in [1 .. n - 1 -> Connection]
  BY <1>1, <1>4, <1>5
<1>7. new \in Seq(Connection) /\ Len(new) = n - 1 /\ DOMAIN new = 1 .. n - 1
  <2>1. new \in Seq(Connection)
    BY <1>5, <1>6, SeqDef
  <2>2. Len(new) \in Nat /\ DOMAIN new = 1 .. Len(new) /\ DOMAIN new = 1 .. n - 1
    BY <1>6, <2>1, LenProperties
  <2>. QED
    BY <1>5, <2>1, <2>2
<1>8. \A k \in 1 .. n - 1 : new[k] = IF k = p THEN list[n] ELSE list[k]
  BY <1>1, <1>3, <1>4
<1>9. list[n] \in Connection
  BY <1>1, <1>5
<1>10. /\ <<list[n]>> \in Seq(Connection) /\ Len(<<list[n]>>) = 1 /\ <<list[n]>>[1] = list[n]
  BY <1>9
<1>11. /\ newMem \in Seq(Connection) /\ Len(newMem) = Len(mem) + 1
       /\ newMem[1] = list[n] /\ \A k \in 1 .. Len(mem) : newMem[k + 1] = mem[k]
  <2>. DEFINE last == <<list[n]>>
  <2>1. newMem = last \o mem
    BY DEF n
  <2>. HIDE DEF newMem
  <2>2. last \in Seq(Connection) /\ Len(last) = 1 /\ last[1] = list[n]
    BY <1>10
  <2>. HIDE DEF last
  <2>3. /\ newMem \in Seq(Connection) /\ Len(newMem) = 1 + Len(mem)
        /\ \A k \in 1 .. 1 + Len(mem) : newMem[k] = IF k <= 1 THEN last[k] ELSE mem[k - 1]
    <3>1. /\ last \o mem \in Seq(Connection) /\ Len(last \o mem) = Len(last) + Len(mem)
          /\ \A k \in 1 .. Len(last) + Len(mem) :
               (last \o mem)[k] = IF k <= Len(last) THEN last[k] ELSE mem[k - Len(last)]
      BY <2>2, ConcatProperties
    <3>. QED
      BY <2>1, <2>2, <3>1
  <2>4. newMem[1] = list[n]
    BY <1>1, <2>2, <2>3
  <2>5. ASSUME NEW k \in 1 .. Len(mem) PROVE newMem[k + 1] = mem[k]
    <3>1. k + 1 \in 1 .. 1 + Len(mem) /\ ~(k + 1 <= 1) /\ (k + 1) - 1 = k
      BY <1>1
    <3>. QED
      BY <2>3, <3>1
  <2>. QED
    BY <1>1, <2>3, <2>4, <2>5
<1>12. IsInjective(new)
  <2>1. \A a, b \in 1 .. n : list[a] = list[b] => a = b
    BY <1>1 DEF IsInjective
  <2>2. ASSUME NEW a \in 1 .. n - 1, NEW b \in 1 .. n - 1, new[a] = new[b] PROVE a = b
    BY <1>1, <1>5, <1>8, <2>1, <2>2
  <2>. QED
    BY <1>7, <2>2 DEF IsInjective
<1>13. Range(new) = Range(list) \ {conn}
  <2>1. ASSUME NEW k \in 1 .. n - 1 PROVE new[k] \in Range(list) /\ new[k] # conn
    <3>1. k \in 1 .. n /\ k # n
      BY <1>5
    <3>2. CASE k = p
      BY <1>1, <1>3, <1>5, <1>8, <3>1, <3>2 DEF Range
    <3>3. CASE k # p
      BY <1>1, <1>3, <1>8, <3>1, <3>3 DEF Range
    <3>. QED
      BY <3>2, <3>3
  <2>2. ASSUME NEW k \in 1 .. n, list[k] # conn PROVE \E j \in 1 .. n - 1 : new[j] = list[k]
    <3>1. k # p
      BY <1>3, <2>2
    <3>2. CASE k = n
      <4>1. p \in 1 .. n - 1
        BY <1>2, <1>5, <3>1, <3>2
      <4>. QED
        BY <1>8, <3>2, <4>1
    <3>3. CASE k # n
      <4>1. k \in 1 .. n - 1
        BY <1>5, <3>3
      <4>. QED
        BY <1>8, <3>1, <4>1
    <3>. QED
      BY <3>2, <3>3
  <2>. QED
    BY <1>1, <1>7, <2>1, <2>2 DEF Range
<1>. HIDE DEF newMem
<1>14. ASSUME NEW k \in 1 .. n + Len(mem), (list \o mem)[k] # conn
       PROVE  (new \o newMem)[k] = (list \o mem)[k]
  <2>. DEFINE M == list \o mem
              M1 == new \o newMem
  <2>1. \A j \in 1 .. n + Len(mem) : M[j] = IF j <= n THEN list[j] ELSE mem[j - n]
    BY ConcatProperties DEF n
  <2>2. \A j \in 1 .. Len(new) + Len(newMem) :
          M1[j] = IF j <= Len(new) THEN new[j] ELSE newMem[j - Len(new)]
    BY <1>7, <1>11, ConcatProperties
  <2>3. k \in 1 .. Len(new) + Len(newMem) /\ M[k] # conn
    BY <1>1, <1>5, <1>7, <1>11, <1>14
  <2>. SUFFICES M1[k] = M[k]
    OBVIOUS
  <2>. HIDE DEF M, M1
  <2>4. CASE k <= n - 1
    <3>1. k \in 1 .. n - 1 /\ k \in 1 .. n /\ k <= n
      BY <1>1, <1>5, <2>4
    <3>2. M[k] = list[k] /\ M1[k] = new[k]
      BY <1>7, <2>1, <2>2, <2>3, <2>4, <3>1
    <3>3. k # p
      BY <1>3, <2>3, <3>1, <3>2
    <3>. QED
      BY <1>8, <3>1, <3>2, <3>3
  <2>5. CASE k = n
    <3>1. ~(k <= n - 1) /\ k - (n - 1) = 1 /\ k <= n
      BY <1>5, <2>5
    <3>. QED
      BY <1>7, <1>11, <2>1, <2>2, <2>3, <2>5, <3>1
  <2>6. CASE k > n
    <3>1. ~(k <= n - 1) /\ ~(k <= n) /\ k - n \in 1 .. Len(mem) /\ k - (n - 1) = (k - n) + 1
      BY <1>1, <1>5, <2>6
    <3>2. M[k] = mem[k - n]
      BY <2>1, <3>1
    <3>3. M1[k] = newMem[(k - n) + 1]
      <4>1. ~(k <= Len(new)) /\ k - Len(new) = (k - n) + 1
        BY <1>7, <3>1
      <4>. QED
        BY <2>2, <2>3, <4>1
    <3>. QED
      BY <1>11, <3>1, <3>2, <3>3
  <2>7. k <= n - 1 \/ k = n \/ k > n
    BY <1>1, <1>5
  <2>. QED
    BY <2>4, <2>5, <2>6, <2>7
<1>. QED
  BY <1>5, <1>7, <1>11, <1>12, <1>13, <1>14 DEF n, new, newMem

(* addConnection.                                                          *)
LEMMA AddStep ==
  ASSUME TypeOK, TableInv, NEW conn \in Connection \ Connected, addConnection(conn),
         UNCHANGED address
  PROVE  TableInv' /\ mConnectionList' \in Seq(Connection) /\ memory' \in Seq(Connection)
<1>. DEFINE t == mConnectionHashTable
            list == mConnectionList
            new == Append(list, conn)
<1>1. list \in Seq(Connection) /\ Len(list) \in Nat /\ DOMAIN list = 1 .. Len(list)
  BY LenProperties DEF TypeOK
<1>2. new \in Seq(Connection) /\ Len(new) = Len(list) + 1 /\ DOMAIN new = 1 .. Len(list) + 1
  BY <1>1
<1>3. \A k \in 1 .. Len(list) + 1 : new[k] = IF k <= Len(list) THEN list[k] ELSE conn
  BY <1>1
<1>. HIDE DEF new
<1>4. Range(new) = Connected \union {conn}
  BY <1>1, <1>2, <1>3 DEF Range, Connected
<1>5. IsInjective(new)
  <2>1. \A a, b \in 1 .. Len(list) : list[a] = list[b] => a = b
    BY <1>1 DEF TableInv, IsInjective
  <2>2. \A a \in 1 .. Len(list) : list[a] # conn
    BY <1>1 DEF Range, Connected
  <2>. QED
    BY <1>1, <1>2, <1>3, <2>1, <2>2 DEF IsInjective
<1>6. PICK n \in Nat : n > 2 /\ 2 * Len(list) <= n /\ TableOK(t, n, Connected)
  BY DEF TableInv
<1>7. TableSize(t) = n
  BY <1>6, SizeOfTable DEF TableOK
<1>8. mConnectionList' = new /\ address' = address
  BY DEF addConnection, new
<1>9. address \in [Connection -> Address] /\ Connected \in SUBSET Connection
  BY <1>1, ElementOfSeq DEF TypeOK, Range, Connected
<1>10. \E m \in Nat : m > 2 /\ 2 * Len(new) <= m /\ TableOK(mConnectionHashTable', m, Range(new))
  <2>1. CASE Len(new) > n \div 2
    <3>. DEFINE m == 4 * Len(new) - 1
    <3>1. m \in Nat /\ m > 2 /\ 2 * Len(new) <= m /\ Len(new) < m /\ m > 0
      BY <1>1, <1>2
    <3>2. mConnectionHashTable' = Filled(Empty(m), new)
      BY <1>7, <1>8, <2>1 DEF addConnection, Grown
    <3>. HIDE DEF m
    <3>3. TableOK(Filled(Empty(m), new), m, Range(new))
      BY <1>2, <1>5, <1>9, <3>1, FilledOK
    <3>. QED
      BY <3>1, <3>2, <3>3
  <2>2. CASE ~(Len(new) > n \div 2)
    <3>1. 2 * Len(new) <= n /\ Len(list) < n /\ n > 0
      BY <1>1, <1>2, <1>6, <2>2
    <3>2. mConnectionHashTable' = Put(t, conn)
      BY <1>7, <1>8, <2>2 DEF addConnection
    <3>3. Holds(t, n, Range(list))
      BY <1>6 DEF TableOK, Connected
    <3>4. \E s \in 0 .. n - 1 : t[s] = NULL
      <4>. HIDE DEF t, list
      <4>. QED
        BY <1>1, <3>1, <3>3, HasFreeForList
    <3>. HIDE DEF t
    <3>5. TableOK(Put(t, conn), n, Connected \union {conn})
      BY <1>6, <1>9, <3>1, <3>4, PutOK
    <3>. QED
      BY <1>4, <1>6, <3>1, <3>2, <3>5
  <2>. QED
    BY <2>1, <2>2
<1>11. TableInv'
  <2>1. PICK m \in Nat : m > 2 /\ 2 * Len(new) <= m /\ TableOK(mConnectionHashTable', m, Range(new))
    BY <1>10
  <2>2. TableOK(mConnectionHashTable, m, Connected)'
    BY <1>8, <2>1 DEF TableOK, Table, Holds, Chained, Home, Connected
  <2>. QED
    BY <1>5, <1>8, <2>1, <2>2 DEF TableInv
<1>12. memory' \in Seq(Connection)
  <2>1. memory \in Seq(Connection)
    BY DEF TypeOK
  <2>2. CASE memory = <<>>
    BY <2>1, <2>2 DEF addConnection
  <2>3. CASE memory # <<>>
    BY <2>1, <2>3, HeadTailProperties DEF addConnection
  <2>. QED
    BY <2>2, <2>3
<1>. QED
  BY <1>2, <1>8, <1>11, <1>12

(* removeConnection.                                                       *)
LEMMA RemoveStep ==
  ASSUME TypeOK, TableInv, NEW conn \in Connected, removeConnection(conn), UNCHANGED address
  PROVE  /\ TableInv' /\ mConnectionList' \in Seq(Connection) /\ memory' \in Seq(Connection)
         /\ Connected' = Connected \ {conn}
         /\ Len(mConnectionList') + Len(memory') = Len(mConnectionList) + Len(memory)
         /\ \A k \in 1 .. Len(mConnectionList) + Len(memory) :
              (mConnectionList \o memory)[k] # conn =>
                (mConnectionList' \o memory')[k] = (mConnectionList \o memory)[k]
<1>. DEFINE t == mConnectionHashTable
            list == mConnectionList
            new == Erased(list, conn)
            newMem == <<list[Len(list)]>> \o memory
<1>1. list \in Seq(Connection) /\ memory \in Seq(Connection)
  BY DEF TypeOK
<1>2. Len(list) \in Nat /\ Len(memory) \in Nat /\ DOMAIN list = 1 .. Len(list)
  BY <1>1, LenProperties
<1>3. IsInjective(list) /\ conn \in Range(list)
  BY DEF TableInv, Connected
<1>4. mConnectionList' = new /\ memory' = newMem /\ address' = address
  BY DEF removeConnection
<1>. HIDE DEF new, newMem
<1>5. /\ new \in Seq(Connection) /\ newMem \in Seq(Connection)
      /\ Len(list) > 0 /\ Len(new) = Len(list) - 1 /\ Len(newMem) = Len(memory) + 1
      /\ IsInjective(new) /\ Range(new) = Range(list) \ {conn}
      /\ \A k \in 1 .. Len(list) + Len(memory) :
           (list \o memory)[k] # conn => (new \o newMem)[k] = (list \o memory)[k]
  <2>. HIDE DEF list
  <2>. QED
    BY <1>1, <1>3, ErasedOK DEF new, newMem
<1>6. PICK n \in Nat : n > 2 /\ 2 * Len(list) <= n /\ TableOK(t, n, Connected)
  BY DEF TableInv
<1>7. address \in [Connection -> Address] /\ Connected \in SUBSET Connection
  BY <1>1, <1>2, ElementOfSeq DEF TypeOK, Range, Connected
<1>8. \E s \in 0 .. n - 1 : t[s] = NULL
  <2>1. Holds(t, n, Range(list))
    BY <1>6 DEF TableOK, Connected
  <2>2. Len(list) < n
    BY <1>2, <1>6
  <2>. HIDE DEF t, list
  <2>. QED
    BY <1>1, <2>1, <2>2, HasFreeForList
<1>9. TableOK(Removed(t, conn), n, Connected \ {conn})
  <2>. HIDE DEF t
  <2>. QED
    BY <1>6, <1>7, <1>8, n > 0, RemovedOK
<1>10. mConnectionHashTable' = Removed(t, conn)
  BY DEF removeConnection
<1>11. Connected' = Connected \ {conn}
  BY <1>4, <1>5 DEF Connected
<1>12. TableInv'
  <2>1. TableOK(mConnectionHashTable', n, Connected')
    BY <1>9, <1>10, <1>11
  <2>2. TableOK(mConnectionHashTable, n, Connected)'
    BY <1>4, <2>1 DEF TableOK, Table, Holds, Chained, Home
  <2>3. 2 * Len(mConnectionList') <= n
    BY <1>2, <1>4, <1>5, <1>6
  <2>. QED
    BY <1>4, <1>5, <1>6, <2>2, <2>3 DEF TableInv
<1>. QED
  BY <1>2, <1>4, <1>5, <1>11, <1>12

(* Nothing happens to the table.                                           *)
LEMMA TableStutter == TableInv /\ UNCHANGED <<address, lists>> => TableInv'
<1>. SUFFICES ASSUME TableInv, UNCHANGED <<address, lists>> PROVE TableInv'
  OBVIOUS
<1>1. /\ address' = address /\ mConnectionList' = mConnectionList
      /\ mConnectionHashTable' = mConnectionHashTable
  BY DEF lists
<1>2. PICK n \in Nat : /\ n > 2 /\ 2 * Len(mConnectionList) <= n
                       /\ TableOK(mConnectionHashTable, n, Connected)
  BY DEF TableInv
<1>3. TableOK(mConnectionHashTable, n, Connected)'
  BY <1>1, <1>2 DEF TableOK, Table, Holds, Chained, Home, Connected
<1>. QED
  BY <1>1, <1>2, <1>3 DEF TableInv

(* The loop and what the application does in it.                           *)
LEMMA NextInv == IInv /\ [Next]_vars => IInv'
<1>. SUFFICES ASSUME IInv, [Next]_vars PROVE IInv'
  OBVIOUS
<1>1. TypeOK /\ TableInv /\ LoopInv
  BY DEF IInv
<1>2. /\ Len(mConnectionList) \in Nat /\ Len(memory) \in Nat
      /\ DOMAIN mConnectionList = 1 .. Len(mConnectionList)
  BY <1>1, LenProperties DEF TypeOK
<1>3. \A k \in 1 .. Len(mConnectionList) : mConnectionList[k] \in Connected
  BY <1>2 DEF Connected, Range
<1>4. Connected \subseteq Connection
  BY <1>1, <1>2, ElementOfSeq DEF TypeOK, Connected, Range
<1>5. ASSUME NEW conn \in Connection, Connect(conn) PROVE IInv'
  <2>1. conn \in Connection \ Connected /\ addConnection(conn) /\ UNCHANGED address
    BY <1>5 DEF Connect
  <2>2. TableInv' /\ mConnectionList' \in Seq(Connection) /\ memory' \in Seq(Connection)
    BY <1>1, <2>1, AddStep
  <2>3. i' = i /\ timedOut' = timedOut /\ (i = 0 \/ i <= Len(mConnectionList))
    BY <1>5 DEF Connect, loop
  <2>4. LoopInv'
    <3>. SUFFICES ASSUME timedOut # NULL
                  PROVE  /\ timedOut \in Connected'
                         /\ i \in 1 .. Len(mConnectionList') + Len(memory')
                         /\ (mConnectionList' \o memory')[i] = timedOut
      BY <2>3 DEF LoopInv, Again
    <3>1. /\ timedOut \in Connected /\ i \in 1 .. Len(mConnectionList) + Len(memory)
          /\ (mConnectionList \o memory)[i] = timedOut
      BY <1>1 DEF LoopInv, Again
    <3>2. i \in 1 .. Len(mConnectionList)
      BY <1>2, <2>3, <3>1
    <3>3. mConnectionList[i] = timedOut
      BY <1>1, <3>1, <3>2, ConcatProperties DEF TypeOK
    <3>4. mConnectionList' = Append(mConnectionList, conn)
      BY <2>1 DEF addConnection
    <3>5. /\ Len(mConnectionList') = Len(mConnectionList) + 1 /\ Len(memory') \in Nat
          /\ mConnectionList'[i] = mConnectionList[i]
      BY <1>1, <2>1, <2>2, <3>2, <3>4, AppendProperties, LenProperties DEF TypeOK
    <3>6. i \in 1 .. Len(mConnectionList') /\ i \in 1 .. Len(mConnectionList') + Len(memory')
      BY <1>2, <3>2, <3>5
    <3>7. (mConnectionList' \o memory')[i] = timedOut
      BY <2>2, <3>3, <3>5, <3>6, ConcatProperties
    <3>8. timedOut \in Connected'
      <4>1. DOMAIN mConnectionList' = 1 .. Len(mConnectionList')
        BY <2>2, LenProperties
      <4>. QED
        BY <3>3, <3>5, <3>6, <4>1 DEF Connected, Range
    <3>. QED
      BY <3>6, <3>7, <3>8
  <2>. QED
    BY <1>1, <2>1, <2>2, <2>3, <2>4 DEF IInv, TypeOK
<1>6. ASSUME NEW conn \in Connection, Disconnect(conn) PROVE IInv'
  <2>1. conn \in Connected /\ conn # timedOut /\ removeConnection(conn) /\ UNCHANGED address
    BY <1>6 DEF Disconnect
  <2>2. /\ TableInv' /\ mConnectionList' \in Seq(Connection) /\ memory' \in Seq(Connection)
        /\ Connected' = Connected \ {conn}
        /\ Len(mConnectionList') + Len(memory') = Len(mConnectionList) + Len(memory)
        /\ \A k \in 1 .. Len(mConnectionList) + Len(memory) :
             (mConnectionList \o memory)[k] # conn =>
               (mConnectionList' \o memory')[k] = (mConnectionList \o memory)[k]
    BY <1>1, <2>1, RemoveStep
  <2>3. i' = i /\ timedOut' = timedOut
    BY <1>6 DEF Disconnect, loop
  <2>4. LoopInv'
    <3>. SUFFICES ASSUME timedOut # NULL
                  PROVE  /\ timedOut \in Connected'
                         /\ i \in 1 .. Len(mConnectionList') + Len(memory')
                         /\ (mConnectionList' \o memory')[i] = timedOut
      BY <2>3 DEF LoopInv, Again
    <3>1. /\ timedOut \in Connected /\ i \in 1 .. Len(mConnectionList) + Len(memory)
          /\ (mConnectionList \o memory)[i] = timedOut
      BY <1>1 DEF LoopInv, Again
    <3>. QED
      BY <2>1, <2>2, <3>1
  <2>. QED
    BY <1>1, <2>1, <2>2, <2>3, <2>4 DEF IInv, TypeOK
<1>7. CASE StartTimeouts
  <2>1. UNCHANGED <<address, lists, timedOut>> /\ i = 0 /\ i' = 1
    BY <1>7 DEF StartTimeouts
  <2>2. timedOut = NULL
    <3>. SUFFICES ASSUME timedOut # NULL PROVE FALSE
      OBVIOUS
    <3>1. i \in 1 .. Len(mConnectionList) + Len(memory)
      BY <1>1 DEF LoopInv
    <3>. QED
      BY <1>2, <2>1, <3>1
  <2>. QED
    BY <1>1, <2>1, <2>2, TableStutter DEF IInv, TypeOK, LoopInv, lists
<1>8. CASE NotTimedOut \/ EndTimeouts
  <2>1. UNCHANGED <<address, lists, timedOut>> /\ timedOut = NULL /\ i' \in Nat
    BY <1>1, <1>8 DEF NotTimedOut, EndTimeouts, TypeOK
  <2>. QED
    BY <1>1, <2>1, TableStutter DEF IInv, TypeOK, LoopInv, lists
<1>9. CASE TimedOut
  <2>1. /\ UNCHANGED <<address, lists, i>> /\ i \in 1 .. Len(mConnectionList)
        /\ timedOut' = mConnectionList[i]
    BY <1>9 DEF TimedOut
  <2>2. timedOut' \in Connected /\ timedOut' \in Connection
    BY <1>3, <1>4, <2>1
  <2>3. i \in 1 .. Len(mConnectionList) + Len(memory) /\ i <= Len(mConnectionList)
    BY <1>2, <2>1
  <2>4. (mConnectionList \o memory)[i] = mConnectionList[i]
    BY <1>1, <2>3, ConcatProperties DEF TypeOK
  <2>5. LoopInv'
    BY <2>1, <2>2, <2>3, <2>4 DEF LoopInv, Again, Connected, lists
  <2>. QED
    BY <1>1, <2>1, <2>2, <2>5, TableStutter DEF IInv, TypeOK, lists
<1>10. CASE RemoveTimedOut
  <2>1. Again \in Connected /\ removeConnection(Again) /\ UNCHANGED address
    BY <1>10 DEF RemoveTimedOut
  <2>2. TableInv' /\ mConnectionList' \in Seq(Connection) /\ memory' \in Seq(Connection)
    <3>. DEFINE conn == Again
    <3>1. conn \in Connected /\ removeConnection(conn)
      BY <2>1
    <3>. HIDE DEF conn
    <3>. QED
      BY <1>1, <2>1, <3>1, RemoveStep
  <2>3. i' = i /\ timedOut' = NULL
    BY <1>10 DEF RemoveTimedOut
  <2>. QED
    BY <1>1, <2>1, <2>2, <2>3 DEF IInv, TypeOK, LoopInv
<1>11. CASE UNCHANGED vars
  <2>1. UNCHANGED <<address, lists>> /\ UNCHANGED loop
    BY <1>11 DEF vars
  <2>2. TableInv'
    BY <1>1, <2>1, TableStutter
  <2>. QED
    BY <1>1, <2>1, <2>2 DEF lists, loop, IInv, TypeOK, LoopInv, Again, Connected
<1>. QED
  BY <1>5, <1>6, <1>7, <1>8, <1>9, <1>10, <1>11 DEF Next

(* At first there are no connections.                                      *)
LEMMA InitInv == Init => IInv
<1>. SUFFICES ASSUME Init PROVE IInv
  OBVIOUS
<1>1. /\ address \in [Connection -> Address] /\ mConnectionList = <<>> /\ memory = <<>>
      /\ mConnectionHashTable = Empty(InitialSize) /\ i = 0 /\ timedOut = NULL
  BY AddressesAssumption DEF Init
<1>2. TypeOK
  BY <1>1 DEF TypeOK
<1>3. Connected = {} /\ IsInjective(mConnectionList) /\ Len(mConnectionList) = 0
  BY <1>1 DEF Connected, Range, IsInjective
<1>4. TableOK(mConnectionHashTable, InitialSize, {})
  BY <1>1, InitialSizeAssumption DEF Empty, TableOK, Table, Holds, Chained
<1>5. TableInv
  BY <1>3, <1>4, InitialSizeAssumption DEF TableInv
<1>. QED
  BY <1>1, <1>2, <1>5 DEF IInv, LoopInv

(* The invariant holds in every state of every behaviour.                  *)
THEOREM InvHolds == Spec => []IInv
BY InitInv, NextInv, PTL DEF Spec

-----------------------------------------------------------------------------
(* What follows.                                                           *)

(* findConnection finds a connection with the address if there is one, for *)
(* any hash and however often the table has grown and connections have     *)
(* been removed.                                                           *)
THEOREM ConnectedAreFound == Spec => []FindsConnected
<1>1. IInv => FindsConnected
  <2>. SUFFICES ASSUME IInv, NEW a \in Address
                PROVE  LET found == findConnection(mConnectionHashTable, a)
                       IN  IF \E conn \in Connected : address[conn] = a
                             THEN found \in Connected /\ address[found] = a
                             ELSE found = NULL
    BY DEF FindsConnected
  <2>. DEFINE t == mConnectionHashTable
              hash == Hash[a]
              same == {k \in Probed(t, hash) : address[t[Slot(t, hash, k)]] = a}
  <2>1. PICK n \in Nat : n > 2 /\ t \in Table(n) /\ Holds(t, n, Connected) /\ Chained(t, n)
    BY DEF IInv, TableInv, TableOK
  <2>2. hash \in Nat /\ TableSize(t) = n /\ n > 0
    BY <2>1, HashAssumption, SizeOfTable
  <2>3. findConnection(t, a) = IF same = {} THEN NULL ELSE t[Slot(t, hash, Min(same))]
    BY DEF findConnection
  <2>. DEFINE h == hash % n
  <2>. HIDE DEF t, hash
  <2>4. /\ h \in 0 .. n - 1
        /\ \A k \in 0 .. n - 1 : Slot(t, hash, k) = Up(n, h, k)
    BY <2>1, <2>2, SlotIs, 0 \in 0 .. n - 1
  <2>. HIDE DEF h
  <2>5. Probed(t, hash) \subseteq 0 .. n - 1
    BY <2>2 DEF Probed
  <2>6. ASSUME NEW k \in Probed(t, hash)
        PROVE  Slot(t, hash, k) \in 0 .. n - 1 /\ t[Slot(t, hash, k)] \in Connected
    <3>1. k \in 0 .. n - 1
      BY <2>5
    <3>2. Slot(t, hash, k) \in 0 .. n - 1
      BY <2>2, <2>4, <3>1, UpDist
    <3>3. k \notin Free(t, hash)
      BY <3>1 DEF Probed
    <3>4. t[Slot(t, hash, k)] # NULL
      BY <2>2, <3>1, <3>3 DEF Free
    <3>. QED
      BY <2>1, <3>2, <3>4 DEF Holds
  <2>7. CASE \E conn \in Connected : address[conn] = a
    <3>1. PICK conn \in Connected : address[conn] = a
      BY <2>7
    <3>2. PICK s \in 0 .. n - 1 : t[s] = conn
      BY <2>1 DEF Holds
    <3>3. conn # NULL /\ conn \in Connection
      <4>1. conn \in Connection
        BY ElementOfSeq, LenProperties DEF IInv, TypeOK, Connected, Range
      <4>. QED
        BY <4>1, NULLAssumption
    <3>4. Home(n, t[s]) = h
      BY <3>1, <3>2 DEF Home, h, hash
    <3>5. Dist(n, h, s) \in 0 .. n - 1 /\ Up(n, h, Dist(n, h, s)) = s
      BY <2>2, <2>4, UpDist
    <3>6. ASSUME NEW f \in Free(t, hash) PROVE Dist(n, h, s) < f
      <4>1. f \in 0 .. n - 1 /\ t[Up(n, h, f)] = NULL
        BY <2>2, <2>4 DEF Free
      <4>2. Up(n, h, f) \in 0 .. n - 1 /\ Dist(n, h, Up(n, h, f)) = f
        BY <2>2, <2>4, <4>1, UpDist
      <4>3. ~OnWay(n, h, Up(n, h, f), s)
        BY <2>1, <3>2, <3>3, <3>4, <4>1, <4>2 DEF Chained
      <4>4. ~(f <= Dist(n, h, s))
        BY <4>2, <4>3 DEF OnWay
      <4>. QED
        BY <3>5, <4>1, <4>4
    <3>7. Dist(n, h, s) \in same
      BY <2>2, <2>4, <3>1, <3>2, <3>5, <3>6 DEF Probed
    <3>8. Min(same) \in same
      <4>1. same \subseteq Nat
        BY <2>5
      <4>. HIDE DEF same
      <4>. QED
        BY <3>7, <4>1, MinIsLeast
    <3>. QED
      BY <2>3, <2>6, <2>7, <3>7, <3>8 DEF t
  <2>8. CASE ~\E conn \in Connected : address[conn] = a
    <3>1. same = {}
      BY <2>6, <2>8
    <3>. QED
      BY <2>3, <2>8, <3>1 DEF t
  <2>. QED
    BY <2>7, <2>8
<1>. QED
  BY <1>1, InvHolds, PTL

(* The table has the connections of the list, each once, and always a free *)
(* slot, so that the searches of findConnection, addConnection and         *)
(* removeConnection end.                                                   *)
THEOREM TableIsTheList == Spec => []TableMirrorsList
<1>1. IInv => TableMirrorsList
  <2>. SUFFICES ASSUME IInv PROVE TableMirrorsList
    OBVIOUS
  <2>. DEFINE t == mConnectionHashTable
  <2>1. PICK n \in Nat : /\ n > 2 /\ 2 * Len(mConnectionList) <= n
                         /\ t \in Table(n) /\ Holds(t, n, Connected)
    BY DEF IInv, TableInv, TableOK
  <2>2. DOMAIN t = 0 .. n - 1
    BY <2>1, SizeOfTable
  <2>3. mConnectionList \in Seq(Connection) /\ Len(mConnectionList) \in Nat
    BY LenProperties DEF IInv, TypeOK
  <2>4. \E s \in DOMAIN t : t[s] = NULL
    <3>1. Holds(t, n, Range(mConnectionList))
      BY <2>1 DEF Connected
    <3>2. Len(mConnectionList) < n
      BY <2>1, <2>3
    <3>. HIDE DEF t
    <3>. QED
      BY <2>2, <2>3, <3>1, <3>2, HasFreeForList
  <2>5. ASSUME NEW conn \in Connection
        PROVE  Cardinality({s \in DOMAIN t : t[s] = conn}) = IF conn \in Connected THEN 1 ELSE 0
    <3>1. conn # NULL
      BY NULLAssumption
    <3>2. CASE conn \in Connected
      <4>1. PICK s \in 0 .. n - 1 : t[s] = conn
        BY <2>1, <3>2 DEF Holds
      <4>2. {x \in DOMAIN t : t[x] = conn} = {s}
        BY <2>1, <2>2, <3>1, <4>1 DEF Holds
      <4>. QED
        BY <3>2, <4>2, FS_Singleton
    <3>3. CASE conn \notin Connected
      <4>1. {x \in DOMAIN t : t[x] = conn} = {}
        BY <2>1, <2>2, <3>1, <3>3 DEF Holds
      <4>. QED
        BY <3>3, <4>1, FS_EmptySet
    <3>. QED
      BY <3>2, <3>3
  <2>. QED
    BY <2>4, <2>5 DEF TableMirrorsList, IInv, TableInv
<1>. QED
  BY <1>1, InvHolds, PTL

(* The loop over the timeouts removes the connection whose application it  *)
(* has told, though it reads the vector again after the application may    *)
(* have disconnected others, and even behind its end.  (Connect leaves out *)
(* the connections made while it would look there.)                        *)
THEOREM ToldAreRemoved == Spec => []ToldIsRemoved
<1>1. IInv => ToldIsRemoved
  BY DEF IInv, LoopInv, ToldIsRemoved
<1>. QED
  BY <1>1, InvHolds, PTL

(* What the loop hands to removeConnection is always a connection of the   *)
(* list: the guard of RemoveTimedOut, which the code has not, never stops  *)
(* it.                                                                     *)
THEOREM RemovalFinds == Spec => [](timedOut # NULL => Again \in Connected)
<1>1. IInv => (timedOut # NULL => Again \in Connected)
  BY DEF IInv, LoopInv
<1>. QED
  BY <1>1, InvHolds, PTL
===============================================================================
