---------------------------- MODULE RouterProofs ----------------------------
(***************************************************************************)
(* Internetwork, for any topology, routes, losses and interleaving.        *)
(*                                                                         *)
(* The tables: add_route keeps a table sorted (GoodTable); the first match *)
(* in a sorted table is a longest one; and comparing masked addresses is   *)
(* the same as asking whether an address is in the block of a prefix.      *)
(*                                                                         *)
(* The datagrams: there is a function loc that gives every datagram one    *)
(* place, such that whatever datagram is found on a wire at the port it is *)
(* for, in a queue, in an inbox or at a host is found at its place         *)
(* (Tracks).  No datagram can then be in two places, and so none arrives   *)
(* twice.  Its age, the time to live it has left and the hops it has made, *)
(* goes with the kind of place; what waits for a host's address, or is on  *)
(* the wire at a host's port, is addressed to that host.  NetInv says that *)
(* there is such a function; every step moves datagrams from one kind of   *)
(* place to another, and its lemma says which.                             *)
(***************************************************************************)
EXTENDS Internetwork, NaturalsInduction, WellFoundedInduction, FiniteSetTheorems, TLAPS

(* A non-empty set of natural numbers has a least element. *)
LEMMA LeastElement ==
  ASSUME NEW T, T \subseteq Nat, T # {}
  PROVE  \E x \in T : \A y \in T : x <= y
<1> DEFINE R == OpToRel(<, Nat)
<1>1. IsWellFoundedOn(R, Nat)
  BY NatLessThanWellFounded
<1> HIDE DEF R
<1>2. PICK x \in T : \A y \in T : ~(<<y, x>> \in R)
  BY <1>1, WFMin, Zenon
<1>3. \A y \in T : y < x => <<y, x>> \in R
  BY DEF R, OpToRel
<1>4. \A y \in T : y \in Nat /\ x \in Nat
  OBVIOUS
<1>5. \A y \in T : ~(y < x)
  BY <1>2, <1>3
<1>6. \A y \in T : x <= y
  BY <1>4, <1>5
<1> QED
  BY <1>6

(* How far a loop gets that runs through 1, 2, ... up to n and stops before *)
(* the first number that is not in T.                                       *)
LEMMA LoopStops ==
  ASSUME NEW T, NEW n \in Nat
  PROVE  \E m \in 0 .. n : /\ \A k \in 1 .. m : k \in T
                           /\ m < n => m + 1 \notin T
<1> DEFINE S == {k \in 1 .. n : k \notin T}
<1>1. CASE S = {}
  <2>1. \A k \in 1 .. n : k \in T
    BY <1>1
  <2> QED
    BY <2>1
<1>2. CASE S # {}
  <2>1. S \subseteq Nat
    OBVIOUS
  <2>2. PICK x \in S : \A y \in S : x <= y
    BY <1>2, <2>1, LeastElement
  <2>3. x \in 1 .. n /\ x \notin T
    BY <2>2
  <2>4. \A k \in 1 .. (x - 1) : k \in T
    BY <2>2, <2>3
  <2>5. x - 1 \in 0 .. n /\ (x - 1) + 1 \notin T
    BY <2>3
  <2> QED
    BY <2>4, <2>5
<1> QED
  BY <1>1, <1>2

(* Multiplication by a natural number is monotone. *)
LEMMA TimesMonotone ==
  ASSUME NEW m \in Nat, NEW i \in Int, NEW j \in Int, i <= j
  PROVE  i * m <= j * m
  OBVIOUS

(* Powers of two are positive. *)
LEMMA PowerIsPositive ==
  ASSUME NEW n \in Nat
  PROVE  2 ^ n \in Nat \ {0}
<1> DEFINE S == 1 .. n
<1>1. IsFiniteSet(S) /\ Cardinality(S) = n
  BY FS_Interval
<1> HIDE DEF S
<1>2. Cardinality(SUBSET S) = 2 ^ n /\ IsFiniteSet(SUBSET S)
  BY <1>1, FS_SUBSET
<1>3. Cardinality(SUBSET S) \in Nat /\ (Cardinality(SUBSET S) = 0 <=> SUBSET S = {})
  BY <1>2, FS_CardinalityType, FS_EmptySet
<1>4. SUBSET S # {}
  OBVIOUS
<1> QED
  BY <1>2, <1>3, <1>4

(* Two numbers have the same quotient if one is in the other's block. *)
LEMMA SameBlock ==
  ASSUME NEW m \in Nat \ {0}, NEW x \in Nat, NEW y \in Nat
  PROVE  x \div m = y \div m <=> x \in (y - (y % m)) .. (y - (y % m) + m - 1)
<1> DEFINE p == x \div m
           q == y \div m
           a == x % m
           b == y % m
<1>1. p \in Nat /\ a \in 0 .. m - 1 /\ x = m * p + a
  OBVIOUS
<1>2. q \in Nat /\ b \in 0 .. m - 1 /\ y = m * q + b
  OBVIOUS
<1> HIDE DEF p, q, a, b
<1>3. m * p \in Nat /\ m * q \in Nat /\ y - b = m * q
  BY <1>1, <1>2
<1>4. CASE p = q
  BY <1>1, <1>2, <1>3, <1>4 DEF p, q, b
<1>5. CASE p < q
  <2>1. (p + 1) * m <= q * m
    BY <1>1, <1>2, <1>5, TimesMonotone
  <2>2. m * p + m <= m * q
    BY <1>1, <1>2, <2>1
  <2>3. x < y - b
    BY <1>1, <1>3, <2>2
  <2>4. x \notin (y - b) .. (y - b + m - 1)
    BY <1>3, <2>3
  <2>5. p # q
    BY <1>1, <1>2, <1>5
  <2> QED
    BY <2>4, <2>5 DEF p, q, b
<1>6. CASE q < p
  <2>1. (q + 1) * m <= p * m
    BY <1>1, <1>2, <1>6, TimesMonotone
  <2>2. m * q + m <= m * p
    BY <1>1, <1>2, <2>1
  <2>3. x >= y - b + m
    BY <1>1, <1>3, <2>2
  <2>4. x \notin (y - b) .. (y - b + m - 1)
    BY <1>3, <2>3
  <2>5. p # q
    BY <1>1, <1>2, <1>6
  <2> QED
    BY <2>4, <2>5 DEF p, q, b
<1> QED
  BY <1>1, <1>2, <1>4, <1>5, <1>6

GoodEntry(entry) == entry.prefix \in Nat /\ entry.prefix_length \in Nat

(* The routes that add_route does not refuse. *)
Usable(entries) == {entry \in entries : entry.prefix_length <= AddrBits}

(* find_route masks, Covers counts: they mean the same addresses           *)
(* (router.cc:26-30).                                                      *)
LEMMA MatchesIsCovers ==
  ASSUME NEW entry, GoodEntry(entry), entry.prefix_length <= AddrBits, NEW destination \in Nat
  PROVE  Matches(entry, destination) <=> Covers(entry, destination)
<1> DEFINE size == 2 ^ (AddrBits - entry.prefix_length)
<1>1. AddrBits - entry.prefix_length \in Nat
  BY InternetworkAssumption DEF GoodEntry
<1>2. size \in Nat \ {0}
  BY <1>1, PowerIsPositive
<1>3. Matches(entry, destination) <=> destination \div size = entry.prefix \div size
  <2>1. AddrBits \in Nat /\ entry.prefix_length \in Nat
    BY InternetworkAssumption DEF GoodEntry
  <2>2. ZeroBits(entry.prefix_length) = AddrBits - entry.prefix_length
    BY <2>1 DEF ZeroBits, Shifted
  <2> QED
    BY <2>2 DEF Matches, Masked
<1>4. Covers(entry, destination) <=>
        destination \in (entry.prefix - (entry.prefix % size)) .. (entry.prefix - (entry.prefix % size) + size - 1)
  BY DEF Covers
<1>5. entry.prefix \in Nat
  BY DEF GoodEntry
<1> HIDE DEF size
<1> QED
  BY <1>2, <1>3, <1>4, <1>5, SameBlock

(* A table has the usable ones of the entries it was given, the longest    *)
(* prefixes first.                                                         *)
GoodTable(table, entries) ==
    /\ table \in Seq(Usable(entries))
    /\ \A entry \in Usable(entries) : \E k \in DOMAIN table : table[k] = entry
    /\ \A j, k \in DOMAIN table : j < k => table[j].prefix_length >= table[k].prefix_length

(* The upper_bound of add_route: in a sorted table the routes that are at  *)
(* least as long as the new one are the first n (router.cc:19-20).         *)
LEMMA LongerComeFirst ==
  ASSUME NEW entries, \A e \in entries : GoodEntry(e), NEW table, GoodTable(table, entries), NEW bound \in Nat
  PROVE  LET longer == {k \in DOMAIN table : table[k].prefix_length >= bound}
             n == Cardinality(longer)
         IN  n \in 0 .. Len(table) /\ longer = 1 .. n
<1> DEFINE longer == {k \in DOMAIN table : table[k].prefix_length >= bound}
<1>1. /\ Len(table) \in Nat /\ DOMAIN table = 1 .. Len(table)
      /\ \A k \in DOMAIN table : table[k].prefix_length \in Nat
  BY DEF GoodTable, GoodEntry, Usable
<1>2. PICK m \in 0 .. Len(table) : /\ \A k \in 1 .. m : k \in longer
                                   /\ m < Len(table) => m + 1 \notin longer
  <2> HIDE DEF longer
  <2> QED
    BY <1>1, LoopStops
<1>3. \A k \in longer : k \in 1 .. m
  <2> SUFFICES ASSUME NEW k \in longer, k > m PROVE FALSE
    BY <1>1
  <2>1. m + 1 \in DOMAIN table /\ m + 1 \notin longer
    BY <1>1, <1>2
  <2>2. table[m + 1].prefix_length < bound /\ table[k].prefix_length >= bound
    BY <1>1, <2>1
  <2>3. m + 1 = k \/ m + 1 < k
    BY <1>1
  <2> QED
    BY <1>1, <2>1, <2>2, <2>3 DEF GoodTable
<1>4. longer = 1 .. m
  BY <1>2, <1>3
<1>5. Cardinality(1 .. m) = m
  BY FS_Interval
<1> QED
  BY <1>4, <1>5
(* Two tables one after the other. *)
LEMMA Joined ==
  ASSUME NEW S, NEW a \in Seq(S), NEW b \in Seq(S)
  PROVE  /\ a \o b \in Seq(S) /\ Len(a \o b) = Len(a) + Len(b)
         /\ \A k \in 1 .. Len(a) : (a \o b)[k] = a[k]
         /\ \A k \in 1 .. Len(b) : (a \o b)[Len(a) + k] = b[k]
  OBVIOUS

(* add_route keeps the table good (router.cc:13-21). *)
LEMMA AddRouteKeepsOrder ==
  ASSUME NEW entries, \A e \in entries : GoodEntry(e), NEW table, GoodTable(table, entries),
         NEW entry, GoodEntry(entry)
  PROVE  GoodTable(AddRoute(table, entry), entries \cup {entry})
<1> DEFINE all == entries \cup {entry}
           U == Usable(all)
<1>1. Usable(entries) \subseteq U
  BY DEF Usable
<1>2. CASE entry.prefix_length > AddrBits
  <2>1. AddRoute(table, entry) = table
    BY <1>2 DEF AddRoute
  <2>2. U = Usable(entries)
    BY <1>2, InternetworkAssumption DEF Usable, GoodEntry
  <2> QED
    BY <2>1, <2>2 DEF GoodTable
<1>3. CASE ~(entry.prefix_length > AddrBits)
  <2> DEFINE longer == {k \in DOMAIN table : table[k].prefix_length >= entry.prefix_length}
             n == Cardinality(longer)
             N == Len(table)
             front == SubSeq(table, 1, n)
             back == SubSeq(table, n + 1, N)
             new == front \o <<entry>> \o back
  <2>1. AddRoute(table, entry) = InsertAt(table, n + 1, entry)
    BY <1>3 DEF AddRoute
  <2>2. n \in 0 .. N /\ longer = 1 .. n
    BY LongerComeFirst DEF GoodEntry
  <2>3. table \in Seq(U) /\ N \in Nat /\ DOMAIN table = 1 .. N /\ entry \in U
    <3>1. entry \in U
      BY <1>3, InternetworkAssumption DEF Usable, GoodEntry
    <3>2. table \in Seq(Usable(entries))
      BY DEF GoodTable
    <3>3. N \in Nat /\ DOMAIN table = 1 .. N /\ table = [k \in 1 .. N |-> table[k]]
          /\ \A k \in 1 .. N : table[k] \in Usable(entries)
      BY <3>2
    <3> HIDE DEF N, U
    <3>4. table \in [1 .. N -> U]
      BY <1>1, <3>3
    <3>5. table \in Seq(U)
      BY <3>3, <3>4
    <3> QED
      BY <3>1, <3>3, <3>5
  <2>4. \A k \in 1 .. N : (k <= n <=> table[k].prefix_length >= entry.prefix_length)
    BY <2>2, <2>3
  <2> HIDE DEF longer, n, U
  <2>5. AddRoute(table, entry) = new
    <3>1. (n + 1) - 1 = n
      BY <2>2
    <3> QED
      BY <2>1, <3>1 DEF InsertAt
  <2>6. front \in Seq(U) /\ back \in Seq(U) /\ Len(front) = n /\ Len(back) = N - n
        /\ (\A k \in 1 .. n : front[k] = table[k])
        /\ (\A k \in 1 .. N - n : back[k] = table[n + k])
    <3>1. front \in Seq(U) /\ Len(front) = n /\ (\A k \in 1 .. n : front[k] = table[k])
      <4> HIDE DEF N
      <4>1. \A k \in 1 .. n : table[k] \in U
        BY <2>2, <2>3
      <4>2. front = [k \in 1 .. n |-> table[k]]
        BY <2>2, <2>3
      <4> HIDE DEF front
      <4> QED
        BY <2>2, <4>1, <4>2
    <3>2. back \in Seq(U) /\ Len(back) = N - n /\ (\A k \in 1 .. N - n : back[k] = table[n + k])
      <4>0. back = [k \in 1 .. (N - (n + 1) + 1) |-> table[(n + 1) + k - 1]]
        BY <2>2, <2>3
      <4> HIDE DEF N
      <4>1. \A k \in 1 .. N - n : table[n + k] \in U /\ (n + 1) + k - 1 = n + k
        BY <2>2, <2>3
      <4>2. N - (n + 1) + 1 = N - n /\ N - n \in Nat
        BY <2>2, <2>3
      <4>3. back = [k \in 1 .. N - n |-> table[n + k]]
        BY <4>0, <4>1, <4>2
      <4> HIDE DEF back
      <4> QED
        BY <4>1, <4>2, <4>3
    <3> QED
      BY <3>1, <3>2
  <2> HIDE DEF front, back, N
  <2> DEFINE head == front \o <<entry>>
  <2>a. head \in Seq(U) /\ Len(head) = n + 1 /\ head[n + 1] = entry
        /\ \A k \in 1 .. n : head[k] = front[k]
    <3> DEFINE one == <<entry>>
    <3>1. one \in Seq(U) /\ Len(one) = 1 /\ one[1] = entry
      BY <2>3
    <3>2. head = front \o one
      OBVIOUS
    <3> HIDE DEF one, head
    <3>3. /\ head \in Seq(U) /\ Len(head) = Len(front) + Len(one)
          /\ \A k \in 1 .. Len(front) : head[k] = front[k]
          /\ \A k \in 1 .. Len(one) : head[Len(front) + k] = one[k]
      <4>1. front \in Seq(U) /\ one \in Seq(U)
        BY <2>6, <3>1
      <4> HIDE DEF U
      <4>2. /\ front \o one \in Seq(U) /\ Len(front \o one) = Len(front) + Len(one)
            /\ \A k \in 1 .. Len(front) : (front \o one)[k] = front[k]
            /\ \A k \in 1 .. Len(one) : (front \o one)[Len(front) + k] = one[k]
        BY <4>1, Joined
      <4> QED
        BY ONLY <3>2, <4>2, Zenon
    <3> QED
      BY <2>2, <2>6, <3>1, <3>3
  <2>b. new = head \o back
    OBVIOUS
  <2> HIDE DEF head, new
  <2>c. /\ new \in Seq(U) /\ Len(new) = Len(head) + Len(back)
        /\ \A k \in 1 .. Len(head) : new[k] = head[k]
        /\ \A k \in 1 .. Len(back) : new[Len(head) + k] = back[k]
    <3>1. head \in Seq(U) /\ back \in Seq(U)
      BY <2>6, <2>a
    <3> HIDE DEF U
    <3>2. /\ head \o back \in Seq(U) /\ Len(head \o back) = Len(head) + Len(back)
          /\ \A k \in 1 .. Len(head) : (head \o back)[k] = head[k]
          /\ \A k \in 1 .. Len(back) : (head \o back)[Len(head) + k] = back[k]
      BY <3>1, Joined
    <3> QED
      BY ONLY <2>b, <3>2, Zenon
  <2>7. new \in Seq(U) /\ Len(new) = N + 1
    BY <2>2, <2>3, <2>6, <2>a, <2>c
  <2>8. /\ \A k \in 1 .. n : new[k] = table[k]
        /\ new[n + 1] = entry
        /\ \A k \in 1 .. N - n : new[n + 1 + k] = table[n + k]
    <3>1. \A k \in 1 .. n + 1 : new[k] = head[k]
      BY <2>2, <2>a, <2>c
    <3>2. \A k \in 1 .. N - n : new[n + 1 + k] = back[k]
      BY <2>2, <2>6, <2>a, <2>c
    <3> QED
      BY <2>2, <2>6, <2>a, <3>1, <3>2
  <2>9. /\ \A k \in 1 .. N + 1 : /\ k <= n => new[k] = table[k]
                                 /\ k = n + 1 => new[k] = entry
                                 /\ k > n + 1 => new[k] = table[k - 1]
    <3>0. \A k \in 1 .. N + 1 : /\ k <= n => k \in 1 .. n /\ new[k] = table[k]
                                /\ k = n + 1 => new[k] = entry
      BY <2>2, <2>3, <2>8
    <3> SUFFICES ASSUME NEW k \in 1 .. N + 1, k > n + 1 PROVE new[k] = table[k - 1]
      BY <3>0
    <3>1. k - (n + 1) \in 1 .. N - n
      BY <2>2, <2>3
    <3>2. new[n + 1 + (k - (n + 1))] = table[n + (k - (n + 1))]
      BY <2>8, <3>1
    <3>3. n + 1 + (k - (n + 1)) = k /\ n + (k - (n + 1)) = k - 1
      BY <2>2, <2>3
    <3> QED
      BY <3>2, <3>3
  <2>10. DOMAIN new = 1 .. N + 1
    BY <2>3, <2>7
  <2>11. \A e \in U : \E k \in DOMAIN new : new[k] = e
    <3> SUFFICES ASSUME NEW e \in U, e # entry PROVE \E k \in DOMAIN new : new[k] = e
      <4>1. n + 1 \in DOMAIN new /\ new[n + 1] = entry
        BY <2>2, <2>3, <2>8, <2>10
      <4> QED
        BY <4>1
    <3>1. e \in Usable(entries)
      BY DEF U, Usable
    <3>2. PICK k \in DOMAIN table : table[k] = e
      BY <3>1 DEF GoodTable
    <3>3. CASE k <= n
      <4>1. k \in 1 .. N + 1
        BY <2>3, <3>2
      <4> QED
        BY <2>9, <2>10, <3>2, <3>3, <4>1
    <3>4. CASE k > n
      <4>1. k + 1 \in 1 .. N + 1 /\ k + 1 > n + 1 /\ (k + 1) - 1 = k
        BY <2>2, <2>3, <3>2, <3>4
      <4>2. new[k + 1] = table[k]
        BY <2>9, <4>1
      <4> QED
        BY <2>10, <3>2, <4>1, <4>2
    <3> QED
      BY <2>2, <2>3, <3>2, <3>3, <3>4
  <2>12. \A k \in 1 .. N : table[k].prefix_length \in Nat
    <3>1. \A k \in 1 .. N : table[k] \in Usable(entries)
      BY <2>3 DEF GoodTable
    <3> QED
      BY <3>1 DEF Usable, GoodEntry
  <2>13. \A j, k \in 1 .. N : j < k => table[j].prefix_length >= table[k].prefix_length
    BY <2>3 DEF GoodTable
  <2>14. \A j, k \in DOMAIN new : j < k => new[j].prefix_length >= new[k].prefix_length
    <3> SUFFICES ASSUME NEW j \in 1 .. N + 1, NEW k \in 1 .. N + 1, j < k
                 PROVE  new[j].prefix_length >= new[k].prefix_length
      BY <2>10
    <3>1. CASE k <= n
      <4>1. j \in 1 .. N /\ k \in 1 .. N /\ new[j] = table[j] /\ new[k] = table[k]
        BY <2>2, <2>3, <2>9, <3>1
      <4> QED
        BY <2>13, <4>1
    <3>2. CASE k = n + 1
      <4>1. j \in 1 .. N /\ j <= n /\ new[j] = table[j] /\ new[k] = entry
        BY <2>2, <2>3, <2>9, <3>2
      <4> QED
        BY <2>4, <4>1
    <3>3. CASE k > n + 1 /\ j <= n
      <4>1. j \in 1 .. N /\ k - 1 \in 1 .. N /\ j < k - 1 /\ new[j] = table[j] /\ new[k] = table[k - 1]
        BY <2>2, <2>3, <2>9, <3>3
      <4> QED
        BY <2>13, <4>1
    <3>4. CASE k > n + 1 /\ j = n + 1
      <4>1. k - 1 \in 1 .. N /\ ~(k - 1 <= n) /\ new[j] = entry /\ new[k] = table[k - 1]
        BY <2>2, <2>3, <2>9, <3>4
      <4>2. ~(table[k - 1].prefix_length >= entry.prefix_length)
        BY <2>4, <4>1
      <4>3. table[k - 1].prefix_length \in Nat /\ entry.prefix_length \in Nat
        BY <2>12, <4>1 DEF GoodEntry
      <4>4. entry.prefix_length >= table[k - 1].prefix_length
        BY <4>2, <4>3
      <4> QED
        BY <4>1, <4>4
    <3>5. CASE k > n + 1 /\ j > n + 1
      <4>1. j - 1 \in 1 .. N /\ k - 1 \in 1 .. N /\ j - 1 < k - 1 /\ new[j] = table[j - 1] /\ new[k] = table[k - 1]
        BY <2>2, <2>3, <2>9, <3>5
      <4> QED
        BY <2>13, <4>1
    <3> QED
      BY <2>2, <3>1, <3>2, <3>3, <3>4, <3>5
  <2> QED
    BY <2>5, <2>7, <2>11, <2>14 DEF GoodTable, U
<1> QED
  BY <1>2, <1>3

(* The first match in a good table is a longest one (router.cc:24-34). *)
LEMMA FirstMatchIsLongest ==
  ASSUME NEW entries, \A e \in entries : GoodEntry(e), NEW table, GoodTable(table, entries),
         NEW destination \in Nat
  PROVE  LET k == FindRoute(table, destination)
             candidates == {entry \in entries : Covers(entry, destination)}
         IN  IF candidates = {} THEN k = 0
             ELSE /\ k # 0
                  /\ table[k] \in candidates
                  /\ \A entry \in candidates : entry.prefix_length <= table[k].prefix_length
<1> DEFINE matching == {k \in DOMAIN table : Matches(table[k], destination)}
           candidates == {entry \in entries : Covers(entry, destination)}
           found == FindRoute(table, destination)
<1>1. /\ DOMAIN table = 1 .. Len(table) /\ Len(table) \in Nat
      /\ \A k \in DOMAIN table : table[k] \in Usable(entries)
  BY DEF GoodTable
<1>2. \A k \in DOMAIN table : /\ table[k] \in entries /\ GoodEntry(table[k])
                              /\ table[k].prefix_length <= AddrBits
  BY <1>1 DEF Usable
<1>3. \A k \in matching : table[k] \in candidates
  BY <1>2, MatchesIsCovers
<1>4. \A e \in candidates : \E k \in matching : table[k] = e
  <2> SUFFICES ASSUME NEW e \in candidates PROVE \E k \in matching : table[k] = e
    OBVIOUS
  <2>1. e \in entries /\ Covers(e, destination) /\ e.prefix_length <= AddrBits
    BY DEF Covers
  <2>2. PICK k \in DOMAIN table : table[k] = e
    BY <2>1 DEF GoodTable, Usable
  <2>3. Matches(table[k], destination)
    BY <2>1, <2>2, MatchesIsCovers
  <2> QED
    BY <2>2, <2>3
<1>5. found = IF matching = {} THEN 0 ELSE CHOOSE k \in matching : \A j \in matching : k <= j
  BY DEF FindRoute
<1> HIDE DEF found
<1>6. CASE matching = {}
  BY <1>4, <1>5, <1>6 DEF found
<1>7. CASE matching # {}
  <2>1. matching \subseteq Nat
    BY <1>1
  <2>2. \E k \in matching : \A j \in matching : k <= j
    <3> HIDE DEF matching
    <3> QED
      BY <1>7, <2>1, LeastElement
  <2>3. found \in matching /\ \A j \in matching : found <= j
    BY <1>5, <1>7, <2>2
  <2>4. found \in DOMAIN table /\ found # 0 /\ table[found] \in candidates
    BY <1>1, <1>3, <2>3
  <2>5. \A e \in candidates : e.prefix_length <= table[found].prefix_length
    <3> SUFFICES ASSUME NEW e \in candidates PROVE e.prefix_length <= table[found].prefix_length
      OBVIOUS
    <3>1. PICK j \in matching : table[j] = e
      BY <1>4
    <3>2. j \in DOMAIN table /\ found <= j
      BY <2>3, <3>1
    <3>3. table[j].prefix_length \in Nat /\ table[found].prefix_length \in Nat
      BY <1>2, <2>4, <3>2 DEF GoodEntry
    <3>4. j = found \/ found < j
      BY <1>1, <2>4, <3>2
    <3>5. found < j => table[found].prefix_length >= table[j].prefix_length
      BY <2>4, <3>2 DEF GoodTable
    <3> QED
      BY <3>1, <3>3, <3>4, <3>5
  <2>6. candidates # {}
    BY <2>4
  <2> HIDE DEF candidates
  <2> QED
    BY <2>4, <2>5, <2>6 DEF found, candidates
<1> QED
  BY <1>6, <1>7

-----------------------------------------------------------------------------
TablesInv ==
    /\ routes \in Routes
    /\ tables = [r \in RouterNames |-> tables[r]] /\ given = [r \in RouterNames |-> given[r]]
    /\ \A r \in RouterNames : /\ \A entry \in given[r] : GoodEntry(entry)
                              /\ GoodTable(tables[r], given[r])

(* Tables begin empty. *)
LEMMA TablesStart == Init => TablesInv
<1> SUFFICES ASSUME Init PROVE TablesInv
  OBVIOUS
<1>1. /\ routes \in Routes /\ tables = [r \in RouterNames |-> <<>>]
      /\ given = [r \in RouterNames |-> {}]
  BY DEF Init
<1>2. GoodTable(<<>>, {})
  BY DEF GoodTable, Usable
<1> QED
  BY <1>1, <1>2 DEF TablesInv

LEMMA TablesStep == TablesInv /\ [Next]_vars => TablesInv'
<1> SUFFICES ASSUME TablesInv, [Next]_vars PROVE TablesInv'
  OBVIOUS
<1>1. CASE UNCHANGED <<routes, tables, given>>
  BY <1>1 DEF TablesInv
<1>2. CASE \E r \in RouterNames : \E entry \in routes[r] : GiveRoute(r, entry)
  <2>1. PICK r \in RouterNames : \E entry \in routes[r] : GiveRoute(r, entry)
    BY <1>2
  <2>2. PICK entry \in routes[r] : GiveRoute(r, entry)
    BY <2>1
  <2>3. GoodEntry(entry)
    BY InternetworkAssumption DEF TablesInv, GoodEntry
  <2> DEFINE table == AddRoute(tables[r], entry)
             entries == given[r] \cup {entry}
  <2>4. /\ tables' = [tables EXCEPT ![r] = table] /\ given' = [given EXCEPT ![r] = entries]
        /\ routes' = routes
    BY <2>2 DEF GiveRoute
  <2>5. GoodTable(table, entries)
    BY <2>3, AddRouteKeepsOrder DEF TablesInv
  <2>6. \A e \in entries : GoodEntry(e)
    BY <2>3 DEF TablesInv
  <2> HIDE DEF table, entries
  <2>7. /\ tables' = [x \in RouterNames |-> tables'[x]] /\ given' = [x \in RouterNames |-> given'[x]]
        /\ tables'[r] = table /\ given'[r] = entries
        /\ \A x \in RouterNames : x # r => tables'[x] = tables[x] /\ given'[x] = given[x]
    BY <2>4 DEF TablesInv
  <2>8. \A x \in RouterNames : /\ \A e \in given'[x] : GoodEntry(e)
                               /\ GoodTable(tables'[x], given'[x])
    BY <2>5, <2>6, <2>7 DEF TablesInv
  <2> QED
    BY <2>4, <2>7, <2>8 DEF TablesInv
<1>3. CASE \E h \in Hosts, dst \in IP : dst \in Destinations[h] /\ HostSend(h, dst)
  BY <1>1, <1>3 DEF HostSend
<1>4. CASE \E p \in Port : Deliver(p)
  BY <1>1, <1>4 DEF Deliver
<1>5. CASE \E p \in Port : Lose(p)
  BY <1>1, <1>5 DEF Lose
<1>6. CASE \E h \in Hosts : HostTake(h)
  BY <1>1, <1>6 DEF HostTake
<1>7. CASE \E r \in RouterNames : Route(r)
  BY <1>1, <1>7 DEF Route
<1>8. CASE Tick
  BY <1>1, <1>8 DEF Tick
<1>9. CASE UNCHANGED vars
  BY <1>1, <1>9 DEF vars
<1> QED
  BY <1>2, <1>3, <1>4, <1>5, <1>6, <1>7, <1>8, <1>9 DEF Next

(* Whatever routes a router was given and in whatever order, find_route    *)
(* finds the longest prefix that covers the destination, for every width   *)
(* of addresses (router.cc:8-34).                                          *)
THEOREM LongestPrefixIsFound == Spec => []LongestPrefixMatch
<1>1. TablesInv => LongestPrefixMatch
  <2> SUFFICES ASSUME TablesInv, NEW r \in RouterNames, NEW destination \in IP
               PROVE  LET k == FindRoute(tables[r], destination)
                          candidates == {entry \in given[r] : Covers(entry, destination)}
                      IN  IF candidates = {} THEN k = 0
                          ELSE /\ k # 0
                               /\ tables[r][k] \in candidates
                               /\ \A entry \in candidates : entry.prefix_length <= tables[r][k].prefix_length
    BY DEF LongestPrefixMatch
  <2>1. destination \in Nat
    BY InternetworkAssumption
  <2>2. (\A entry \in given[r] : GoodEntry(entry)) /\ GoodTable(tables[r], given[r])
    BY DEF TablesInv
  <2> QED
    BY <2>1, <2>2, FirstMatchIsLongest
<1> QED
  BY <1>1, TablesStart, TablesStep, PTL DEF Spec

-----------------------------------------------------------------------------
(* Sequences *)

(* Every member of flat stands for one of the first n of the sequences ss, *)
(* no two for the same.                                                    *)
StandsFor(flat, ss, n, I, J) ==
    /\ \A k \in 1 .. Len(flat) : /\ I[k] \in 1 .. n /\ J[k] \in 1 .. Len(ss[I[k]])
                                 /\ flat[k] = ss[I[k]][J[k]]
    /\ \A k, l \in 1 .. Len(flat) : I[k] = I[l] /\ J[k] = J[l] => k = l

Merges(flat, ss, n, S) ==
    /\ flat \in Seq(S)
    /\ \E I, J : StandsFor(flat, ss, n, I, J)

(* What FlattenSeq computes on the way. *)
Grows(g, ss, m) == g = [i \in 1 .. m |-> IF i = 1 THEN ss[i] ELSE g[i - 1] \o ss[i]]

(* Flattening the first of the sequences. *)
LEMMA MergesFirst ==
  ASSUME NEW S, NEW ss, ss[1] \in Seq(S)
  PROVE  Merges(ss[1], ss, 1, S)
<1> DEFINE n == Len(ss[1])
           I == [k \in 1 .. n |-> 1]
           J == [k \in 1 .. n |-> k]
<1>1. \A k \in 1 .. n : I[k] = 1 /\ J[k] = k
  OBVIOUS
<1> HIDE DEF I, J
<1>2. \A k \in 1 .. n : /\ I[k] \in 1 .. 1 /\ J[k] \in 1 .. Len(ss[I[k]])
                        /\ ss[1][k] = ss[I[k]][J[k]]
  BY <1>1
<1>3. \A k, l \in 1 .. n : I[k] = I[l] /\ J[k] = J[l] => k = l
  BY <1>1
<1>4. StandsFor(ss[1], ss, 1, I, J)
  BY <1>2, <1>3 DEF StandsFor
<1> QED
  BY <1>4 DEF Merges

(* One sequence more. *)
LEMMA MergesNext ==
  ASSUME NEW S, NEW ss, NEW m \in Nat, NEW flat, Merges(flat, ss, m, S), ss[m + 1] \in Seq(S)
  PROVE  Merges(flat \o ss[m + 1], ss, m + 1, S)
<1> DEFINE next == ss[m + 1]
           new == flat \o next
<1>1. flat \in Seq(S)
  BY DEF Merges
<1>a. PICK I, J : StandsFor(flat, ss, m, I, J)
  BY DEF Merges
<1>2. /\ \A k \in 1 .. Len(flat) : /\ I[k] \in 1 .. m /\ J[k] \in 1 .. Len(ss[I[k]])
                                   /\ flat[k] = ss[I[k]][J[k]]
      /\ \A k, l \in 1 .. Len(flat) : I[k] = I[l] /\ J[k] = J[l] => k = l
  BY <1>a DEF StandsFor
<1>3. /\ new \in Seq(S) /\ Len(new) = Len(flat) + Len(next)
      /\ \A k \in 1 .. Len(flat) : new[k] = flat[k]
      /\ \A k \in 1 .. Len(next) : new[Len(flat) + k] = next[k]
  BY <1>1, Joined
<1> DEFINE a == Len(flat)
           b == Len(next)
           I2 == [k \in 1 .. a + b |-> IF k <= a THEN I[k] ELSE m + 1]
           J2 == [k \in 1 .. a + b |-> IF k <= a THEN J[k] ELSE k - a]
<1>4. a \in Nat /\ b \in Nat
  BY <1>1
<1>5. \A k \in 1 .. a + b : /\ k <= a => I2[k] = I[k] /\ J2[k] = J[k]
                            /\ ~(k <= a) => I2[k] = m + 1 /\ J2[k] = k - a
  OBVIOUS
<1> HIDE DEF I2, J2, new
<1>6. \A k \in 1 .. Len(new) : /\ I2[k] \in 1 .. m + 1 /\ J2[k] \in 1 .. Len(ss[I2[k]])
                               /\ new[k] = ss[I2[k]][J2[k]]
  <2> SUFFICES ASSUME NEW k \in 1 .. a + b
               PROVE  /\ I2[k] \in 1 .. m + 1 /\ J2[k] \in 1 .. Len(ss[I2[k]])
                      /\ new[k] = ss[I2[k]][J2[k]]
    BY <1>3
  <2>1. CASE k <= a
    <3>1. k \in 1 .. a /\ new[k] = flat[k] /\ I[k] \in 1 .. m
      BY <1>2, <1>3, <1>4, <2>1
    <3>2. I2[k] = I[k] /\ J2[k] = J[k]
      BY <1>5, <2>1
    <3> QED
      BY <1>2, <3>1, <3>2
  <2>2. CASE ~(k <= a)
    <3>1. k - a \in 1 .. b /\ a + (k - a) = k
      BY <1>4, <2>2
    <3>2. new[k] = next[k - a]
      BY <1>3, <3>1
    <3>3. I2[k] = m + 1 /\ J2[k] = k - a
      BY <1>5, <2>2
    <3> QED
      BY <3>1, <3>2, <3>3
  <2> QED
    BY <2>1, <2>2
<1>7. \A k, l \in 1 .. Len(new) : I2[k] = I2[l] /\ J2[k] = J2[l] => k = l
  <2> SUFFICES ASSUME NEW k \in 1 .. a + b, NEW l \in 1 .. a + b, I2[k] = I2[l], J2[k] = J2[l]
               PROVE  k = l
    BY <1>3
  <2>0. (k <= a => k \in 1 .. a) /\ (l <= a => l \in 1 .. a)
    BY <1>4
  <2>1. k <= a => I2[k] \in 1 .. m /\ k \in 1 .. a
    BY <1>2, <1>5, <2>0
  <2>2. l <= a => I2[l] \in 1 .. m /\ l \in 1 .. a
    BY <1>2, <1>5, <2>0
  <2>a. ~(k <= a) => I2[k] = m + 1
    BY <1>5
  <2>b. ~(l <= a) => I2[l] = m + 1
    BY <1>5
  <2>c. m + 1 \notin 1 .. m
    OBVIOUS
  <2>3. (k <= a) <=> (l <= a)
    BY <2>1, <2>2, <2>a, <2>b, <2>c
  <2>4. CASE k <= a
    BY <1>2, <1>5, <2>1, <2>2, <2>3, <2>4
  <2>5. CASE ~(k <= a)
    BY <1>4, <1>5, <2>3, <2>5
  <2> QED
    BY <2>4, <2>5
<1>8. StandsFor(new, ss, m + 1, I2, J2)
  BY <1>6, <1>7 DEF StandsFor
<1>9. Merges(new, ss, m + 1, S)
  BY <1>3, <1>8 DEF Merges
<1> QED
  BY <1>9 DEF new

(* FlattenSeq puts sequences one after the other. *)
LEMMA Flattened ==
  ASSUME NEW S, NEW n \in Nat, NEW ss, DOMAIN ss = 1 .. n, ss \in Seq(Seq(S))
  PROVE  Merges(FlattenSeq(ss), ss, n, S)
<1>0. Len(ss) = n /\ \A i \in 1 .. n : ss[i] \in Seq(S)
  OBVIOUS
<1>1. CASE n = 0
  <2>1. FlattenSeq(ss) = ss /\ ss = <<>>
    BY <1>0, <1>1 DEF FlattenSeq
  <2>2. Len(<<>>) = 0 /\ <<>> \in Seq(S)
    OBVIOUS
  <2>3. \A k \in 1 .. 0 : FALSE
    OBVIOUS
  <2> QED
    <3>1. StandsFor(<<>>, ss, 0, <<>>, <<>>)
      BY <2>2, <2>3 DEF StandsFor
    <3> HIDE DEF StandsFor
    <3> QED
      BY <1>1, <2>1, <2>2, <3>1, Zenon DEF Merges
<1>2. CASE n # 0
  <2> DEFINE T == {m \in 1 .. n : ~\E g : Grows(g, ss, m)}
             flatten == CHOOSE g : Grows(g, ss, n)
  <2>1. \E g : Grows(g, ss, n)
    <3>0. n \in 1 .. n
      BY <1>2
    <3> SUFFICES ASSUME T # {} PROVE FALSE
      BY <3>0, Zenon
    <3>1. T \subseteq Nat
      OBVIOUS
    <3>2. PICK x \in T : \A y \in T : x <= y
      <4> HIDE DEF T
      <4> QED
        BY <3>1, LeastElement
    <3>3. x # 1
      <4> DEFINE g == [i \in 1 .. 1 |-> ss[i]]
      <4>1. Grows(g, ss, 1)
        BY DEF Grows
      <4>2. \E f : Grows(f, ss, 1)
        BY <4>1
      <4> QED
        BY <3>2, <4>2
    <3>4. x - 1 \in 1 .. n /\ x - 1 \notin T
      <4>1. x \in 1 .. n
        BY <3>2
      <4> HIDE DEF T
      <4>2. x - 1 \in 1 .. n /\ ~(x <= x - 1)
        BY <3>3, <4>1
      <4> QED
        BY <3>2, <4>2
    <3>5. PICK g : Grows(g, ss, x - 1)
      BY <3>4
    <3> DEFINE h == [i \in 1 .. x |-> IF i < x THEN g[i] ELSE g[x - 1] \o ss[x]]
    <3>6. \A i \in 1 .. x - 1 : h[i] = g[i]
      BY <3>2
    <3>7. h[x] = g[x - 1] \o ss[x]
      BY <3>2
    <3>8. \A i \in 1 .. x : h[i] = IF i = 1 THEN ss[i] ELSE h[i - 1] \o ss[i]
      <4> SUFFICES ASSUME NEW i \in 1 .. x PROVE h[i] = IF i = 1 THEN ss[i] ELSE h[i - 1] \o ss[i]
        OBVIOUS
      <4>0. x \in Nat /\ i \in Nat
        BY <3>2
      <4> HIDE DEF h, T
      <4>1. CASE i = x
        <5>1. x - 1 \in 1 .. x - 1
          BY <3>4
        <5> QED
          BY <3>3, <3>6, <3>7, <4>1, <5>1
      <4>2. CASE i # x /\ i = 1
        <5>1. i \in 1 .. x - 1
          BY <4>0, <4>2
        <5>2. g[i] = ss[i]
          BY <3>5, <4>2, <5>1 DEF Grows
        <5> QED
          BY <3>6, <4>2, <5>1, <5>2
      <4>3. CASE i # x /\ i # 1
        <5>1. i \in 1 .. x - 1 /\ i - 1 \in 1 .. x - 1
          BY <4>0, <4>3
        <5>2. g[i] = g[i - 1] \o ss[i]
          BY <3>5, <4>3, <5>1 DEF Grows
        <5> QED
          BY <3>6, <4>3, <5>1, <5>2
      <4> QED
        BY <4>1, <4>2, <4>3
    <3>9. Grows(h, ss, x)
      <4>1. h = [i \in 1 .. x |-> h[i]]
        OBVIOUS
      <4> HIDE DEF h
      <4> QED
        BY <3>8, <4>1 DEF Grows
    <3> QED
      BY <3>2, <3>9
  <2>2. Grows(flatten, ss, n)
    BY <2>1
  <2>3. FlattenSeq(ss) = flatten[n]
    BY <1>0, <1>2 DEF FlattenSeq, Grows
  <2> HIDE DEF flatten
  <2>4. /\ flatten[1] = ss[1]
        /\ \A i \in 1 .. n : i # 1 => flatten[i] = flatten[i - 1] \o ss[i]
    <3> HIDE DEF T
    <3>1. 1 \in 1 .. n
      BY <1>2
    <3>2. \A i \in 1 .. n : flatten[i] = IF i = 1 THEN ss[i] ELSE flatten[i - 1] \o ss[i]
      BY <2>2 DEF Grows
    <3> QED
      BY <3>1, <3>2
  <2> HIDE DEF T
  <2> DEFINE U == {m \in 1 .. n : ~Merges(flatten[m], ss, m, S)}
  <2>5. U = {}
    <3> SUFFICES ASSUME U # {} PROVE FALSE
      OBVIOUS
    <3>1. U \subseteq Nat
      OBVIOUS
    <3>2. PICK x \in U : \A y \in U : x <= y
      <4> HIDE DEF U
      <4> QED
        BY <3>1, LeastElement
    <3>3. x \in 1 .. n /\ ss[x] \in Seq(S) /\ ss[1] \in Seq(S)
      BY <1>0, <1>2, <3>2
    <3>4. x # 1
      BY <2>4, <3>2, <3>3, MergesFirst
    <3>5. x - 1 \in 1 .. n /\ x - 1 \notin U /\ x - 1 \in Nat /\ (x - 1) + 1 = x
      BY <3>2, <3>3, <3>4
    <3>6. Merges(flatten[x - 1], ss, x - 1, S)
      BY <3>5
    <3>7. Merges(flatten[x - 1] \o ss[x], ss, x, S)
      BY <3>3, <3>5, <3>6, MergesNext
    <3> QED
      BY <2>4, <3>2, <3>3, <3>4, <3>7
  <2> QED
    BY <1>2, <2>3, <2>5
<1> QED
  BY <1>1, <1>2

(* SetToSeq lists a finite set, each member once. *)
LEMMA Enumerated ==
  ASSUME NEW S, IsFiniteSet(S)
  PROVE  /\ SetToSeq(S) \in Seq(S)
         /\ \A j, k \in DOMAIN SetToSeq(S) : SetToSeq(S)[j] = SetToSeq(S)[k] => j = k
<1>1. Cardinality(S) \in Nat /\ ExistsBijection(1 .. Cardinality(S), S)
  BY FS_CardinalityType
<1> DEFINE n == Cardinality(S)
<1> HIDE DEF n
<1>2. \E f \in [1 .. n -> S] : IsInjective(f)
  BY <1>1 DEF ExistsBijection, Bijection, Injection, n
<1>3. SetToSeq(S) \in [1 .. n -> S] /\ IsInjective(SetToSeq(S))
  BY <1>2 DEF SetToSeq, n
<1>4. n \in Nat
  BY <1>1 DEF n
<1>5. SetToSeq(S) \in Seq(S)
  <2> HIDE DEF SetToSeq
  <2> QED
    BY <1>3, <1>4
<1> QED
  BY <1>3, <1>5 DEF IsInjective

-----------------------------------------------------------------------------
(* Interfaces *)

Dgram == [id : Nat, dst : IP, ttl : Nat, cksum : Nat]

(* Frames carry datagrams for a port, or say the truth about an address. *)
DataFrame == [type : {"IPv4"}, src : Port, dst : Port, payload : Dgram]
News ==
    [opcode : {"request", "reply"}, sender_mac : Port, sender_ip : IP,
     target_mac : Port \cup {NoMac}, target_ip : IP]
ArpFrame ==
    [type : {"ARP"}, src : Port, dst : Port \cup {Broadcast},
     payload : {msg \in News : AddressOf[msg.sender_mac] = msg.sender_ip}]
AnyFrame == DataFrame \cup ArpFrame

CacheEntry == [mac : Port \cup {NoMac}, elapsed : Nat]
Queue == [dgrams : Seq(Dgram), elapsed : Nat]

GoodCache(table) ==
    /\ table \in [IP -> CacheEntry]
    /\ \A ip \in IP : table[ip].mac # NoMac => AddressOf[table[ip].mac] = ip

GoodIface(i, p) ==
    /\ i = [ethernet_address |-> p, ip_address |-> AddressOf[p], shared |-> i.shared,
            initialized |-> i.initialized, on_timeout |-> i.on_timeout,
            arp_table |-> i.arp_table, pending |-> i.pending,
            datagrams_received |-> i.datagrams_received]
    /\ GoodCache(i.arp_table)
    /\ i.pending \in [IP -> Queue]
    /\ i.datagrams_received \in Seq(Dgram)

Waits(i, ip) == i.pending[ip].dgrams

(* What a frame of either type carries. *)
LEMMA DataFrameIs ==
  ASSUME NEW f \in AnyFrame
  PROVE  /\ f.type = "IPv4" => f.dst \in Port /\ f.payload \in Dgram
         /\ f.type # "IPv4" => /\ f.type = "ARP" /\ f.payload \in News
                               /\ AddressOf[f.payload.sender_mac] = f.payload.sender_ip
<1>1. CASE f \in DataFrame
  BY <1>1 DEF DataFrame
<1>2. CASE f \in ArpFrame
  BY <1>2 DEF ArpFrame
<1> QED
  BY <1>1, <1>2 DEF AnyFrame

(* A frame made for a datagram carries it to that port. *)
LEMMA FrameOfDatagram ==
  ASSUME NEW p \in Port, NEW i, GoodIface(i, p), NEW d \in Dgram, NEW m \in Port
  PROVE  /\ IPv4Frame(i, d, m) \in AnyFrame
         /\ IPv4Frame(i, d, m).type = "IPv4"
         /\ IPv4Frame(i, d, m).dst = m /\ IPv4Frame(i, d, m).payload = d
<1>1. i.ethernet_address = p
  BY DEF GoodIface
<1>2. IPv4Frame(i, d, m) = [type |-> "IPv4", src |-> p, dst |-> m, payload |-> d]
  BY <1>1 DEF IPv4Frame, Frame
<1> QED
  BY <1>2 DEF AnyFrame, DataFrame

(* An ARP request carries no datagram. *)
LEMMA RequestIsNews ==
  ASSUME NEW p \in Port, NEW i, GoodIface(i, p), NEW ip \in IP
  PROVE  ArpRequest(i, ip) \in AnyFrame /\ ArpRequest(i, ip).type # "IPv4"
<1>1. i.ethernet_address = p /\ i.ip_address = AddressOf[p] /\ AddressOf[p] \in IP
  BY TopologyAssumption DEF GoodIface
<1> DEFINE msg == [opcode |-> "request", sender_mac |-> p, sender_ip |-> AddressOf[p],
                   target_mac |-> NoMac, target_ip |-> ip]
<1>2. ArpRequest(i, ip) = [type |-> "ARP", src |-> p, dst |-> Broadcast, payload |-> msg]
  BY <1>1 DEF ArpRequest, Frame, ArpMessage
<1>3. msg \in News /\ AddressOf[msg.sender_mac] = msg.sender_ip
  BY <1>1 DEF News
<1> HIDE DEF msg
<1>4. ArpRequest(i, ip) \in ArpFrame
  BY <1>2, <1>3 DEF ArpFrame
<1> QED
  BY <1>2, <1>4 DEF AnyFrame

(* Nor does a reply. *)
LEMMA ReplyIsNews ==
  ASSUME NEW p \in Port, NEW i, GoodIface(i, p), NEW request \in News
  PROVE  ArpReply(i, request) \in AnyFrame /\ ArpReply(i, request).type # "IPv4"
<1>1. i.ethernet_address = p /\ i.ip_address = AddressOf[p] /\ AddressOf[p] \in IP
  BY TopologyAssumption DEF GoodIface
<1>0. request.sender_mac \in Port /\ request.sender_ip \in IP
  BY DEF News
<1> DEFINE msg == [opcode |-> "reply", sender_mac |-> p, sender_ip |-> AddressOf[p],
                   target_mac |-> request.sender_mac, target_ip |-> request.sender_ip]
<1>2. ArpReply(i, request) = [type |-> "ARP", src |-> p, dst |-> request.sender_mac, payload |-> msg]
  BY <1>1 DEF ArpReply, Frame, ArpMessage
<1>3. msg \in News /\ AddressOf[msg.sender_mac] = msg.sender_ip
  BY <1>0, <1>1 DEF News
<1> HIDE DEF msg
<1>4. ArpReply(i, request) \in ArpFrame
  BY <1>0, <1>2, <1>3 DEF ArpFrame
<1> QED
  BY <1>2, <1>4 DEF AnyFrame

(* A field of an interface is replaced. *)
LEMMA NewCache ==
  ASSUME NEW p, NEW i, GoodIface(i, p), NEW table, GoodCache(table),
         NEW j, j = [i EXCEPT !.arp_table = table]
  PROVE  /\ GoodIface(j, p) /\ j.arp_table = table
         /\ j.pending = i.pending /\ j.datagrams_received = i.datagrams_received
         /\ j.on_timeout = i.on_timeout
<1> DEFINE shared == i.shared
           initialized == i.initialized
           timeout == i.on_timeout
           cache == i.arp_table
           queues == i.pending
           inbox == i.datagrams_received
           address == AddressOf[p]
<1>1. i = [ethernet_address |-> p, ip_address |-> address, shared |-> shared,
           initialized |-> initialized, on_timeout |-> timeout,
           arp_table |-> cache, pending |-> queues, datagrams_received |-> inbox]
  BY DEF GoodIface
<1> HIDE DEF shared, initialized, timeout, cache, queues, inbox, address
<1>2. j = [ethernet_address |-> p, ip_address |-> address, shared |-> shared,
           initialized |-> initialized, on_timeout |-> timeout,
           arp_table |-> table, pending |-> queues, datagrams_received |-> inbox]
  BY <1>1
<1>3. /\ j.shared = shared /\ j.initialized = initialized /\ j.on_timeout = timeout
      /\ j.arp_table = table /\ j.pending = queues /\ j.datagrams_received = inbox
  BY <1>2
<1>4. /\ GoodCache(table) /\ queues \in [IP -> Queue]
      /\ inbox \in Seq(Dgram)
  BY DEF GoodIface, cache, queues, inbox
<1>5. GoodIface(j, p)
  BY <1>2, <1>3, <1>4 DEF GoodIface, address
<1> QED
  BY <1>3, <1>5 DEF timeout, cache, queues, inbox

(* Changing the queues of an interface changes nothing else of it. *)
LEMMA NewQueues ==
  ASSUME NEW p, NEW i, GoodIface(i, p), NEW pending, pending \in [IP -> Queue],
         NEW j, j = [i EXCEPT !.pending = pending]
  PROVE  /\ GoodIface(j, p) /\ j.pending = pending
         /\ j.arp_table = i.arp_table /\ j.datagrams_received = i.datagrams_received
         /\ j.on_timeout = i.on_timeout
<1> DEFINE shared == i.shared
           initialized == i.initialized
           timeout == i.on_timeout
           cache == i.arp_table
           queues == i.pending
           inbox == i.datagrams_received
           address == AddressOf[p]
<1>1. i = [ethernet_address |-> p, ip_address |-> address, shared |-> shared,
           initialized |-> initialized, on_timeout |-> timeout,
           arp_table |-> cache, pending |-> queues, datagrams_received |-> inbox]
  BY DEF GoodIface
<1> HIDE DEF shared, initialized, timeout, cache, queues, inbox, address
<1>2. j = [ethernet_address |-> p, ip_address |-> address, shared |-> shared,
           initialized |-> initialized, on_timeout |-> timeout,
           arp_table |-> cache, pending |-> pending, datagrams_received |-> inbox]
  BY <1>1
<1>3. /\ j.shared = shared /\ j.initialized = initialized /\ j.on_timeout = timeout
      /\ j.arp_table = cache /\ j.pending = pending /\ j.datagrams_received = inbox
  BY <1>2
<1>4. /\ GoodCache(cache) /\ pending \in [IP -> Queue]
      /\ inbox \in Seq(Dgram)
  BY DEF GoodIface, cache, queues, inbox
<1>5. GoodIface(j, p)
  BY <1>2, <1>3, <1>4 DEF GoodIface, address
<1> QED
  BY <1>3, <1>5 DEF timeout, cache, queues, inbox

(* Neither does changing what it has received. *)
LEMMA NewInbox ==
  ASSUME NEW p, NEW i, GoodIface(i, p), NEW received, received \in Seq(Dgram),
         NEW j, j = [i EXCEPT !.datagrams_received = received]
  PROVE  /\ GoodIface(j, p) /\ j.datagrams_received = received
         /\ j.arp_table = i.arp_table /\ j.pending = i.pending
         /\ j.on_timeout = i.on_timeout
<1> DEFINE shared == i.shared
           initialized == i.initialized
           timeout == i.on_timeout
           cache == i.arp_table
           queues == i.pending
           inbox == i.datagrams_received
           address == AddressOf[p]
<1>1. i = [ethernet_address |-> p, ip_address |-> address, shared |-> shared,
           initialized |-> initialized, on_timeout |-> timeout,
           arp_table |-> cache, pending |-> queues, datagrams_received |-> inbox]
  BY DEF GoodIface
<1> HIDE DEF shared, initialized, timeout, cache, queues, inbox, address
<1>2. j = [ethernet_address |-> p, ip_address |-> address, shared |-> shared,
           initialized |-> initialized, on_timeout |-> timeout,
           arp_table |-> cache, pending |-> queues, datagrams_received |-> received]
  BY <1>1
<1>3. /\ j.shared = shared /\ j.initialized = initialized /\ j.on_timeout = timeout
      /\ j.arp_table = cache /\ j.pending = queues /\ j.datagrams_received = received
  BY <1>2
<1>4. /\ GoodCache(cache) /\ queues \in [IP -> Queue]
      /\ received \in Seq(Dgram)
  BY DEF GoodIface, cache, queues, inbox
<1>5. GoodIface(j, p)
  BY <1>2, <1>3, <1>4 DEF GoodIface, address
<1> QED
  BY <1>3, <1>5 DEF timeout, cache, queues, inbox

(* The lookup of send_datagram leaves only entries that are true. *)
LEMMA LookupIsGood ==
  ASSUME NEW table, GoodCache(table), NEW ip \in IP
  PROVE  GoodCache(Lookup(table, ip))
<1>1. NoEntry \in CacheEntry /\ NoEntry.mac = NoMac
  BY DEF NoEntry, CacheEntry
<1>2. CASE EntryExpired(table[ip])
  <2> DEFINE new == [table EXCEPT ![ip] = NoEntry]
  <2>1. Lookup(table, ip) = new
    BY <1>2 DEF Lookup
  <2>2. new \in [IP -> CacheEntry]
    BY <1>1 DEF GoodCache
  <2>3. \A a \in IP : new[a] = IF a = ip THEN NoEntry ELSE table[a]
    BY DEF GoodCache
  <2> HIDE DEF new
  <2> QED
    BY <1>1, <2>1, <2>2, <2>3 DEF GoodCache
<1>3. CASE ~EntryExpired(table[ip])
  BY <1>3 DEF Lookup
<1> QED
  BY <1>2, <1>3

LEMMA Single ==
  ASSUME NEW S, NEW f \in S
  PROVE  <<f>> \in Seq(S) /\ Len(<<f>>) = 1 /\ <<f>>[1] = f
OBVIOUS

(* None or one ARP message. *)
LEMMA FewFrames ==
  ASSUME NEW f \in AnyFrame, f.type # "IPv4", NEW frames, frames = <<>> \/ frames = <<f>>
  PROVE  frames \in Seq(AnyFrame) /\ \A k \in 1 .. Len(frames) : frames[k].type # "IPv4"
<1>1. CASE frames = <<>>
  <2>1. Len(frames) = 0 /\ frames \in Seq(AnyFrame)
    BY <1>1
  <2> QED
    BY <2>1
<1>2. CASE frames = <<f>>
  <2>1. frames \in Seq(AnyFrame) /\ Len(frames) = 1 /\ frames[1] = f
    BY <1>2, Single
  <2>2. \A k \in 1 .. 1 : k = 1
    OBVIOUS
  <2> QED
    BY <2>1, <2>2
<1> QED
  BY <1>1, <1>2

(* What send_datagram does with a datagram: it puts it into one frame, for *)
(* a port that has the address, or at the end of one queue.                *)
SentAtOnce(i, j, frames, d, ip) ==
    /\ \A a \in IP : Waits(j, a) = Waits(i, a)
    /\ Len(frames) = 1 /\ frames[1].type = "IPv4" /\ frames[1].payload = d
    /\ frames[1].dst \in Port /\ AddressOf[frames[1].dst] = ip

SentLater(i, j, frames, d, ip) ==
    /\ Waits(j, ip) = Append(Waits(i, ip), d)
    /\ \A a \in IP : a # ip => Waits(j, a) = Waits(i, a)
    /\ \A k \in 1 .. Len(frames) : frames[k].type # "IPv4"

(* send_datagram() puts the datagram on the wire or into the queue of the  *)
(* next hop, and loses nothing (network_interface.cc).                     *)
LEMMA SendIs ==
  ASSUME NEW p \in Port, NEW i, GoodIface(i, p), NEW d \in Dgram, NEW ip \in IP,
         NEW j, j = SendDatagram(i, d, ip).interface,
         NEW frames, frames = SendDatagram(i, d, ip).frames
  PROVE  /\ GoodIface(j, p) /\ j.datagrams_received = i.datagrams_received
         /\ frames \in Seq(AnyFrame)
         /\ SentAtOnce(i, j, frames, d, ip) \/ SentLater(i, j, frames, d, ip)
<1> DEFINE table == Lookup(i.arp_table, ip)
           looked == [i EXCEPT !.arp_table = table]
           pending == AddPending(looked.pending, d, ip)
           queued == [looked EXCEPT !.pending = pending]
<1>0. SendDatagram(i, d, ip) =
        IF table[ip].mac # NoMac THEN Outcome(looked, <<IPv4Frame(i, d, table[ip].mac)>>)
        ELSE IF HasPending(i.pending, ip) THEN Outcome(queued, <<>>)
        ELSE Outcome(queued, <<ArpRequest(i, ip)>>)
  BY DEF SendDatagram
<1>1. GoodCache(table)
  BY LookupIsGood DEF GoodIface
<1> HIDE DEF table
<1>2. /\ GoodIface(looked, p) /\ looked.pending = i.pending
      /\ looked.datagrams_received = i.datagrams_received
  BY <1>1, NewCache
<1> HIDE DEF looked
<1>3. i.pending \in [IP -> Queue] /\ i.pending[ip] \in Queue
  BY DEF GoodIface
<1>4. /\ pending \in [IP -> Queue]
      /\ pending[ip].dgrams = Append(i.pending[ip].dgrams, d)
      /\ \A a \in IP : a # ip => pending[a] = i.pending[a]
  <2> DEFINE new == [i.pending[ip] EXCEPT !.dgrams = Append(@, d)]
  <2>1. pending = [i.pending EXCEPT ![ip] = new]
    BY <1>2 DEF AddPending
  <2>2. new \in Queue /\ new.dgrams = Append(i.pending[ip].dgrams, d)
    <3> DEFINE q == i.pending[ip]
               more == Append(q.dgrams, d)
    <3>1. /\ q.dgrams \in Seq(Dgram) /\ q.elapsed \in Nat
          /\ q = [dgrams |-> q.dgrams, elapsed |-> q.elapsed]
      BY <1>3 DEF Queue
    <3>2. more \in Seq(Dgram)
      BY <3>1
    <3>3. new = [q EXCEPT !.dgrams = more]
      OBVIOUS
    <3> HIDE DEF more, new, q
    <3>4. new = [dgrams |-> more, elapsed |-> q.elapsed]
      BY <3>1, <3>3
    <3>5. new \in Queue /\ new.dgrams = more
      BY <3>1, <3>2, <3>4 DEF Queue
    <3> QED
      BY <3>5 DEF more, q
  <2> HIDE DEF new, pending
  <2> QED
    BY <1>3, <2>1, <2>2
<1> HIDE DEF pending
<1>5. /\ GoodIface(queued, p) /\ queued.pending = pending
      /\ queued.datagrams_received = i.datagrams_received
  BY <1>2, <1>4, NewQueues
<1> HIDE DEF queued
<1>6. CASE table[ip].mac # NoMac
  <2> DEFINE m == table[ip].mac
             f == IPv4Frame(i, d, m)
  <2>1. m \in Port /\ AddressOf[m] = ip
    BY <1>1, <1>6 DEF GoodCache, CacheEntry
  <2>2. f \in AnyFrame /\ f.type = "IPv4" /\ f.dst = m /\ f.payload = d
    <3> HIDE DEF m
    <3> QED
      BY <2>1, FrameOfDatagram
  <2>3. j = looked /\ frames = <<f>>
    BY <1>0, <1>6 DEF Outcome
  <2> HIDE DEF f, m
  <2>4. frames \in Seq(AnyFrame) /\ Len(frames) = 1 /\ frames[1] = f
    BY <2>2, <2>3
  <2>5. SentAtOnce(i, j, frames, d, ip)
    BY <1>2, <2>1, <2>2, <2>3, <2>4 DEF SentAtOnce, Waits
  <2> QED
    BY <1>2, <2>3, <2>4, <2>5
<1>7. CASE ~(table[ip].mac # NoMac)
  <2> DEFINE f == ArpRequest(i, ip)
  <2>1. f \in AnyFrame /\ f.type # "IPv4"
    BY RequestIsNews
  <2>2. j = queued /\ (frames = <<>> \/ frames = <<f>>)
    BY <1>0, <1>7 DEF Outcome
  <2> HIDE DEF f
  <2>3. frames \in Seq(AnyFrame) /\ \A k \in 1 .. Len(frames) : frames[k].type # "IPv4"
    BY <2>1, <2>2, FewFrames
  <2>4. SentLater(i, j, frames, d, ip)
    BY <1>4, <1>5, <2>2, <2>3 DEF SentLater, Waits
  <2> QED
    BY <1>5, <2>2, <2>3, <2>4
<1> QED
  BY <1>6, <1>7

(* What recv_frame does: nothing, keep the datagram, or release a queue to *)
(* a port that has the address.                                            *)
Ignored(i, j, frames) ==
    /\ \A a \in IP : Waits(j, a) = Waits(i, a)
    /\ j.datagrams_received = i.datagrams_received
    /\ \A k \in 1 .. Len(frames) : frames[k].type # "IPv4"

Kept(i, j, frames, f, p) ==
    /\ f.type = "IPv4" /\ f.dst = p
    /\ \A a \in IP : Waits(j, a) = Waits(i, a)
    /\ j.datagrams_received = Append(i.datagrams_received, f.payload)
    /\ frames = <<>>

Released(i, j, frames, ip, m, n) ==
    /\ AddressOf[m] = ip
    /\ Waits(j, ip) = <<>> /\ \A a \in IP : a # ip => Waits(j, a) = Waits(i, a)
    /\ j.datagrams_received = i.datagrams_received
    /\ Len(frames) = n + Len(Waits(i, ip))
    /\ \A k \in 1 .. n : frames[k].type # "IPv4"
    /\ \A k \in 1 .. Len(Waits(i, ip)) :
          /\ frames[n + k].type = "IPv4" /\ frames[n + k].dst = m
          /\ frames[n + k].payload = Waits(i, ip)[k]

(* An ARP message, true as it is, releases the queue for the address that  *)
(* its sender has, in order and to its port; that queue may be empty.      *)
LEMMA ArpIs ==
  ASSUME NEW p \in Port, NEW i, GoodIface(i, p),
         NEW msg \in News, AddressOf[msg.sender_mac] = msg.sender_ip,
         NEW j, j = RecvArp(i, msg).interface, NEW frames, frames = RecvArp(i, msg).frames
  PROVE  /\ GoodIface(j, p) /\ frames \in Seq(AnyFrame)
         /\ \E ip \in IP, m \in Port, n \in Nat : Released(i, j, frames, ip, m, n)
<1> DEFINE ip == msg.sender_ip
           m == msg.sender_mac
           table == AddEntry(i.arp_table, ip, m)
           learnt == [i EXCEPT !.arp_table = table]
           asked == msg.opcode = "request" /\ msg.target_ip = i.ip_address
           reply == IF asked THEN <<ArpReply(i, msg)>> ELSE <<>>
           flushed == FlushPendingFor(learnt, ip)
<1>0. RecvArp(i, msg) = Outcome(flushed.interface, reply \o flushed.frames)
  BY DEF RecvArp
<1>1. ip \in IP /\ m \in Port /\ m # NoMac /\ AddressOf[m] = ip
  BY TopologyAssumption DEF News
<1>2. reply \in Seq(AnyFrame) /\ \A k \in 1 .. Len(reply) : reply[k].type # "IPv4"
  <2> DEFINE f == ArpReply(i, msg)
  <2>1. f \in AnyFrame /\ f.type # "IPv4"
    BY ReplyIsNews
  <2>2. reply = <<>> \/ reply = <<f>>
    OBVIOUS
  <2> HIDE DEF f, reply
  <2> QED
    BY <2>1, <2>2, FewFrames
<1> HIDE DEF reply, ip, m
<1>3. /\ GoodCache(table) /\ table[ip] = [mac |-> m, elapsed |-> 0]
  <2> DEFINE e == [mac |-> m, elapsed |-> 0]
  <2>1. e \in CacheEntry /\ e.mac = m
    BY <1>1 DEF CacheEntry
  <2>2. table = [i.arp_table EXCEPT ![ip] = e]
    BY DEF AddEntry
  <2>3. GoodCache(i.arp_table)
    BY DEF GoodIface
  <2> HIDE DEF e, table
  <2>4. table \in [IP -> CacheEntry] /\ \A a \in IP : table[a] = IF a = ip THEN e ELSE i.arp_table[a]
    BY <1>1, <2>1, <2>2, <2>3 DEF GoodCache
  <2>5. GoodCache(table)
    BY <1>1, <2>1, <2>3, <2>4 DEF GoodCache
  <2> QED
    BY <1>1, <2>4, <2>5 DEF e
<1> HIDE DEF table
<1>4. /\ GoodIface(learnt, p) /\ learnt.arp_table = table /\ learnt.pending = i.pending
      /\ learnt.datagrams_received = i.datagrams_received
  BY <1>3, NewCache
<1> HIDE DEF learnt
<1>5. Lookup(table, ip) = table
  BY <1>3, TimeoutAssumption DEF Lookup, EntryExpired
<1> DEFINE looked == [learnt EXCEPT !.arp_table = table]
           pending == PopPending(looked.pending, ip)
           freed == [looked EXCEPT !.pending = pending]
           waiting == i.pending[ip].dgrams
           freight == [k \in DOMAIN waiting |-> IPv4Frame(learnt, waiting[k], m)]
<1>6. flushed = Outcome(freed, freight)
  BY <1>1, <1>3, <1>4, <1>5 DEF FlushPendingFor
<1>7. /\ GoodIface(looked, p) /\ looked.pending = i.pending
      /\ looked.datagrams_received = i.datagrams_received
  BY <1>3, <1>4, NewCache
<1> HIDE DEF looked
<1>8. i.pending \in [IP -> Queue] /\ waiting \in Seq(Dgram)
  BY <1>1 DEF GoodIface, Queue
<1>9. /\ pending \in [IP -> Queue] /\ pending[ip].dgrams = <<>>
      /\ \A a \in IP : a # ip => pending[a] = i.pending[a]
  <2>1. NoQueue \in Queue /\ NoQueue.dgrams = <<>>
    BY DEF NoQueue, Queue
  <2>2. pending = [i.pending EXCEPT ![ip] = NoQueue]
    BY <1>7 DEF PopPending
  <2> HIDE DEF pending
  <2> QED
    BY <1>1, <1>8, <2>1, <2>2
<1> HIDE DEF pending
<1>10. /\ GoodIface(freed, p) /\ freed.pending = pending
       /\ freed.datagrams_received = i.datagrams_received
  BY <1>7, <1>9, NewQueues
<1> HIDE DEF freed, waiting
<1>11. /\ DOMAIN freight = 1 .. Len(waiting) /\ Len(waiting) \in Nat
       /\ \A k \in 1 .. Len(waiting) : /\ freight[k] \in AnyFrame /\ freight[k].type = "IPv4"
                                       /\ freight[k].dst = m /\ freight[k].payload = waiting[k]
  <2>1. DOMAIN waiting = 1 .. Len(waiting) /\ Len(waiting) \in Nat
    BY <1>8
  <2>2. \A k \in 1 .. Len(waiting) : waiting[k] \in Dgram
    BY <1>8
  <2> SUFFICES ASSUME NEW k \in 1 .. Len(waiting)
               PROVE  /\ freight[k] \in AnyFrame /\ freight[k].type = "IPv4"
                      /\ freight[k].dst = m /\ freight[k].payload = waiting[k]
    BY <2>1
  <2>3. freight[k] = IPv4Frame(learnt, waiting[k], m)
    BY <2>1
  <2>4. waiting[k] \in Dgram
    BY <2>2
  <2> HIDE DEF freight
  <2> QED
    BY <1>1, <1>4, <2>3, <2>4, FrameOfDatagram
<1>12. freight = [k \in 1 .. Len(waiting) |-> freight[k]]
  BY <1>11
<1> HIDE DEF freight
<1>13. freight \in Seq(AnyFrame) /\ Len(freight) = Len(waiting)
  BY <1>11, <1>12
<1>14. j = freed /\ frames = reply \o freight
  BY <1>0, <1>6 DEF Outcome
<1>15. /\ frames \in Seq(AnyFrame) /\ Len(frames) = Len(reply) + Len(freight) /\ Len(reply) \in Nat
       /\ \A k \in 1 .. Len(reply) : frames[k] = reply[k]
       /\ \A k \in 1 .. Len(freight) : frames[Len(reply) + k] = freight[k]
  <2> HIDE DEF flushed
  <2>1. reply \in Seq(AnyFrame) /\ freight \in Seq(AnyFrame) /\ Len(reply) \in Nat
    BY <1>2, <1>13
  <2> QED
    BY <1>14, <2>1, Joined
<1>16. Waits(i, ip) = waiting
  BY DEF Waits, waiting
<1>17. Released(i, j, frames, ip, m, Len(reply))
  <2>1. Waits(j, ip) = <<>> /\ \A a \in IP : a # ip => Waits(j, a) = Waits(i, a)
    BY <1>9, <1>10, <1>14 DEF Waits
  <2> QED
    BY <1>1, <1>2, <1>10, <1>11, <1>13, <1>14, <1>15, <1>16, <2>1 DEF Released
<1> QED
  BY <1>1, <1>10, <1>14, <1>15, <1>17

(* recv_frame() ignores the frame, keeps its datagram, or learns and       *)
(* releases a queue.                                                       *)
LEMMA RecvIs ==
  ASSUME NEW p \in Port, NEW i, GoodIface(i, p), NEW f \in AnyFrame,
         NEW j, j = RecvFrame(i, f).interface, NEW frames, frames = RecvFrame(i, f).frames
  PROVE  /\ GoodIface(j, p) /\ frames \in Seq(AnyFrame)
         /\ \/ Ignored(i, j, frames) \/ Kept(i, j, frames, f, p)
            \/ \E ip \in IP, m \in Port, n \in Nat : Released(i, j, frames, ip, m, n)
<1>1. i.ethernet_address = p /\ i.datagrams_received \in Seq(Dgram)
  BY DEF GoodIface
<1>2. CASE RecvFrame(i, f) = Outcome(i, <<>>)
  <2>1. j = i /\ frames = <<>>
    BY <1>2 DEF Outcome
  <2>2. <<>> \in Seq(AnyFrame) /\ \A k \in 1 .. Len(<<>>) : FALSE
    OBVIOUS
  <2> QED
    BY <2>1, <2>2 DEF Ignored
<1>3. CASE ForUs(i, f) /\ f.type = "IPv4" /\ Parses(f.payload)
  <2>1. f.dst = p /\ f.payload \in Dgram
    BY <1>1, <1>3, DataFrameIs, TopologyAssumption DEF ForUs
  <2> DEFINE received == Append(i.datagrams_received, f.payload)
             new == [i EXCEPT !.datagrams_received = received]
  <2>2. RecvFrame(i, f) = Outcome(new, <<>>)
    BY <1>3 DEF RecvFrame
  <2>3. received \in Seq(Dgram)
    BY <1>1, <2>1
  <2> HIDE DEF received
  <2>4. GoodIface(new, p) /\ new.datagrams_received = received /\ new.pending = i.pending
    BY <2>3, NewInbox
  <2>5. j = new /\ frames = <<>>
    BY <2>2 DEF Outcome
  <2> HIDE DEF new
  <2>6. <<>> \in Seq(AnyFrame)
    OBVIOUS
  <2>7. Kept(i, j, frames, f, p)
    BY <1>3, <2>1, <2>4, <2>5 DEF Kept, Waits, received
  <2> QED
    BY <2>4, <2>5, <2>6, <2>7
<1>4. CASE ForUs(i, f) /\ f.type = "ARP"
  <2>1. f.payload \in News /\ AddressOf[f.payload.sender_mac] = f.payload.sender_ip
    BY <1>4, DataFrameIs
  <2>2. RecvFrame(i, f) = RecvArp(i, f.payload)
    BY <1>4 DEF RecvFrame
  <2> QED
    BY <2>1, <2>2, ArpIs
<1>5. \/ RecvFrame(i, f) = Outcome(i, <<>>)
      \/ ForUs(i, f) /\ f.type = "IPv4" /\ Parses(f.payload)
      \/ ForUs(i, f) /\ f.type = "ARP"
  BY DEF RecvFrame
<1> QED
  BY <1>2, <1>3, <1>4, <1>5

(* What tick does to a queue: it is kept or it goes. *)
LEMMA TickIs ==
  ASSUME NEW p \in Port, NEW i, GoodIface(i, p), NEW j, j = TickInterface(i, 1)
  PROVE  /\ GoodIface(j, p) /\ j.datagrams_received = i.datagrams_received
         /\ \A ip \in IP : Waits(j, ip) = Waits(i, ip) \/ Waits(j, ip) = <<>>
<1> DEFINE table == TableTick(i.arp_table, 1)
           pending == QueueTick(i.pending, 1)
           aged == [i EXCEPT !.arp_table = table]
<1>1. j = [aged EXCEPT !.pending = pending]
  BY DEF TickInterface, GoodIface
<1>2. GoodCache(i.arp_table) /\ i.pending \in [IP -> Queue]
  BY DEF GoodIface
<1>3. GoodCache(table)
  <2>1. NoEntry \in CacheEntry /\ NoEntry.mac = NoMac
    BY DEF NoEntry, CacheEntry
  <2> DEFINE older(a) == [i.arp_table[a] EXCEPT !.elapsed = @ + 1]
  <2>2. \A a \in IP : older(a) \in CacheEntry /\ older(a).mac = i.arp_table[a].mac
    BY <1>2 DEF GoodCache, CacheEntry
  <2>3. /\ table = [a \in IP |-> table[a]]
        /\ \A a \in IP : table[a] = NoEntry \/ table[a] = older(a)
    BY DEF TableTick
  <2> HIDE DEF older, table
  <2>4. table \in [IP -> CacheEntry]
    BY <2>1, <2>2, <2>3
  <2>5. \A a \in IP : table[a].mac # NoMac => AddressOf[table[a].mac] = a
    BY <1>2, <2>1, <2>2, <2>3 DEF GoodCache
  <2> QED
    BY <2>4, <2>5 DEF GoodCache
<1>4. /\ pending \in [IP -> Queue]
      /\ \A a \in IP : pending[a].dgrams = i.pending[a].dgrams \/ pending[a].dgrams = <<>>
  <2>1. NoQueue \in Queue /\ NoQueue.dgrams = <<>>
    BY DEF NoQueue, Queue
  <2> DEFINE older(a) == [i.pending[a] EXCEPT !.elapsed = @ + 1]
  <2>2. \A a \in IP : older(a) \in Queue /\ older(a).dgrams = i.pending[a].dgrams
    BY <1>2 DEF Queue
  <2>3. /\ pending = [a \in IP |-> pending[a]]
        /\ \A a \in IP : pending[a] = NoQueue \/ pending[a] = older(a)
    BY DEF QueueTick
  <2> HIDE DEF older, pending
  <2>4. pending \in [IP -> Queue]
    BY <2>1, <2>2, <2>3
  <2> QED
    BY <2>1, <2>2, <2>3, <2>4
<1> HIDE DEF table, pending
<1>5. /\ GoodIface(aged, p) /\ aged.pending = i.pending
      /\ aged.datagrams_received = i.datagrams_received
  BY <1>3, NewCache
<1> HIDE DEF aged
<1>6. /\ GoodIface(j, p) /\ j.pending = pending
      /\ j.datagrams_received = i.datagrams_received
  BY <1>1, <1>4, <1>5, NewQueues
<1> QED
  BY <1>4, <1>6 DEF Waits

-----------------------------------------------------------------------------
(* Where each datagram is.  loc gives every datagram one place; whatever   *)
(* is found on a wire at the port it is for, in a queue, in an inbox, at a *)
(* host, or in a frame that is being transmitted, is found at its place.   *)
(* A datagram that nobody has is "in hand".                                *)

At(kind, p, ip, n) == <<kind, p, ip, n>>

(* Of the first s datagrams, d is at x, and its age goes with its hops. *)
IsAt(loc, H, s, d, x, age) == d.id \in 1 .. s /\ loc[d.id] = x /\ d.ttl + H[d.id] = age

OnWires(loc, W, H, s) ==
    \A q \in Port : \A k \in 1 .. Len(W[q]) :
        W[q][k].type = "IPv4" /\ W[q][k].dst = q =>
            /\ IsAt(loc, H, s, W[q][k].payload, At("wire", q, 0, k), InitialTTL + 1)
            /\ q \in Hosts => W[q][k].payload.dst = AddressOf[q]

InQueues(loc, I, H, s) ==
    \A p \in Port, ip \in IP : \A k \in 1 .. Len(Waits(I[p], ip)) :
        /\ IsAt(loc, H, s, Waits(I[p], ip)[k], At("queue", p, ip, k), InitialTTL)
        /\ Waits(I[p], ip)[k].ttl >= 1
        /\ ip \in HostAddresses => Waits(I[p], ip)[k].dst = ip

InInboxes(loc, I, H, s) ==
    \A p \in Port : \A k \in 1 .. Len(I[p].datagrams_received) :
        /\ IsAt(loc, H, s, I[p].datagrams_received[k], At("in", p, 0, k), InitialTTL + 1)
        /\ p \in Hosts => I[p].datagrams_received[k].dst = AddressOf[p]

AtHosts(loc, A, H, s) ==
    \A h \in Hosts : \A k \in 1 .. Len(A[h]) :
        /\ IsAt(loc, H, s, A[h][k], At("out", h, 0, k), InitialTTL + 1)
        /\ A[h][k].dst = AddressOf[h]

InFrames(loc, F, H, s) ==
    \A p \in Port : \A k \in 1 .. Len(F[p]) :
        F[p][k].type = "IPv4" =>
            /\ IsAt(loc, H, s, F[p][k].payload, At("frame", p, 0, k), InitialTTL)
            /\ F[p][k].payload.ttl >= 1
            /\ F[p][k].dst \in Hosts => F[p][k].payload.dst = AddressOf[F[p][k].dst]

(* Interfaces I, wires W, frames being transmitted F, what hosts have, A. *)
Network(I, W, F, A) ==
    /\ I = [p \in Port |-> I[p]] /\ \A p \in Port : GoodIface(I[p], p)
    /\ W \in [Port -> Seq(AnyFrame)] /\ F \in [Port -> Seq(AnyFrame)]
    /\ A \in [Hosts -> Seq(Dgram)]

Tracks(loc, I, W, F, A, H, s) ==
    /\ Network(I, W, F, A)
    /\ OnWires(loc, W, H, s) /\ InQueues(loc, I, H, s) /\ InInboxes(loc, I, H, s)
    /\ AtHosts(loc, A, H, s) /\ InFrames(loc, F, H, s)

Quiet == [p \in Port |-> <<>>]

(* Places are equal when their parts are. *)
LEMMA AtIs ==
  ASSUME NEW a, NEW b, NEW c, NEW d, NEW a2, NEW b2, NEW c2, NEW d2
  PROVE  At(a, b, c, d) = At(a2, b2, c2, d2) <=> a = a2 /\ b = b2 /\ c = c2 /\ d = d2
BY DEF At

(* When no frame is about to be put on a wire there is nothing to track. *)
LEMMA QuietNetwork ==
  ASSUME NEW loc, NEW H, NEW s
  PROVE  /\ Quiet \in [Port -> Seq(AnyFrame)] /\ \A p \in Port : Quiet[p] = <<>> /\ Len(Quiet[p]) = 0
         /\ InFrames(loc, Quiet, H, s)
<1>1. Quiet \in [Port -> Seq(AnyFrame)]
  BY DEF Quiet
<1>2. \A p \in Port : Quiet[p] = <<>>
  BY DEF Quiet
<1>3. Len(<<>>) = 0
  OBVIOUS
<1>4. \A p \in Port : \A k \in 1 .. Len(Quiet[p]) : FALSE
  BY <1>2, <1>3
<1> QED
  BY <1>1, <1>2, <1>3, <1>4 DEF InFrames

(* Only datagrams at the places of that kind in R get another place. *)
Moves(loc, new, kind, R) ==
    \A y \in Nat : new[y] = loc[y] \/ \E p, ip, n : <<p, ip>> \in R /\ loc[y] = At(kind, p, ip, n)

(* A datagram at another place stays there. *)
LEMMA Unmoved ==
  ASSUME NEW loc, NEW new, NEW kind, NEW R, Moves(loc, new, kind, R), NEW s \in Nat, NEW H,
         NEW d, NEW kind2, NEW p, NEW ip, NEW k, NEW age,
         ~(kind2 = kind /\ <<p, ip>> \in R), IsAt(loc, H, s, d, At(kind2, p, ip, k), age)
  PROVE  IsAt(new, H, s, d, At(kind2, p, ip, k), age)
<1>1. d.id \in Nat /\ loc[d.id] = At(kind2, p, ip, k)
  BY DEF IsAt
<1>2. ~\E q, a, n : <<q, a>> \in R /\ loc[d.id] = At(kind, q, a, n)
  <2> SUFFICES ASSUME NEW q, NEW a, NEW n, <<q, a>> \in R, loc[d.id] = At(kind, q, a, n)
               PROVE  FALSE
    OBVIOUS
  <2>1. At(kind, q, a, n) = At(kind2, p, ip, k)
    BY <1>1
  <2>2. kind = kind2 /\ q = p /\ a = ip
    BY ONLY <2>1 DEF At
  <2> QED
    BY <2>2
<1>3. new[d.id] = loc[d.id]
  BY <1>1, <1>2 DEF Moves
<1> QED
  BY <1>3 DEF IsAt

(* Places of another kind hold what they held. *)
LEMMA Untouched ==
  ASSUME NEW loc, NEW new, NEW kind, NEW R, Moves(loc, new, kind, R), NEW s \in Nat,
         NEW I, NEW W, NEW F, NEW A, NEW H
  PROVE  /\ kind # "wire" /\ OnWires(loc, W, H, s) => OnWires(new, W, H, s)
         /\ kind # "queue" /\ InQueues(loc, I, H, s) => InQueues(new, I, H, s)
         /\ kind # "in" /\ InInboxes(loc, I, H, s) => InInboxes(new, I, H, s)
         /\ kind # "out" /\ AtHosts(loc, A, H, s) => AtHosts(new, A, H, s)
         /\ kind # "frame" /\ InFrames(loc, F, H, s) => InFrames(new, F, H, s)
<1>1. ASSUME NEW d, NEW kind2, NEW p, NEW ip, NEW k, NEW age, kind2 # kind,
             IsAt(loc, H, s, d, At(kind2, p, ip, k), age)
      PROVE  IsAt(new, H, s, d, At(kind2, p, ip, k), age)
  BY <1>1, Unmoved
<1>2. kind # "wire" /\ OnWires(loc, W, H, s) => OnWires(new, W, H, s)
  BY <1>1 DEF OnWires
<1>3. kind # "queue" /\ InQueues(loc, I, H, s) => InQueues(new, I, H, s)
  BY <1>1 DEF InQueues
<1>4. kind # "in" /\ InInboxes(loc, I, H, s) => InInboxes(new, I, H, s)
  BY <1>1 DEF InInboxes
<1>5. kind # "out" /\ AtHosts(loc, A, H, s) => AtHosts(new, A, H, s)
  BY <1>1 DEF AtHosts
<1>6. kind # "frame" /\ InFrames(loc, F, H, s) => InFrames(new, F, H, s)
  BY <1>1 DEF InFrames
<1> QED
  BY <1>2, <1>3, <1>4, <1>5, <1>6

(* Another place for a datagram in hand. *)
Put(loc, x, z) == [y \in Nat |-> IF y = x THEN z ELSE loc[y]]

(* A datagram that is in hand may be given any place. *)
LEMMA Relabelled ==
  ASSUME NEW loc, NEW I, NEW W, NEW F, NEW A, NEW H, NEW s \in Nat, Tracks(loc, I, W, F, A, H, s),
         NEW x \in Nat, NEW a, NEW b, NEW c, loc[x] = At("hand", a, b, c),
         NEW z
  PROVE  /\ Tracks(Put(loc, x, z), I, W, F, A, H, s) /\ Put(loc, x, z)[x] = z
         /\ \A y \in Nat : y # x => Put(loc, x, z)[y] = loc[y]
<1> DEFINE new == Put(loc, x, z)
<1>1. new[x] = z /\ \A y \in Nat : y # x => new[y] = loc[y]
  BY DEF Put
<1> HIDE DEF new
<1>2. Moves(loc, new, "hand", {<<a, b>>})
  BY <1>1 DEF Moves
<1>3. /\ OnWires(new, W, H, s) /\ InQueues(new, I, H, s) /\ InInboxes(new, I, H, s)
      /\ AtHosts(new, A, H, s) /\ InFrames(new, F, H, s)
  BY <1>2, Untouched DEF Tracks
<1>8. Tracks(new, I, W, F, A, H, s)
  BY <1>3 DEF Tracks
<1> QED
  BY <1>1, <1>8 DEF new

With(I, p, j) == [I EXCEPT ![p] = j]

(* One interface of the network is replaced. *)
LEMMA Replaced ==
  ASSUME NEW I, NEW W, NEW F, NEW A, Network(I, W, F, A), NEW p \in Port, NEW j, GoodIface(j, p)
  PROVE  /\ Network(With(I, p, j), W, F, A) /\ With(I, p, j)[p] = j
         /\ \A q \in Port : q # p => With(I, p, j)[q] = I[q]
<1> DEFINE J == With(I, p, j)
<1>1. I = [q \in Port |-> I[q]]
  BY DEF Network
<1>2. J = [q \in Port |-> IF q = p THEN j ELSE I[q]]
  BY <1>1 DEF With
<1> HIDE DEF J
<1>3. J = [q \in Port |-> J[q]] /\ J[p] = j /\ \A q \in Port : q # p => J[q] = I[q]
  BY <1>2
<1>4. Network(J, W, F, A)
  BY <1>3 DEF Network
<1> QED
  BY <1>3, <1>4 DEF J

(* A datagram in hand is sent. *)
LEMMA SendTracks ==
  ASSUME NEW loc, NEW I, NEW W, NEW F, NEW A, NEW H, NEW s \in Nat, Tracks(loc, I, W, F, A, H, s),
         NEW p \in Port, NEW d \in Dgram, NEW ip \in IP, NEW n,
         IsAt(loc, H, s, d, At("hand", 0, 0, n), InitialTTL), d.ttl >= 1,
         ip \in HostAddresses => d.dst = ip,
         NEW j, j = SendDatagram(I[p], d, ip).interface,
         NEW frames, frames = SendDatagram(I[p], d, ip).frames,
         NEW J, J = With(I, p, j), NEW G, G = With(F, p, F[p] \o frames)
  PROVE  \E new : /\ Tracks(new, J, W, G, A, H, s)
                  /\ \A y \in Nat : y # d.id => new[y] = loc[y]
<1>1. GoodIface(I[p], p) /\ Network(I, W, F, A) /\ F[p] \in Seq(AnyFrame) /\ F \in [Port -> Seq(AnyFrame)]
  BY DEF Tracks, Network
<1>2. /\ GoodIface(j, p) /\ j.datagrams_received = I[p].datagrams_received
      /\ frames \in Seq(AnyFrame)
      /\ SentAtOnce(I[p], j, frames, d, ip) \/ SentLater(I[p], j, frames, d, ip)
  BY <1>1, SendIs
<1>3. Network(J, W, F, A) /\ J[p] = j /\ \A q \in Port : q # p => J[q] = I[q]
  BY <1>1, <1>2, Replaced
<1> DEFINE a == Len(F[p])
           joined == F[p] \o frames
<1>4. /\ joined \in Seq(AnyFrame) /\ Len(joined) = a + Len(frames)
      /\ \A k \in 1 .. a : joined[k] = F[p][k]
      /\ \A k \in 1 .. Len(frames) : joined[a + k] = frames[k]
  BY <1>1, <1>2, Joined
<1>5. a \in Nat /\ Len(frames) \in Nat
  BY <1>1, <1>2
<1>6. G = [F EXCEPT ![p] = joined]
  BY DEF With
<1> HIDE DEF joined
<1>7. /\ G \in [Port -> Seq(AnyFrame)] /\ G[p] = joined
      /\ \A q \in Port : q # p => G[q] = F[q]
  BY <1>1, <1>4, <1>6
<1>8. Network(J, W, G, A)
  BY <1>3, <1>7 DEF Network
<1>9. d.id \in Nat /\ loc[d.id] = At("hand", 0, 0, n) /\ d.id \in 1 .. s
      /\ d.ttl + H[d.id] = InitialTTL
  BY DEF IsAt
<1>13. \A k \in 1 .. Len(G[p]) : k <= a => k \in 1 .. Len(F[p]) /\ G[p][k] = F[p][k]
  <2> SUFFICES ASSUME NEW k \in 1 .. Len(G[p]), k <= a
               PROVE  k \in 1 .. Len(F[p]) /\ G[p][k] = F[p][k]
    OBVIOUS
  <2>1. k \in 1 .. a
    BY <1>5
  <2>2. joined[k] = F[p][k]
    BY <1>4, <2>1
  <2> QED
    BY <1>7, <2>1, <2>2
<1> HIDE DEF a
<1>10. ASSUME NEW new, InInboxes(new, I, H, s) PROVE InInboxes(new, J, H, s)
  <2>1. \A q \in Port : J[q].datagrams_received = I[q].datagrams_received
    BY <1>2, <1>3
  <2> QED
    BY <1>10, <2>1 DEF InInboxes
<1>11. CASE SentAtOnce(I[p], j, frames, d, ip)
  <2> DEFINE z == At("frame", p, 0, a + 1)
             new == Put(loc, d.id, z)
  <2>1. /\ Tracks(new, I, W, F, A, H, s) /\ new[d.id] = z
        /\ \A y \in Nat : y # d.id => new[y] = loc[y]
    <3> HIDE DEF z
    <3> QED
      BY <1>9, Relabelled
  <2> HIDE DEF new
  <2>2. InQueues(new, J, H, s)
    <3>1. \A q \in Port, b \in IP : Waits(J[q], b) = Waits(I[q], b)
      BY <1>3, <1>11 DEF SentAtOnce
    <3>2. InQueues(new, I, H, s)
      BY <2>1 DEF Tracks
    <3> QED
      BY <3>1, <3>2 DEF InQueues
  <2>3. InFrames(new, G, H, s)
    <3> SUFFICES ASSUME NEW q \in Port, NEW k \in 1 .. Len(G[q]), G[q][k].type = "IPv4"
                 PROVE  /\ IsAt(new, H, s, G[q][k].payload, At("frame", q, 0, k), InitialTTL)
                        /\ G[q][k].payload.ttl >= 1
                        /\ G[q][k].dst \in Hosts => G[q][k].payload.dst = AddressOf[G[q][k].dst]
      BY DEF InFrames
    <3>1. InFrames(new, F, H, s)
      BY <2>1 DEF Tracks
    <3>2. CASE q # p
      <4>1. G[q] = F[q]
        BY <1>7, <3>2
      <4> QED
        BY <3>1, <4>1 DEF InFrames
    <3>3. CASE q = p /\ k <= a
      <4>1. k \in 1 .. Len(F[q]) /\ G[q][k] = F[q][k]
        BY <1>13, <3>3
      <4> QED
        BY <3>1, <4>1 DEF InFrames
    <3>4. CASE q = p /\ ~(k <= a)
      <4>1. Len(frames) = 1
        BY <1>11 DEF SentAtOnce
      <4>2. k = a + 1
        BY <1>4, <1>5, <1>7, <3>4, <4>1
      <4>3. G[q][k] = frames[1]
        BY <1>4, <1>7, <3>4, <4>1, <4>2
      <4>4. /\ frames[1].payload = d /\ AddressOf[frames[1].dst] = ip
            /\ frames[1].dst \in Hosts => ip \in HostAddresses
        BY <1>11 DEF SentAtOnce, HostAddresses
      <4>5. IsAt(new, H, s, d, At("frame", q, 0, k), InitialTTL)
        BY <1>9, <2>1, <3>4, <4>2 DEF IsAt
      <4> QED
        BY <4>3, <4>4, <4>5
    <3> QED
      BY <3>2, <3>3, <3>4
  <2>4. Tracks(new, J, W, G, A, H, s)
    BY <1>8, <1>10, <2>1, <2>2, <2>3 DEF Tracks
  <2> QED
    BY <2>1, <2>4
<1>12. CASE SentLater(I[p], j, frames, d, ip)
  <2> DEFINE old == Waits(I[p], ip)
             z == At("queue", p, ip, Len(old) + 1)
             new == Put(loc, d.id, z)
  <2>0. old \in Seq(Dgram) /\ Len(old) \in Nat
    BY <1>1 DEF GoodIface, Queue, Waits
  <2> HIDE DEF old
  <2>1. /\ Tracks(new, I, W, F, A, H, s) /\ new[d.id] = z
        /\ \A y \in Nat : y # d.id => new[y] = loc[y]
    <3> HIDE DEF z
    <3> QED
      BY <1>9, Relabelled
  <2> HIDE DEF new
  <2>2. InQueues(new, J, H, s)
    <3> SUFFICES ASSUME NEW q \in Port, NEW b \in IP, NEW k \in 1 .. Len(Waits(J[q], b))
                 PROVE  /\ IsAt(new, H, s, Waits(J[q], b)[k], At("queue", q, b, k), InitialTTL)
                        /\ Waits(J[q], b)[k].ttl >= 1
                        /\ b \in HostAddresses => Waits(J[q], b)[k].dst = b
      BY DEF InQueues
    <3>1. InQueues(new, I, H, s)
      BY <2>1 DEF Tracks
    <3>2. Waits(J[p], ip) = Append(old, d) /\ \A c \in IP : c # ip => Waits(J[p], c) = Waits(I[p], c)
      BY <1>3, <1>12 DEF SentLater, old
    <3>3. /\ Len(Append(old, d)) = Len(old) + 1 /\ Append(old, d)[Len(old) + 1] = d
          /\ \A l \in 1 .. Len(old) : Append(old, d)[l] = old[l]
      BY <2>0
    <3>4. CASE q # p \/ b # ip
      <4>1. Waits(J[q], b) = Waits(I[q], b)
        BY <1>3, <3>2, <3>4
      <4> QED
        BY <3>1, <4>1 DEF InQueues
    <3>5. CASE q = p /\ b = ip /\ k <= Len(old)
      <4>1. k \in 1 .. Len(Waits(I[q], b)) /\ Waits(J[q], b)[k] = Waits(I[q], b)[k]
        BY <2>0, <3>2, <3>3, <3>5 DEF old
      <4> QED
        BY <3>1, <4>1 DEF InQueues
    <3>6. CASE q = p /\ b = ip /\ ~(k <= Len(old))
      <4>1. k = Len(old) + 1
        BY <2>0, <3>2, <3>3, <3>6
      <4>2. Waits(J[q], b)[k] = d
        BY <3>2, <3>3, <3>6, <4>1
      <4>3. IsAt(new, H, s, d, At("queue", q, b, k), InitialTTL)
        BY <1>9, <2>1, <3>6, <4>1 DEF IsAt
      <4> QED
        BY <3>6, <4>2, <4>3
    <3> QED
      BY <3>4, <3>5, <3>6
  <2>3. InFrames(new, G, H, s)
    <3>1. InFrames(new, F, H, s)
      BY <2>1 DEF Tracks
    <3> SUFFICES ASSUME NEW q \in Port, NEW k \in 1 .. Len(G[q]), G[q][k].type = "IPv4"
                 PROVE  /\ IsAt(new, H, s, G[q][k].payload, At("frame", q, 0, k), InitialTTL)
                        /\ G[q][k].payload.ttl >= 1
                        /\ G[q][k].dst \in Hosts => G[q][k].payload.dst = AddressOf[G[q][k].dst]
      BY DEF InFrames
    <3>2. q # p => k \in 1 .. Len(F[q]) /\ G[q][k] = F[q][k]
      BY <1>7
    <3>3. q = p /\ k <= a => k \in 1 .. Len(F[q]) /\ G[q][k] = F[q][k]
      BY <1>13
    <3>4. ~(q = p /\ ~(k <= a))
      <4> SUFFICES ASSUME q = p, ~(k <= a) PROVE FALSE
        OBVIOUS
      <4>1. k - a \in 1 .. Len(frames) /\ a + (k - a) = k
        BY <1>4, <1>5, <1>7
      <4>2. G[q][k] = frames[k - a]
        BY <1>4, <1>7, <4>1
      <4> QED
        BY <1>12, <4>1, <4>2 DEF SentLater
    <3>5. k \in 1 .. Len(F[q]) /\ G[q][k] = F[q][k]
      BY <3>2, <3>3, <3>4
    <3> QED
      BY <3>1, <3>5 DEF InFrames
  <2>4. Tracks(new, J, W, G, A, H, s)
    BY <1>8, <1>10, <2>1, <2>2, <2>3 DEF Tracks
  <2> QED
    BY <2>1, <2>4
<1> QED
  BY <1>2, <1>11, <1>12

(* The first frame of a wire is taken off; what it carries is in hand. *)
LEMMA ShiftTracks ==
  ASSUME NEW loc, NEW I, NEW W, NEW F, NEW A, NEW H, NEW s \in Nat, Tracks(loc, I, W, F, A, H, s),
         NEW p \in Port, W[p] # <<>>, NEW V, V = With(W, p, Tail(W[p]))
  PROVE  \E new : /\ Tracks(new, I, V, F, A, H, s)
                  /\ W[p][1].type = "IPv4" /\ W[p][1].dst = p =>
                        IsAt(new, H, s, W[p][1].payload, At("hand", 0, 0, 0), InitialTTL + 1)
<1> DEFINE onwire(y) == loc[y] = At("wire", p, 0, loc[y][4]) /\ loc[y][4] \in Nat
           new == [y \in Nat |-> IF ~onwire(y) THEN loc[y]
                                 ELSE IF loc[y][4] = 1 THEN At("hand", 0, 0, 0)
                                 ELSE At("wire", p, 0, loc[y][4] - 1)]
<1>1. /\ W \in [Port -> Seq(AnyFrame)] /\ W[p] \in Seq(AnyFrame) /\ Network(I, W, F, A)
  BY DEF Tracks, Network
<1> DEFINE rest == Tail(W[p])
<1>2. /\ rest \in Seq(AnyFrame) /\ Len(W[p]) \in Nat /\ Len(rest) = Len(W[p]) - 1 /\ Len(W[p]) >= 1
      /\ \A k \in 1 .. Len(rest) : rest[k] = W[p][k + 1]
  BY <1>1
<1> HIDE DEF rest
<1>3. V \in [Port -> Seq(AnyFrame)] /\ V[p] = rest /\ \A q \in Port : q # p => V[q] = W[q]
  BY <1>1, <1>2 DEF With, rest
<1>4. Network(I, V, F, A)
  BY <1>1, <1>3 DEF Network
<1>5. \A y \in Nat, k \in Nat : loc[y] = At("wire", p, 0, k) =>
          new[y] = IF k = 1 THEN At("hand", 0, 0, 0) ELSE At("wire", p, 0, k - 1)
  <2> SUFFICES ASSUME NEW y \in Nat, NEW k \in Nat, loc[y] = At("wire", p, 0, k)
               PROVE  new[y] = IF k = 1 THEN At("hand", 0, 0, 0) ELSE At("wire", p, 0, k - 1)
    OBVIOUS
  <2>1. loc[y][4] = k
    BY DEF At
  <2>2. onwire(y)
    BY <2>1
  <2> QED
    BY <2>1, <2>2
<1>6. Moves(loc, new, "wire", {<<p, 0>>})
  <2> SUFFICES ASSUME NEW y \in Nat
               PROVE  new[y] = loc[y] \/ \E q, ip, n : <<q, ip>> \in {<<p, 0>>} /\ loc[y] = At("wire", q, ip, n)
    BY DEF Moves
  <2>1. ~onwire(y) => new[y] = loc[y]
    OBVIOUS
  <2>2. onwire(y) => \E q, ip, n : <<q, ip>> \in {<<p, 0>>} /\ loc[y] = At("wire", q, ip, n)
    OBVIOUS
  <2> QED
    BY <2>1, <2>2
<1> DEFINE R == {<<p, 0>>}
<1> HIDE DEF new, onwire, R
<1>a. Moves(loc, new, "wire", R)
  BY <1>6 DEF R
<1>b. "wire" # "queue" /\ "wire" # "in" /\ "wire" # "out" /\ "wire" # "frame"
  OBVIOUS
<1>7. /\ InQueues(new, I, H, s) /\ InInboxes(new, I, H, s)
      /\ AtHosts(new, A, H, s) /\ InFrames(new, F, H, s)
  <2>1. /\ InQueues(loc, I, H, s) /\ InInboxes(loc, I, H, s)
        /\ AtHosts(loc, A, H, s) /\ InFrames(loc, F, H, s)
    BY DEF Tracks
  <2> QED
    BY <1>a, <1>b, <2>1, Untouched
<1>8. OnWires(loc, W, H, s)
  BY DEF Tracks
<1>9. OnWires(new, V, H, s)
  <2> SUFFICES ASSUME NEW q \in Port, NEW k \in 1 .. Len(V[q]), V[q][k].type = "IPv4", V[q][k].dst = q
               PROVE  /\ IsAt(new, H, s, V[q][k].payload, At("wire", q, 0, k), InitialTTL + 1)
                      /\ q \in Hosts => V[q][k].payload.dst = AddressOf[q]
    BY DEF OnWires
  <2>1. CASE q # p
    <3>1. V[q] = W[q]
      BY <1>3, <2>1
    <3>2. /\ IsAt(loc, H, s, V[q][k].payload, At("wire", q, 0, k), InitialTTL + 1)
          /\ q \in Hosts => V[q][k].payload.dst = AddressOf[q]
      BY <1>8, <3>1 DEF OnWires
    <3>3. ~("wire" = "wire" /\ <<q, 0>> \in R)
      BY <2>1 DEF R
    <3>4. IsAt(new, H, s, V[q][k].payload, At("wire", q, 0, k), InitialTTL + 1)
      BY <1>a, <3>2, <3>3, Unmoved
    <3> QED
      BY <3>2, <3>4
  <2>2. CASE q = p
    <3>1. k \in 1 .. Len(rest) /\ V[q][k] = rest[k]
      BY <1>3, <2>2
    <3>2. V[q][k] = W[p][k + 1] /\ k + 1 \in 1 .. Len(W[p]) /\ k + 1 # 1 /\ k + 1 \in Nat /\ (k + 1) - 1 = k
      BY <1>2, <3>1
    <3>3. /\ IsAt(loc, H, s, V[q][k].payload, At("wire", p, 0, k + 1), InitialTTL + 1)
          /\ p \in Hosts => V[q][k].payload.dst = AddressOf[p]
      BY <1>8, <2>2, <3>2 DEF OnWires
    <3>4. V[q][k].payload.id \in Nat /\ loc[V[q][k].payload.id] = At("wire", p, 0, k + 1)
      BY <3>3 DEF IsAt
    <3>5. new[V[q][k].payload.id] = At("wire", p, 0, k)
      BY <1>5, <3>2, <3>4
    <3> QED
      BY <2>2, <3>3, <3>5 DEF IsAt
  <2> QED
    BY <2>1, <2>2
<1>10. ASSUME W[p][1].type = "IPv4", W[p][1].dst = p
       PROVE  IsAt(new, H, s, W[p][1].payload, At("hand", 0, 0, 0), InitialTTL + 1)
  <2>1. 1 \in 1 .. Len(W[p])
    BY <1>2
  <2>2. IsAt(loc, H, s, W[p][1].payload, At("wire", p, 0, 1), InitialTTL + 1)
    BY <1>8, <1>10, <2>1 DEF OnWires
  <2>3. W[p][1].payload.id \in Nat /\ loc[W[p][1].payload.id] = At("wire", p, 0, 1)
    BY <2>2 DEF IsAt
  <2>4. new[W[p][1].payload.id] = At("hand", 0, 0, 0)
    BY <1>5, <2>3
  <2> QED
    BY <2>2, <2>4 DEF IsAt
<1>11. Tracks(new, I, V, F, A, H, s)
  BY <1>4, <1>7, <1>9 DEF Tracks
<1> QED
  BY <1>10, <1>11

(* An interface ignores a frame. *)
LEMMA IgnoreTracks ==
  ASSUME NEW loc, NEW I, NEW W, NEW A, NEW H, NEW s \in Nat, Tracks(loc, I, W, Quiet, A, H, s),
         NEW p \in Port, NEW j, GoodIface(j, p), NEW frames \in Seq(AnyFrame), Ignored(I[p], j, frames)
  PROVE  Tracks(loc, With(I, p, j), W, Only(p, frames), A, H, s)
<1> DEFINE J == With(I, p, j)
           G == Only(p, frames)
<1>1. Network(I, W, Quiet, A)
  BY DEF Tracks
<1>2. Network(J, W, Quiet, A) /\ J[p] = j /\ \A q \in Port : q # p => J[q] = I[q]
  BY <1>1, Replaced
<1>3. G \in [Port -> Seq(AnyFrame)] /\ G[p] = frames /\ \A q \in Port : q # p => G[q] = <<>>
  BY DEF Only
<1> HIDE DEF J, G
<1>4. Network(J, W, G, A)
  BY <1>2, <1>3 DEF Network
<1>5. \A q \in Port, a \in IP : Waits(J[q], a) = Waits(I[q], a)
  BY <1>2 DEF Ignored
<1>6. \A q \in Port : J[q].datagrams_received = I[q].datagrams_received
  BY <1>2 DEF Ignored
<1>7. InQueues(loc, J, H, s)
  <2>1. InQueues(loc, I, H, s)
    BY DEF Tracks
  <2> QED
    BY <1>5, <2>1 DEF InQueues
<1>8. InInboxes(loc, J, H, s)
  <2>1. InInboxes(loc, I, H, s)
    BY DEF Tracks
  <2> QED
    BY <1>6, <2>1 DEF InInboxes
<1>9. InFrames(loc, G, H, s)
  <2>1. \A q \in Port : \A k \in 1 .. Len(G[q]) : G[q][k].type # "IPv4"
    <3>1. \A k \in 1 .. Len(<<>>) : FALSE
      OBVIOUS
    <3> QED
      BY <1>3, <3>1 DEF Ignored
  <2> QED
    BY <2>1 DEF InFrames
<1>10. Tracks(loc, J, W, G, A, H, s)
  BY <1>4, <1>7, <1>8, <1>9 DEF Tracks
<1> QED
  BY <1>10 DEF J, G

(* An interface keeps a datagram that was in hand. *)
LEMMA KeepTracks ==
  ASSUME NEW loc, NEW I, NEW W, NEW A, NEW H, NEW s \in Nat, Tracks(loc, I, W, Quiet, A, H, s),
         NEW p \in Port, NEW j, GoodIface(j, p), NEW frames, NEW f, Kept(I[p], j, frames, f, p),
         IsAt(loc, H, s, f.payload, At("hand", 0, 0, 0), InitialTTL + 1),
         f.payload \in Dgram, p \in Hosts => f.payload.dst = AddressOf[p]
  PROVE  \E new : Tracks(new, With(I, p, j), W, Only(p, frames), A, H, s)
<1> DEFINE J == With(I, p, j)
           G == Only(p, frames)
           d == f.payload
           old == I[p].datagrams_received
           z == At("in", p, 0, Len(old) + 1)
           new == Put(loc, d.id, z)
<1>1. Network(I, W, Quiet, A)
  BY DEF Tracks
<1>2. Network(J, W, Quiet, A) /\ J[p] = j /\ \A q \in Port : q # p => J[q] = I[q]
  BY <1>1, Replaced
<1>3. G = Quiet
  BY DEF Kept, Only, Quiet
<1>4. d.id \in Nat /\ loc[d.id] = At("hand", 0, 0, 0)
  BY DEF IsAt
<1>5. old \in Seq(Dgram) /\ Len(old) \in Nat
  BY <1>1 DEF Network, GoodIface
<1>6. J[p].datagrams_received = Append(old, d)
  BY <1>2 DEF Kept
<1>7. /\ Len(Append(old, d)) = Len(old) + 1 /\ Append(old, d)[Len(old) + 1] = d
      /\ \A l \in 1 .. Len(old) : Append(old, d)[l] = old[l]
  BY <1>5
<1> HIDE DEF J, G, z
<1>8. Tracks(new, I, W, Quiet, A, H, s) /\ new[d.id] = z
  BY <1>4, Relabelled
<1> HIDE DEF new
<1>9. InQueues(new, J, H, s)
  <2>1. \A q \in Port, a \in IP : Waits(J[q], a) = Waits(I[q], a)
    BY <1>2 DEF Kept
  <2>2. InQueues(new, I, H, s)
    BY <1>8 DEF Tracks
  <2> QED
    BY <2>1, <2>2 DEF InQueues
<1>10. InInboxes(new, J, H, s)
  <2> SUFFICES ASSUME NEW q \in Port, NEW k \in 1 .. Len(J[q].datagrams_received)
               PROVE  /\ IsAt(new, H, s, J[q].datagrams_received[k], At("in", q, 0, k), InitialTTL + 1)
                      /\ q \in Hosts => J[q].datagrams_received[k].dst = AddressOf[q]
    BY DEF InInboxes
  <2>1. InInboxes(new, I, H, s)
    BY <1>8 DEF Tracks
  <2>2. CASE q # p
    <3>1. J[q] = I[q]
      BY <1>2, <2>2
    <3> QED
      BY <2>1, <3>1 DEF InInboxes
  <2>3. CASE q = p /\ k <= Len(old)
    <3>1. k \in 1 .. Len(old)
      BY <1>5, <2>3
    <3>2. J[q].datagrams_received[k] = I[q].datagrams_received[k] /\ k \in 1 .. Len(I[q].datagrams_received)
      BY <1>6, <1>7, <2>3, <3>1
    <3> QED
      BY <2>1, <3>2 DEF InInboxes
  <2>4. CASE q = p /\ ~(k <= Len(old))
    <3>1. k = Len(old) + 1
      BY <1>5, <1>6, <1>7, <2>4
    <3>2. J[q].datagrams_received[k] = d
      BY <1>6, <1>7, <2>4, <3>1
    <3>3. IsAt(new, H, s, d, At("in", q, 0, k), InitialTTL + 1)
      BY <1>8, <2>4, <3>1 DEF IsAt, z
    <3> QED
      BY <2>4, <3>2, <3>3
  <2> QED
    BY <2>2, <2>3, <2>4
<1>11. Tracks(new, J, W, Quiet, A, H, s)
  BY <1>2, <1>8, <1>9, <1>10 DEF Tracks
<1> QED
  BY <1>3, <1>11 DEF J, G

(* The datagrams ids[k], k in D, get the places to[k]. *)
Rehome(loc, D, ids, to) ==
    [y \in Nat |-> IF \E k \in D : ids[k] = y THEN to[CHOOSE k \in D : ids[k] = y] ELSE loc[y]]

(* Several datagrams of one kind of place get new places. *)
LEMMA Rehomed ==
  ASSUME NEW loc, NEW D, NEW ids, NEW to, NEW kind, NEW R,
         \A k \in D : ids[k] \in Nat,
         \A k, l \in D : ids[k] = ids[l] => k = l,
         \A k \in D : \E p, ip, n : <<p, ip>> \in R /\ loc[ids[k]] = At(kind, p, ip, n)
  PROVE  /\ \A k \in D : Rehome(loc, D, ids, to)[ids[k]] = to[k]
         /\ Moves(loc, Rehome(loc, D, ids, to), kind, R)
<1> DEFINE new == Rehome(loc, D, ids, to)
<1>1. \A y \in Nat : new[y] = IF \E k \in D : ids[k] = y THEN to[CHOOSE k \in D : ids[k] = y] ELSE loc[y]
  BY DEF Rehome
<1> HIDE DEF new
<1>2. \A k \in D : new[ids[k]] = to[k]
  <2> SUFFICES ASSUME NEW k \in D PROVE new[ids[k]] = to[k]
    OBVIOUS
  <2> DEFINE c == CHOOSE l \in D : ids[l] = ids[k]
  <2>1. c \in D /\ ids[c] = ids[k]
    OBVIOUS
  <2>2. c = k
    BY <2>1
  <2>3. new[ids[k]] = to[c]
    BY <1>1
  <2> QED
    BY <2>2, <2>3
<1>3. Moves(loc, new, kind, R)
  <2> SUFFICES ASSUME NEW y \in Nat
               PROVE  new[y] = loc[y] \/ \E p, ip, n : <<p, ip>> \in R /\ loc[y] = At(kind, p, ip, n)
    BY DEF Moves
  <2>1. CASE \E k \in D : ids[k] = y
    <3>1. PICK k \in D : ids[k] = y
      BY <2>1
    <3>2. \E p, ip, n : <<p, ip>> \in R /\ loc[ids[k]] = At(kind, p, ip, n)
      OBVIOUS
    <3> QED
      BY ONLY <3>1, <3>2
  <2>2. CASE ~\E k \in D : ids[k] = y
    BY <1>1, <2>2
  <2> QED
    BY <2>1, <2>2
<1> QED
  BY <1>2, <1>3 DEF new

(* A queue is released into frames. *)
LEMMA ReleaseTracks ==
  ASSUME NEW loc, NEW I, NEW W, NEW A, NEW H, NEW s \in Nat, Tracks(loc, I, W, Quiet, A, H, s),
         NEW p \in Port, NEW j, GoodIface(j, p), NEW frames \in Seq(AnyFrame),
         NEW ip \in IP, NEW m \in Port, NEW n \in Nat, Released(I[p], j, frames, ip, m, n)
  PROVE  \E new : Tracks(new, With(I, p, j), W, Only(p, frames), A, H, s)
<1> DEFINE J == With(I, p, j)
           G == Only(p, frames)
           w == Waits(I[p], ip)
           D == 1 .. Len(w)
           ids == [k \in D |-> w[k].id]
           to == [k \in D |-> At("frame", p, 0, n + k)]
           R == {<<p, ip>>}
           new == Rehome(loc, D, ids, to)
<1>1. Network(I, W, Quiet, A)
  BY DEF Tracks
<1>2. Network(J, W, Quiet, A) /\ J[p] = j /\ \A q \in Port : q # p => J[q] = I[q]
  BY <1>1, Replaced
<1>3. G \in [Port -> Seq(AnyFrame)] /\ G[p] = frames /\ \A q \in Port : q # p => G[q] = <<>>
  BY DEF Only
<1> HIDE DEF J, G
<1>4. Network(J, W, G, A)
  BY <1>2, <1>3 DEF Network
<1>5. InQueues(loc, I, H, s)
  BY DEF Tracks
<1>6. \A k \in D : /\ IsAt(loc, H, s, w[k], At("queue", p, ip, k), InitialTTL)
                   /\ w[k].ttl >= 1
                   /\ ip \in HostAddresses => w[k].dst = ip
  BY <1>5 DEF InQueues
<1>7. w \in Seq(Dgram) /\ Len(w) \in Nat
  BY <1>1 DEF Network, GoodIface, Queue, Waits
<1>8. \A k \in D : ids[k] = w[k].id /\ to[k] = At("frame", p, 0, n + k)
  OBVIOUS
<1> HIDE DEF w, ids, to
<1>9. \A k \in D : ids[k] \in Nat /\ loc[ids[k]] = At("queue", p, ip, k)
  BY <1>6, <1>8 DEF IsAt
<1>10. \A k, l \in D : ids[k] = ids[l] => k = l
  <2> SUFFICES ASSUME NEW k \in D, NEW l \in D, ids[k] = ids[l] PROVE k = l
    OBVIOUS
  <2>1. At("queue", p, ip, k) = At("queue", p, ip, l)
    BY <1>9
  <2> QED
    BY ONLY <2>1 DEF At
<1>11. \A k \in D : \E q, a, l : <<q, a>> \in R /\ loc[ids[k]] = At("queue", q, a, l)
  BY <1>9
<1> HIDE DEF D, R
<1>12. /\ \A k \in D : new[ids[k]] = to[k]
       /\ Moves(loc, new, "queue", R)
  BY <1>9, <1>10, <1>11, Rehomed
<1> HIDE DEF new
<1>13. OnWires(new, W, H, s) /\ InInboxes(new, I, H, s) /\ AtHosts(new, A, H, s)
  <2>1. OnWires(loc, W, H, s) /\ InInboxes(loc, I, H, s) /\ AtHosts(loc, A, H, s)
    BY DEF Tracks
  <2>2. "queue" # "wire" /\ "queue" # "in" /\ "queue" # "out"
    OBVIOUS
  <2> QED
    BY <1>12, <2>1, <2>2, Untouched
<1>14. InInboxes(new, J, H, s)
  <2>1. \A q \in Port : J[q].datagrams_received = I[q].datagrams_received
    BY <1>2 DEF Released
  <2> QED
    BY <1>13, <2>1 DEF InInboxes
<1>15. InQueues(new, J, H, s)
  <2> SUFFICES ASSUME NEW q \in Port, NEW b \in IP, NEW k \in 1 .. Len(Waits(J[q], b))
               PROVE  /\ IsAt(new, H, s, Waits(J[q], b)[k], At("queue", q, b, k), InitialTTL)
                      /\ Waits(J[q], b)[k].ttl >= 1
                      /\ b \in HostAddresses => Waits(J[q], b)[k].dst = b
    BY DEF InQueues
  <2>1. q # p \/ b # ip
    <3> SUFFICES ASSUME q = p, b = ip PROVE FALSE
      OBVIOUS
    <3>1. Waits(J[q], b) = <<>>
      BY <1>2 DEF Released
    <3>2. Len(<<>>) = 0
      OBVIOUS
    <3> QED
      BY <3>1, <3>2
  <2>2. Waits(J[q], b) = Waits(I[q], b)
    BY <1>2, <2>1 DEF Released
  <2>3. /\ IsAt(loc, H, s, Waits(J[q], b)[k], At("queue", q, b, k), InitialTTL)
        /\ Waits(J[q], b)[k].ttl >= 1
        /\ b \in HostAddresses => Waits(J[q], b)[k].dst = b
    BY <1>5, <2>2 DEF InQueues
  <2>4. ~("queue" = "queue" /\ <<q, b>> \in R)
    BY <2>1 DEF R
  <2>5. IsAt(new, H, s, Waits(J[q], b)[k], At("queue", q, b, k), InitialTTL)
    BY <1>12, <2>3, <2>4, Unmoved
  <2> QED
    BY <2>3, <2>5
<1>16. InFrames(new, G, H, s)
  <2> SUFFICES ASSUME NEW q \in Port, NEW k \in 1 .. Len(G[q]), G[q][k].type = "IPv4"
               PROVE  /\ IsAt(new, H, s, G[q][k].payload, At("frame", q, 0, k), InitialTTL)
                      /\ G[q][k].payload.ttl >= 1
                      /\ G[q][k].dst \in Hosts => G[q][k].payload.dst = AddressOf[G[q][k].dst]
    BY DEF InFrames
  <2>1. q = p
    <3> SUFFICES ASSUME q # p PROVE FALSE
      OBVIOUS
    <3>1. G[q] = <<>> /\ Len(<<>>) = 0
      BY <1>3
    <3> QED
      BY <3>1
  <2>2. G[q] = frames /\ Len(frames) = n + Len(w)
    BY <1>3, <2>1 DEF Released, w
  <2>3. ~(k \in 1 .. n)
    BY <2>2 DEF Released
  <2>4. k - n \in D /\ n + (k - n) = k
    BY <1>7, <2>2, <2>3 DEF D
  <2> DEFINE l == k - n
  <2>5. G[q][k].dst = m /\ G[q][k].payload = w[l] /\ AddressOf[m] = ip
    <3>1. frames[n + l].dst = m /\ frames[n + l].payload = w[l]
      BY <2>4 DEF Released, w, D
    <3> QED
      BY <2>2, <2>4, <3>1 DEF Released
  <2> HIDE DEF l
  <2>6. l \in D /\ n + l = k
    BY <2>4 DEF l
  <2>7. new[w[l].id] = At("frame", q, 0, k)
    BY <1>8, <1>12, <2>1, <2>6
  <2>8. IsAt(new, H, s, w[l], At("frame", q, 0, k), InitialTTL)
    BY <1>6, <2>6, <2>7 DEF IsAt
  <2>9. m \in Hosts => ip \in HostAddresses
    BY <2>5 DEF HostAddresses
  <2>10. w[l].ttl >= 1 /\ (ip \in HostAddresses => w[l].dst = ip)
    BY <1>6, <2>6
  <2> QED
    BY ONLY <2>5, <2>8, <2>9, <2>10
<1>17. Tracks(new, J, W, G, A, H, s)
  BY <1>4, <1>13, <1>14, <1>15, <1>16 DEF Tracks
<1> QED
  BY <1>17 DEF J, G

(* A host takes what has arrived. *)
LEMMA TakeTracks ==
  ASSUME NEW loc, NEW I, NEW W, NEW F, NEW A, NEW H, NEW s \in Nat, Tracks(loc, I, W, F, A, H, s),
         NEW h \in Hosts, NEW j, j = [I[h] EXCEPT !.datagrams_received = <<>>],
         NEW B, B = With(A, h, A[h] \o I[h].datagrams_received)
  PROVE  \E new : Tracks(new, With(I, h, j), W, F, B, H, s)
<1> DEFINE J == With(I, h, j)
           w == I[h].datagrams_received
           a == A[h]
           D == 1 .. Len(w)
           ids == [k \in D |-> w[k].id]
           to == [k \in D |-> At("out", h, 0, Len(a) + k)]
           R == {<<h, 0>>}
           new == Rehome(loc, D, ids, to)
           all == a \o w
<1>0. h \in Port
  BY DEF Port
<1>1. Network(I, W, F, A) /\ GoodIface(I[h], h) /\ A \in [Hosts -> Seq(Dgram)]
  BY <1>0 DEF Tracks, Network
<1>2. <<>> \in Seq(Dgram)
  OBVIOUS
<1>3. GoodIface(j, h) /\ j.datagrams_received = <<>> /\ j.pending = I[h].pending
  <2> DEFINE none == <<>>
             i == I[h]
  <2>1. none \in Seq(Dgram) /\ GoodIface(i, h) /\ j = [i EXCEPT !.datagrams_received = none]
    BY <1>1
  <2> HIDE DEF none, i
  <2>2. GoodIface(j, h) /\ j.datagrams_received = none /\ j.pending = i.pending
    BY ONLY <2>1, NewInbox
  <2> QED
    BY <2>2 DEF none, i
<1>4. Network(J, W, F, A) /\ J[h] = j /\ \A q \in Port : q # h => J[q] = I[q]
  BY <1>0, <1>1, <1>3, Replaced
<1> HIDE DEF J
<1>5. w \in Seq(Dgram) /\ a \in Seq(Dgram) /\ Len(w) \in Nat /\ Len(a) \in Nat
  BY <1>1 DEF GoodIface
<1>6. /\ all \in Seq(Dgram) /\ Len(all) = Len(a) + Len(w)
      /\ \A k \in 1 .. Len(a) : all[k] = a[k]
      /\ \A k \in 1 .. Len(w) : all[Len(a) + k] = w[k]
  <2> HIDE DEF w, a
  <2> QED
    BY <1>5, Joined
<1>7. B \in [Hosts -> Seq(Dgram)] /\ B[h] = all /\ \A g \in Hosts : g # h => B[g] = A[g]
  <2>1. B = [A EXCEPT ![h] = all]
    BY DEF With
  <2> HIDE DEF all
  <2> QED
    BY <1>1, <1>6, <2>1
<1> HIDE DEF all
<1>8. Network(J, W, F, B)
  BY <1>4, <1>7 DEF Network
<1>9. InInboxes(loc, I, H, s) /\ AtHosts(loc, A, H, s)
  BY DEF Tracks
<1>10. \A k \in D : /\ IsAt(loc, H, s, w[k], At("in", h, 0, k), InitialTTL + 1)
                    /\ w[k].dst = AddressOf[h]
  BY <1>0, <1>9 DEF InInboxes
<1>11. \A k \in D : ids[k] = w[k].id /\ to[k] = At("out", h, 0, Len(a) + k)
  OBVIOUS
<1> HIDE DEF w, ids, to
<1>12. \A k \in D : ids[k] \in Nat /\ loc[ids[k]] = At("in", h, 0, k)
  BY <1>10, <1>11 DEF IsAt
<1>13. \A k, l \in D : ids[k] = ids[l] => k = l
  <2> SUFFICES ASSUME NEW k \in D, NEW l \in D, ids[k] = ids[l] PROVE k = l
    OBVIOUS
  <2>1. At("in", h, 0, k) = At("in", h, 0, l)
    BY <1>12
  <2> QED
    BY ONLY <2>1 DEF At
<1>14. \A k \in D : \E q, b, l : <<q, b>> \in R /\ loc[ids[k]] = At("in", q, b, l)
  BY <1>12
<1> HIDE DEF D, R, a
<1>15. /\ \A k \in D : new[ids[k]] = to[k]
       /\ Moves(loc, new, "in", R)
  BY <1>12, <1>13, <1>14, Rehomed
<1> HIDE DEF new
<1>16. OnWires(new, W, H, s) /\ InQueues(new, I, H, s) /\ AtHosts(new, A, H, s) /\ InFrames(new, F, H, s)
  <2>1. OnWires(loc, W, H, s) /\ InQueues(loc, I, H, s) /\ AtHosts(loc, A, H, s) /\ InFrames(loc, F, H, s)
    BY DEF Tracks
  <2>2. "in" # "wire" /\ "in" # "queue" /\ "in" # "out" /\ "in" # "frame"
    OBVIOUS
  <2> QED
    BY <1>15, <2>1, <2>2, Untouched
<1>17. InQueues(new, J, H, s)
  <2>1. \A q \in Port, b \in IP : Waits(J[q], b) = Waits(I[q], b)
    BY <1>3, <1>4 DEF Waits
  <2> QED
    BY <1>16, <2>1 DEF InQueues
<1>18. InInboxes(new, J, H, s)
  <2> SUFFICES ASSUME NEW q \in Port, NEW k \in 1 .. Len(J[q].datagrams_received)
               PROVE  /\ IsAt(new, H, s, J[q].datagrams_received[k], At("in", q, 0, k), InitialTTL + 1)
                      /\ q \in Hosts => J[q].datagrams_received[k].dst = AddressOf[q]
    BY DEF InInboxes
  <2>1. q # h
    <3> SUFFICES ASSUME q = h PROVE FALSE
      OBVIOUS
    <3>1. J[q].datagrams_received = <<>> /\ Len(<<>>) = 0
      BY <1>3, <1>4
    <3> QED
      BY <3>1
  <2>2. J[q] = I[q]
    BY <1>4, <2>1
  <2>3. /\ IsAt(loc, H, s, J[q].datagrams_received[k], At("in", q, 0, k), InitialTTL + 1)
        /\ q \in Hosts => J[q].datagrams_received[k].dst = AddressOf[q]
    BY <1>9, <2>2 DEF InInboxes
  <2>4. ~("in" = "in" /\ <<q, 0>> \in R)
    BY <2>1 DEF R
  <2>5. IsAt(new, H, s, J[q].datagrams_received[k], At("in", q, 0, k), InitialTTL + 1)
    BY <1>15, <2>3, <2>4, Unmoved
  <2> QED
    BY <2>3, <2>5
<1>19. AtHosts(new, B, H, s)
  <2> SUFFICES ASSUME NEW g \in Hosts, NEW k \in 1 .. Len(B[g])
               PROVE  /\ IsAt(new, H, s, B[g][k], At("out", g, 0, k), InitialTTL + 1)
                      /\ B[g][k].dst = AddressOf[g]
    BY DEF AtHosts
  <2>1. CASE g # h
    <3>1. B[g] = A[g]
      BY <1>7, <2>1
    <3> QED
      BY <1>16, <3>1 DEF AtHosts
  <2>2. CASE g = h /\ k <= Len(a)
    <3>1. k \in 1 .. Len(a)
      BY <1>5, <2>2
    <3>2. B[g][k] = A[g][k] /\ k \in 1 .. Len(A[g])
      BY <1>6, <1>7, <2>2, <3>1 DEF a
    <3> QED
      BY <1>16, <3>2 DEF AtHosts
  <2>3. CASE g = h /\ ~(k <= Len(a))
    <3> DEFINE l == k - Len(a)
    <3>1. l \in 1 .. Len(w) /\ Len(a) + l = k
      BY <1>5, <1>6, <1>7, <2>3
    <3> HIDE DEF l
    <3>2. B[g][k] = w[l] /\ l \in D
      BY <1>6, <1>7, <2>3, <3>1 DEF D
    <3>3. new[w[l].id] = At("out", g, 0, k)
      BY <1>11, <1>15, <2>3, <3>1, <3>2
    <3>4. IsAt(new, H, s, w[l], At("out", g, 0, k), InitialTTL + 1)
      BY <1>10, <3>2, <3>3 DEF IsAt
    <3> QED
      BY <1>10, <2>3, <3>2, <3>4
  <2> QED
    BY <2>1, <2>2, <2>3
<1>20. Tracks(new, J, W, F, B, H, s)
  BY <1>8, <1>16, <1>17, <1>18, <1>19 DEF Tracks
<1> QED
  BY <1>20 DEF J

-----------------------------------------------------------------------------
(* Transmission *)

(* Every frame in heard is a frame of F, no two the same one. *)
Picks(heard, F, P, J) ==
    /\ \A k \in 1 .. Len(heard) : /\ P[k] \in Port /\ J[k] \in 1 .. Len(F[P[k]])
                                  /\ heard[k] = F[P[k]][J[k]]
    /\ \A k, l \in 1 .. Len(heard) : P[k] = P[l] /\ J[k] = J[l] => k = l

HeardFrom(F, T) ==
    LET ports == SetToSeq(T) IN FlattenSeq([n \in DOMAIN ports |-> F[ports[n]]])

(* Every frame heard on a wire is one that a port of it has sent, and each *)
(* is heard once.                                                          *)
LEMMA HeardIs ==
  ASSUME NEW F \in [Port -> Seq(AnyFrame)], NEW T, T \subseteq Port
  PROVE  HeardFrom(F, T) \in Seq(AnyFrame) /\ \E P, J : Picks(HeardFrom(F, T), F, P, J)
<1>1. IsFiniteSet(T)
  BY TopologyAssumption, FS_Subset
<1> DEFINE ports == SetToSeq(T)
           n == Len(ports)
           ss == [i \in DOMAIN ports |-> F[ports[i]]]
           heard == FlattenSeq(ss)
<1>2. ports \in Seq(T) /\ \A j, k \in DOMAIN ports : ports[j] = ports[k] => j = k
  BY <1>1, Enumerated
<1>0. HeardFrom(F, T) = heard
  BY DEF HeardFrom
<1> HIDE DEF ports
<1>3. n \in Nat /\ DOMAIN ports = 1 .. n /\ \A i \in 1 .. n : ports[i] \in Port
  BY <1>2
<1> HIDE DEF n
<1>4. /\ DOMAIN ss = 1 .. n /\ ss \in Seq(Seq(AnyFrame))
      /\ \A i \in 1 .. n : ss[i] = F[ports[i]]
  BY <1>3
<1> HIDE DEF ss
<1>5. Merges(heard, ss, n, AnyFrame)
  BY <1>3, <1>4, Flattened
<1> HIDE DEF heard
<1>6. heard \in Seq(AnyFrame)
  BY <1>5 DEF Merges
<1>7. PICK I, J : StandsFor(heard, ss, n, I, J)
  BY <1>5 DEF Merges
<1>8. /\ \A k \in 1 .. Len(heard) : /\ I[k] \in 1 .. n /\ J[k] \in 1 .. Len(ss[I[k]])
                                    /\ heard[k] = ss[I[k]][J[k]]
      /\ \A k, l \in 1 .. Len(heard) : I[k] = I[l] /\ J[k] = J[l] => k = l
  BY <1>7 DEF StandsFor
<1> DEFINE P == [k \in 1 .. Len(heard) |-> ports[I[k]]]
<1>9. \A k \in 1 .. Len(heard) : P[k] = ports[I[k]]
  OBVIOUS
<1> HIDE DEF P
<1>10. \A k \in 1 .. Len(heard) : /\ P[k] \in Port /\ J[k] \in 1 .. Len(F[P[k]])
                                  /\ heard[k] = F[P[k]][J[k]]
  <2> SUFFICES ASSUME NEW k \in 1 .. Len(heard)
               PROVE  P[k] \in Port /\ J[k] \in 1 .. Len(F[P[k]]) /\ heard[k] = F[P[k]][J[k]]
    OBVIOUS
  <2>1. I[k] \in 1 .. n /\ J[k] \in 1 .. Len(ss[I[k]]) /\ heard[k] = ss[I[k]][J[k]]
    BY <1>8
  <2>2. ports[I[k]] \in Port /\ ss[I[k]] = F[ports[I[k]]]
    BY <1>3, <1>4, <2>1
  <2>3. P[k] = ports[I[k]]
    BY <1>9
  <2> QED
    BY ONLY <2>1, <2>2, <2>3, Zenon
<1>11. \A k, l \in 1 .. Len(heard) : P[k] = P[l] /\ J[k] = J[l] => k = l
  <2> SUFFICES ASSUME NEW k \in 1 .. Len(heard), NEW l \in 1 .. Len(heard),
                      P[k] = P[l], J[k] = J[l]
               PROVE  k = l
    OBVIOUS
  <2>1. I[k] \in DOMAIN ports /\ I[l] \in DOMAIN ports
    BY <1>3, <1>8
  <2>2. ports[I[k]] = ports[I[l]]
    BY <1>9
  <2>3. I[k] = I[l]
    BY <1>2, <2>1, <2>2
  <2> QED
    BY <1>8, <2>3
<1>12. Picks(heard, F, P, J)
  BY <1>10, <1>11 DEF Picks
<1> QED
  BY <1>0, <1>6, <1>12

Carried(F, id) == \E p \in Port : \E k \in 1 .. Len(F[p]) : F[p][k].type = "IPv4" /\ F[p][k].payload.id = id

(* A datagram is in at most one of the frames, and counted once. *)
LEMMA CountedIs ==
  ASSUME NEW loc, NEW F \in [Port -> Seq(AnyFrame)], NEW s \in Nat, InFrames(loc, F, hops, s),
         NEW N \in Nat, hops \in [1 .. N -> Nat]
  PROVE  Counted(F) = [id \in 1 .. N |-> IF Carried(F, id) THEN hops[id] + 1 ELSE hops[id]]
<1> DEFINE all == UNION {{<<p, k>> : k \in DOMAIN F[p]} : p \in Port}
           carries(at, id) == F[at[1]][at[2]].type = "IPv4" /\ F[at[1]][at[2]].payload.id = id
           carriers(id) == {at \in all : carries(at, id)}
           count(id) == hops[id] + Cardinality(carriers(id))
<1>1. Counted(F) = [id \in 1 .. N |-> count(id)]
  BY DEF Counted
<1>2. \A p \in Port : DOMAIN F[p] = 1 .. Len(F[p])
  OBVIOUS
<1>3. \A at \in all : \E p \in Port : \E k \in 1 .. Len(F[p]) : at = <<p, k>>
  BY <1>2
<1>4. \A p \in Port : \A k \in 1 .. Len(F[p]) : <<p, k>> \in all
  BY <1>2
<1> HIDE DEF all
<1>5. ASSUME NEW id \in 1 .. N
      PROVE  count(id) = IF Carried(F, id) THEN hops[id] + 1 ELSE hops[id]
  <2>1. CASE Carried(F, id)
    <3>1. PICK p \in Port : \E k \in 1 .. Len(F[p]) : F[p][k].type = "IPv4" /\ F[p][k].payload.id = id
      BY <2>1 DEF Carried
    <3>2. PICK k \in 1 .. Len(F[p]) : F[p][k].type = "IPv4" /\ F[p][k].payload.id = id
      BY <3>1
    <3> DEFINE here == <<p, k>>
    <3>3. here \in carriers(id)
      BY <1>4, <3>2
    <3>4. loc[id] = At("frame", p, 0, k)
      BY <3>2 DEF InFrames, IsAt
    <3>5. \A at \in carriers(id) : at = here
      <4> SUFFICES ASSUME NEW at \in carriers(id) PROVE at = here
        OBVIOUS
      <4>0. at \in all /\ carries(at, id)
        OBVIOUS
      <4>1. PICK q \in Port : \E l \in 1 .. Len(F[q]) : at = <<q, l>>
        BY <1>3, <4>0
      <4>2. PICK l \in 1 .. Len(F[q]) : at = <<q, l>>
        BY <4>1
      <4>3. F[q][l].type = "IPv4" /\ F[q][l].payload.id = id
        BY <4>0, <4>2
      <4>4. loc[id] = At("frame", q, 0, l)
        BY <4>3 DEF InFrames, IsAt
      <4>5. At("frame", q, 0, l) = At("frame", p, 0, k)
        BY <3>4, <4>4
      <4>6. q = p /\ l = k
        BY ONLY <4>5 DEF At
      <4> QED
        BY <4>2, <4>6
    <3> HIDE DEF here, carriers
    <3>6. carriers(id) = {here}
      BY <3>3, <3>5
    <3>7. Cardinality(carriers(id)) = 1
      BY <3>6, FS_Singleton
    <3> QED
      BY <2>1, <3>7
  <2>2. CASE ~Carried(F, id)
    <3>1. \A at \in carriers(id) : FALSE
      <4> SUFFICES ASSUME NEW at \in carriers(id) PROVE FALSE
        OBVIOUS
      <4>0. at \in all /\ carries(at, id)
        OBVIOUS
      <4>1. PICK q \in Port : \E l \in 1 .. Len(F[q]) : at = <<q, l>>
        BY <1>3, <4>0
      <4>2. PICK l \in 1 .. Len(F[q]) : at = <<q, l>>
        BY <4>1
      <4>3. F[q][l].type = "IPv4" /\ F[q][l].payload.id = id
        BY <4>0, <4>2
      <4> QED
        BY <2>2, <4>3 DEF Carried
    <3> HIDE DEF carriers
    <3>2. carriers(id) = {}
      BY <3>1
    <3>3. Cardinality(carriers(id)) = 0
      BY <3>2, FS_EmptySet
    <3> QED
      BY <2>2, <3>3
  <2> QED
    BY <2>1, <2>2
<1> HIDE DEF count
<1> QED
  BY <1>1, <1>5, Zenon

(* The frames reach the wires, every datagram one of them. *)
LEMMA TransmitTracks ==
  ASSUME NEW loc, NEW I, NEW W, NEW F, NEW A, NEW N \in Nat, NEW s \in 0 .. N,
         hops \in [1 .. N -> 0 .. InitialTTL], Tracks(loc, I, W, F, A, hops, s)
  PROVE  /\ \E new : Tracks(new, I, Transmitted(W, F), Quiet, A, Counted(F), s)
         /\ Counted(F) \in [1 .. N -> 0 .. InitialTTL]
         /\ \A id \in 1 .. N : id > s => Counted(F)[id] = hops[id]
<1> DEFINE H == hops
           K == Counted(F)
           V == Transmitted(W, F)
           from(q) == {p \in Port \ {q} : SegmentOf[p] = SegmentOf[q] /\ F[p] # <<>>}
           heard == [q \in Port |-> HeardFrom(F, from(q))]
<1>0. InitialTTL \in Nat /\ s \in Nat
  BY TopologyAssumption
<1>1. Network(I, W, F, A) /\ W \in [Port -> Seq(AnyFrame)] /\ F \in [Port -> Seq(AnyFrame)]
  BY DEF Tracks, Network
<1>2. OnWires(loc, W, H, s) /\ InQueues(loc, I, H, s) /\ InInboxes(loc, I, H, s)
      /\ AtHosts(loc, A, H, s) /\ InFrames(loc, F, H, s)
  BY DEF Tracks
<1>3. H \in [1 .. N -> Nat]
  BY <1>0
<1>4. K = [id \in 1 .. N |-> IF Carried(F, id) THEN H[id] + 1 ELSE H[id]]
  BY <1>0, <1>1, <1>2, <1>3, CountedIs
<1>5. \A q \in Port : heard[q] = HeardFrom(F, from(q)) /\ from(q) \subseteq Port
  OBVIOUS
<1>6. V = [q \in Port |-> W[q] \o heard[q]]
  BY DEF Transmitted, HeardFrom
<1> HIDE DEF heard, from, V, K
<1>7. \A q \in Port : heard[q] \in Seq(AnyFrame) /\ \E P, J : Picks(heard[q], F, P, J)
  BY <1>1, <1>5, HeardIs
<1> DEFINE src == [q \in Port |-> CHOOSE P : \E J : Picks(heard[q], F, P, J)]
           num == [q \in Port |-> CHOOSE J : Picks(heard[q], F, src[q], J)]
<1>8. \A q \in Port : Picks(heard[q], F, src[q], num[q])
  BY <1>7
<1> HIDE DEF src, num
<1>9. \A q \in Port : \A k \in 1 .. Len(heard[q]) :
          /\ src[q][k] \in Port /\ num[q][k] \in 1 .. Len(F[src[q][k]])
          /\ heard[q][k] = F[src[q][k]][num[q][k]]
  BY <1>8 DEF Picks
<1>10. \A q \in Port : \A k, l \in 1 .. Len(heard[q]) :
          src[q][k] = src[q][l] /\ num[q][k] = num[q][l] => k = l
  BY <1>8 DEF Picks
(* What was carried has one hop more. *)
<1>11. \A id \in 1 .. N : /\ Carried(F, id) => K[id] = H[id] + 1
                          /\ ~Carried(F, id) => K[id] = H[id]
  BY <1>4
<1>12. ASSUME NEW p \in Port, NEW k \in 1 .. Len(F[p]), F[p][k].type = "IPv4"
       PROVE  /\ Carried(F, F[p][k].payload.id) /\ F[p][k].payload.id \in 1 .. s
              /\ loc[F[p][k].payload.id] = At("frame", p, 0, k)
              /\ F[p][k].payload.ttl + H[F[p][k].payload.id] = InitialTTL
              /\ F[p][k].payload.ttl >= 1 /\ F[p][k].payload.ttl \in Nat
              /\ F[p][k].dst \in Hosts => F[p][k].payload.dst = AddressOf[F[p][k].dst]
  <2>1. /\ IsAt(loc, H, s, F[p][k].payload, At("frame", p, 0, k), InitialTTL)
        /\ F[p][k].payload.ttl >= 1
        /\ F[p][k].dst \in Hosts => F[p][k].payload.dst = AddressOf[F[p][k].dst]
    BY <1>2, <1>12 DEF InFrames
  <2>2. Carried(F, F[p][k].payload.id)
    BY <1>12 DEF Carried
  <2>3. F[p][k].payload.ttl \in Nat
    <3>1. F[p][k] \in AnyFrame
      BY <1>1
    <3> QED
      BY <1>12, <3>1, DataFrameIs DEF Dgram
  <2> QED
    BY <2>1, <2>2, <2>3 DEF IsAt
<1>13. \A id \in 1 .. N : Carried(F, id) => id \in 1 .. s /\ H[id] + 1 <= InitialTTL
  <2> SUFFICES ASSUME NEW id \in 1 .. N, Carried(F, id) PROVE id \in 1 .. s /\ H[id] + 1 <= InitialTTL
    OBVIOUS
  <2>1. PICK p \in Port : \E k \in 1 .. Len(F[p]) : F[p][k].type = "IPv4" /\ F[p][k].payload.id = id
    BY DEF Carried
  <2>2. PICK k \in 1 .. Len(F[p]) : F[p][k].type = "IPv4" /\ F[p][k].payload.id = id
    BY <2>1
  <2> DEFINE ttl == F[p][k].payload.ttl
  <2>3. id \in 1 .. s /\ ttl + H[id] = InitialTTL /\ ttl >= 1 /\ ttl \in Nat
    BY <1>12, <2>2
  <2> HIDE DEF ttl
  <2>4. H[id] \in Nat
    BY <1>3
  <2> QED
    BY <1>0, <2>3, <2>4
<1>14. K \in [1 .. N -> 0 .. InitialTTL]
  <2> DEFINE k(id) == IF Carried(F, id) THEN H[id] + 1 ELSE H[id]
  <2>1. \A id \in 1 .. N : k(id) \in 0 .. InitialTTL
    BY <1>0, <1>13
  <2>2. K = [id \in 1 .. N |-> k(id)]
    BY <1>4
  <2> HIDE DEF k
  <2> QED
    BY <2>1, <2>2
<1>15. \A id \in 1 .. N : id > s => K[id] = H[id]
  BY <1>0, <1>11, <1>13
(* What stays where it is keeps its age. *)
<1>16. ASSUME NEW d, NEW kind, NEW p, NEW ip, NEW k, NEW age, kind # "frame",
              IsAt(loc, H, s, d, At(kind, p, ip, k), age)
       PROVE  IsAt(loc, K, s, d, At(kind, p, ip, k), age)
  <2>1. d.id \in 1 .. s /\ loc[d.id] = At(kind, p, ip, k) /\ d.ttl + H[d.id] = age /\ d.id \in 1 .. N
    BY <1>0, <1>16 DEF IsAt
  <2>2. ~Carried(F, d.id)
    <3> SUFFICES ASSUME Carried(F, d.id) PROVE FALSE
      OBVIOUS
    <3>1. PICK q \in Port : \E l \in 1 .. Len(F[q]) : F[q][l].type = "IPv4" /\ F[q][l].payload.id = d.id
      BY DEF Carried
    <3>2. PICK l \in 1 .. Len(F[q]) : F[q][l].type = "IPv4" /\ F[q][l].payload.id = d.id
      BY <3>1
    <3>3. At("frame", q, 0, l) = At(kind, p, ip, k)
      BY <1>12, <2>1, <3>2
    <3>4. kind = "frame"
      BY ONLY <3>3 DEF At
    <3> QED
      BY <1>16, <3>4
  <2>3. K[d.id] = H[d.id]
    BY <1>11, <2>1, <2>2
  <2> QED
    BY <2>1, <2>3 DEF IsAt
<1>17. OnWires(loc, W, K, s) /\ InQueues(loc, I, K, s) /\ InInboxes(loc, I, K, s) /\ AtHosts(loc, A, K, s)
  <2>1. "wire" # "frame" /\ "queue" # "frame" /\ "in" # "frame" /\ "out" # "frame"
    OBVIOUS
  <2>2. OnWires(loc, W, K, s)
    BY <1>2, <1>16, <2>1 DEF OnWires
  <2>3. InQueues(loc, I, K, s)
    BY <1>2, <1>16, <2>1 DEF InQueues
  <2>4. InInboxes(loc, I, K, s)
    BY <1>2, <1>16, <2>1 DEF InInboxes
  <2>5. AtHosts(loc, A, K, s)
    BY <1>2, <1>16, <2>1 DEF AtHosts
  <2> QED
    BY <2>2, <2>3, <2>4, <2>5
(* What arrives at its port has its place there. *)
<1> DEFINE live(q, k) == k \in 1 .. Len(heard[q]) /\ heard[q][k].type = "IPv4" /\ heard[q][k].dst = q
           D == {x \in Port \X Nat : live(x[1], x[2])}
           ids == [x \in D |-> heard[x[1]][x[2]].payload.id]
           to == [x \in D |-> At("wire", x[1], 0, Len(W[x[1]]) + x[2])]
           R == Port \X {0}
           new == Rehome(loc, D, ids, to)
<1>18. \A q \in Port, k \in Nat : live(q, k) =>
           /\ <<q, k>> \in D /\ ids[<<q, k>>] = heard[q][k].payload.id
           /\ to[<<q, k>>] = At("wire", q, 0, Len(W[q]) + k)
  OBVIOUS
<1>19. \A x \in D : \E q \in Port, k \in Nat : x = <<q, k>> /\ live(q, k)
  OBVIOUS
<1> HIDE DEF D, ids, to
<1>20. ASSUME NEW q \in Port, NEW k \in Nat, live(q, k)
       PROVE  /\ ids[<<q, k>>] \in Nat /\ src[q][k] \in Port /\ F[src[q][k]][num[q][k]].dst = q
              /\ loc[ids[<<q, k>>]] = At("frame", src[q][k], 0, num[q][k])
  <2> DEFINE p == src[q][k]
             l == num[q][k]
  <2>1. p \in Port /\ l \in 1 .. Len(F[p]) /\ heard[q][k] = F[p][l]
    BY <1>9, <1>20
  <2> HIDE DEF p, l
  <2>2. F[p][l].type = "IPv4" /\ F[p][l].dst = q /\ ids[<<q, k>>] = F[p][l].payload.id
    BY <1>18, <1>20, <2>1
  <2>3. loc[F[p][l].payload.id] = At("frame", p, 0, l) /\ F[p][l].payload.id \in 1 .. s
    BY <1>12, <2>1, <2>2
  <2>4. ids[<<q, k>>] \in Nat /\ loc[ids[<<q, k>>]] = At("frame", p, 0, l)
    BY <1>0, <2>2, <2>3
  <2>5. p \in Port /\ F[p][l].dst = q
    BY <2>1, <2>2
  <2> QED
    BY ONLY <2>4, <2>5 DEF p, l
<1>21. \A x \in D : ids[x] \in Nat
  BY <1>19, <1>20
<1>22. \A x, y \in D : ids[x] = ids[y] => x = y
  <2> SUFFICES ASSUME NEW x \in D, NEW y \in D, ids[x] = ids[y] PROVE x = y
    OBVIOUS
  <2>1. PICK q \in Port, k \in Nat : x = <<q, k>> /\ live(q, k)
    BY <1>19
  <2>2. PICK r \in Port, l \in Nat : y = <<r, l>> /\ live(r, l)
    BY <1>19
  <2>3. At("frame", src[q][k], 0, num[q][k]) = At("frame", src[r][l], 0, num[r][l])
    BY <1>20, <2>1, <2>2
  <2>4. src[q][k] = src[r][l] /\ num[q][k] = num[r][l]
    BY ONLY <2>3 DEF At
  <2>a. F[src[q][k]][num[q][k]].dst = q
    BY <1>20, <2>1
  <2>b. F[src[r][l]][num[r][l]].dst = r
    BY <1>20, <2>2
  <2>5. q = r
    BY ONLY <2>4, <2>a, <2>b
  <2>6. k = l
    BY <1>10, <2>1, <2>2, <2>4, <2>5
  <2> QED
    BY <2>1, <2>2, <2>5, <2>6
<1>23. \A x \in D : \E p, ip, n : <<p, ip>> \in R /\ loc[ids[x]] = At("frame", p, ip, n)
  <2> SUFFICES ASSUME NEW x \in D
               PROVE  \E p, ip, n : <<p, ip>> \in R /\ loc[ids[x]] = At("frame", p, ip, n)
    OBVIOUS
  <2>1. PICK q \in Port, k \in Nat : x = <<q, k>> /\ live(q, k)
    BY <1>19
  <2> DEFINE p == src[q][k]
             n == num[q][k]
  <2>2. p \in Port /\ loc[ids[x]] = At("frame", p, 0, n)
    BY <1>20, <2>1
  <2> HIDE DEF p, n
  <2>3. <<p, 0>> \in R
    BY <2>2
  <2> QED
    BY <2>2, <2>3
<1> HIDE DEF R
<1>24. /\ \A x \in D : new[ids[x]] = to[x]
       /\ Moves(loc, new, "frame", R)
  BY <1>21, <1>22, <1>23, Rehomed
<1> HIDE DEF new
<1>25. OnWires(new, W, K, s) /\ InQueues(new, I, K, s) /\ InInboxes(new, I, K, s) /\ AtHosts(new, A, K, s)
  <2>1. "frame" # "wire" /\ "frame" # "queue" /\ "frame" # "in" /\ "frame" # "out"
    OBVIOUS
  <2> QED
    BY <1>0, <1>17, <1>24, <2>1, Untouched
<1>26. \A q \in Port : /\ V[q] \in Seq(AnyFrame) /\ Len(V[q]) = Len(W[q]) + Len(heard[q])
                       /\ \A k \in 1 .. Len(W[q]) : V[q][k] = W[q][k]
                       /\ \A k \in 1 .. Len(heard[q]) : V[q][Len(W[q]) + k] = heard[q][k]
                       /\ Len(W[q]) \in Nat /\ Len(heard[q]) \in Nat
  <2> SUFFICES ASSUME NEW q \in Port
               PROVE  /\ V[q] \in Seq(AnyFrame) /\ Len(V[q]) = Len(W[q]) + Len(heard[q])
                      /\ \A k \in 1 .. Len(W[q]) : V[q][k] = W[q][k]
                      /\ \A k \in 1 .. Len(heard[q]) : V[q][Len(W[q]) + k] = heard[q][k]
                      /\ Len(W[q]) \in Nat /\ Len(heard[q]) \in Nat
    OBVIOUS
  <2> DEFINE w == W[q]
             h == heard[q]
  <2>1. V[q] = w \o h /\ w \in Seq(AnyFrame) /\ h \in Seq(AnyFrame)
    BY <1>1, <1>6, <1>7
  <2> HIDE DEF w, h
  <2>2. /\ V[q] \in Seq(AnyFrame) /\ Len(V[q]) = Len(w) + Len(h)
        /\ \A k \in 1 .. Len(w) : V[q][k] = w[k]
        /\ \A k \in 1 .. Len(h) : V[q][Len(w) + k] = h[k]
    BY <2>1, Joined
  <2>3. Len(w) \in Nat /\ Len(h) \in Nat
    BY <2>1
  <2> QED
    BY <2>2, <2>3 DEF w, h
<1>27. OnWires(new, V, K, s)
  <2> SUFFICES ASSUME NEW q \in Port, NEW k \in 1 .. Len(V[q]), V[q][k].type = "IPv4", V[q][k].dst = q
               PROVE  /\ IsAt(new, K, s, V[q][k].payload, At("wire", q, 0, k), InitialTTL + 1)
                      /\ q \in Hosts => V[q][k].payload.dst = AddressOf[q]
    BY DEF OnWires
  <2> DEFINE a == Len(W[q])
             b == Len(heard[q])
  <2>0. /\ a \in Nat /\ b \in Nat /\ k \in 1 .. a + b
        /\ \A n \in 1 .. a : V[q][n] = W[q][n]
        /\ \A n \in 1 .. b : V[q][a + n] = heard[q][n]
    BY <1>26
  <2> HIDE DEF a, b
  <2>1. CASE k <= a
    <3>0. k \in 1 .. a
      BY <2>0, <2>1
    <3>1. k \in 1 .. Len(W[q]) /\ V[q][k] = W[q][k]
      BY <2>0, <3>0 DEF a
    <3> QED
      BY <1>25, <3>1 DEF OnWires
  <2>2. CASE ~(k <= a)
    <3> DEFINE l == k - a
    <3>a. l \in 1 .. b /\ a + l = k
      BY <2>0, <2>2
    <3> HIDE DEF l
    <3>2. V[q][k] = heard[q][l] /\ l \in Nat
      BY <2>0, <3>a
    <3>1. l \in 1 .. Len(heard[q]) /\ Len(W[q]) + l = k
      BY <3>a DEF a, b
    <3>3. live(q, l)
      BY <3>1, <3>2
    <3> DEFINE p == src[q][l]
               n == num[q][l]
    <3>4. p \in Port /\ n \in 1 .. Len(F[p]) /\ V[q][k] = F[p][n]
      BY <1>9, <3>1, <3>2
    <3> HIDE DEF p, n
    <3> DEFINE d == F[p][n].payload
    <3>5. /\ Carried(F, d.id) /\ d.id \in 1 .. s /\ d.ttl + H[d.id] = InitialTTL /\ d.ttl \in Nat
          /\ F[p][n].dst \in Hosts => d.dst = AddressOf[F[p][n].dst]
      BY <1>12, <3>4
    <3>6. new[d.id] = At("wire", q, 0, k)
      <4>1. /\ <<q, l>> \in D /\ ids[<<q, l>>] = d.id
            /\ to[<<q, l>>] = At("wire", q, 0, Len(W[q]) + l)
        BY <1>18, <3>2, <3>3, <3>4
      <4> QED
        BY <1>24, <3>1, <4>1
    <3> DEFINE id == d.id
               ttl == d.ttl
    <3>7. /\ id \in 1 .. s /\ ttl + H[id] = InitialTTL /\ ttl \in Nat /\ Carried(F, id)
          /\ new[id] = At("wire", q, 0, k)
      BY <3>5, <3>6
    <3> HIDE DEF id, ttl
    <3>8. K[id] = H[id] + 1 /\ H[id] \in Nat
      BY <1>0, <1>3, <1>11, <3>7
    <3>9. ttl + K[id] = InitialTTL + 1
      BY <1>0, <3>7, <3>8
    <3>10. IsAt(new, K, s, V[q][k].payload, At("wire", q, 0, k), InitialTTL + 1)
      BY <3>4, <3>7, <3>9 DEF IsAt, id, ttl
    <3> QED
      BY <3>4, <3>5, <3>10
  <2> QED
    BY <2>1, <2>2
<1>28. V \in [Port -> Seq(AnyFrame)]
  BY <1>6, <1>26
<1>29. Quiet \in [Port -> Seq(AnyFrame)] /\ InFrames(new, Quiet, K, s)
  BY QuietNetwork
<1>30. Network(I, V, Quiet, A)
  BY <1>1, <1>28, <1>29 DEF Network
<1>31. Tracks(new, I, V, Quiet, A, K, s)
  BY <1>25, <1>27, <1>29, <1>30 DEF Tracks
<1> QED
  BY <1>14, <1>15, <1>31 DEF V, K

-----------------------------------------------------------------------------
(* route() *)

Arrival == [dgram : Dgram, on : Nat]

(* The ports in the order of add_interface. *)
Distinct(ports) == ports \in Seq(Port) /\ \A j, k \in DOMAIN ports : ports[j] = ports[k] => j = k

Drained(I, ports) ==
    [p \in Port |-> IF p \in Range(ports) THEN [I[p] EXCEPT !.datagrams_received = <<>>] ELSE I[p]]

(* The arrivals from a on are in hand. *)
InHand(loc, arrivals, a, H, s) ==
    \A k \in 1 .. Len(arrivals) :
        k >= a => IsAt(loc, H, s, arrivals[k].dgram, At("hand", 0, 0, k), InitialTTL + 1)

(* Every arrival is one of the datagrams received, no two the same one. *)
Collects(arrivals, ports, I, N, J) ==
    /\ \A k \in 1 .. Len(arrivals) :
          /\ N[k] \in DOMAIN ports /\ J[k] \in 1 .. Len(I[ports[N[k]]].datagrams_received)
          /\ arrivals[k].dgram = I[ports[N[k]]].datagrams_received[J[k]]
    /\ \A k, l \in 1 .. Len(arrivals) : N[k] = N[l] /\ J[k] = J[l] => k = l

(* What route() takes in is what the interfaces of the router have         *)
(* received, each datagram once.                                           *)
LEMMA ArrivalsAre ==
  ASSUME NEW I, \A p \in Port : GoodIface(I[p], p), NEW ports, Distinct(ports), NEW t,
         NEW arrivals, arrivals = Arrivals(NewRouter([n \in DOMAIN ports |-> I[ports[n]]], t))
  PROVE  arrivals \in Seq(Arrival) /\ \E N, J : Collects(arrivals, ports, I, N, J)
<1> DEFINE n == Len(ports)
           inbox == [m \in 1 .. n |-> I[ports[m]].datagrams_received]
           ss == [m \in 1 .. n |-> [k \in DOMAIN inbox[m] |-> [dgram |-> inbox[m][k], on |-> m]]]
<1>1. n \in Nat /\ DOMAIN ports = 1 .. n /\ \A m \in 1 .. n : ports[m] \in Port
  BY DEF Distinct
<1> HIDE DEF n
<1>2. arrivals = FlattenSeq(ss)
  <2> DEFINE ifs == [m \in DOMAIN ports |-> I[ports[m]]]
             router == NewRouter(ifs, t)
  <2>1. router.interfaces = ifs
    BY DEF NewRouter
  <2>2. DOMAIN ifs = 1 .. n /\ \A m \in 1 .. n : ifs[m].datagrams_received = inbox[m]
    BY <1>1
  <2> HIDE DEF ifs, inbox
  <2>3. [m \in DOMAIN router.interfaces |->
            [k \in DOMAIN router.interfaces[m].datagrams_received |->
                [dgram |-> router.interfaces[m].datagrams_received[k], on |-> m]]] = ss
    BY <2>1, <2>2
  <2> QED
    BY <2>3 DEF Arrivals, ifs
<1>3. \A m \in 1 .. n : inbox[m] \in Seq(Dgram) /\ inbox[m] = I[ports[m]].datagrams_received
  BY <1>1 DEF GoodIface
<1> HIDE DEF inbox
<1>4. \A m \in 1 .. n : /\ ss[m] \in Seq(Arrival) /\ Len(ss[m]) = Len(inbox[m])
                        /\ \A k \in 1 .. Len(inbox[m]) : ss[m][k] = [dgram |-> inbox[m][k], on |-> m]
  <2> SUFFICES ASSUME NEW m \in 1 .. n
               PROVE  /\ ss[m] \in Seq(Arrival) /\ Len(ss[m]) = Len(inbox[m])
                      /\ \A k \in 1 .. Len(inbox[m]) : ss[m][k] = [dgram |-> inbox[m][k], on |-> m]
    OBVIOUS
  <2> DEFINE box == inbox[m]
             one(k) == [dgram |-> box[k], on |-> m]
             all == [k \in 1 .. Len(box) |-> one(k)]
  <2>1. box \in Seq(Dgram) /\ Len(box) \in Nat /\ DOMAIN box = 1 .. Len(box) /\ m \in Nat
    BY <1>1, <1>3
  <2>2. ss[m] = all
    BY <2>1
  <2> HIDE DEF box
  <2>3. \A k \in 1 .. Len(box) : one(k) \in Arrival
    BY <2>1 DEF Arrival
  <2>4. \A k \in 1 .. Len(box) : all[k] = one(k)
    OBVIOUS
  <2>5. all \in Seq(Arrival) /\ Len(all) = Len(box)
    <3> HIDE DEF one
    <3> QED
      BY <2>1, <2>3
  <2> HIDE DEF all
  <2> QED
    BY <2>2, <2>4, <2>5 DEF box
<1>5. DOMAIN ss = 1 .. n /\ ss = [m \in 1 .. n |-> ss[m]]
  OBVIOUS
<1> HIDE DEF ss
<1>6. ss \in Seq(Seq(Arrival))
  BY <1>1, <1>4, <1>5
<1>7. Merges(arrivals, ss, n, Arrival)
  BY <1>1, <1>2, <1>5, <1>6, Flattened
<1>8. arrivals \in Seq(Arrival)
  BY <1>7 DEF Merges
<1>9. PICK N, J : StandsFor(arrivals, ss, n, N, J)
  BY <1>7 DEF Merges
<1>10. /\ \A k \in 1 .. Len(arrivals) : /\ N[k] \in 1 .. n /\ J[k] \in 1 .. Len(ss[N[k]])
                                        /\ arrivals[k] = ss[N[k]][J[k]]
       /\ \A k, l \in 1 .. Len(arrivals) : N[k] = N[l] /\ J[k] = J[l] => k = l
  BY <1>9 DEF StandsFor
<1>11. \A k \in 1 .. Len(arrivals) :
          /\ N[k] \in DOMAIN ports /\ J[k] \in 1 .. Len(I[ports[N[k]]].datagrams_received)
          /\ arrivals[k].dgram = I[ports[N[k]]].datagrams_received[J[k]]
  <2> SUFFICES ASSUME NEW k \in 1 .. Len(arrivals)
               PROVE  /\ N[k] \in DOMAIN ports /\ J[k] \in 1 .. Len(I[ports[N[k]]].datagrams_received)
                      /\ arrivals[k].dgram = I[ports[N[k]]].datagrams_received[J[k]]
    OBVIOUS
  <2> DEFINE m == N[k]
             l == J[k]
  <2>1. m \in 1 .. n /\ l \in 1 .. Len(ss[m]) /\ arrivals[k] = ss[m][l]
    BY <1>10
  <2> HIDE DEF m, l
  <2>2. l \in 1 .. Len(inbox[m]) /\ inbox[m] = I[ports[m]].datagrams_received
    BY <1>3, <1>4, <2>1
  <2>3. arrivals[k] = [dgram |-> inbox[m][l], on |-> m]
    BY <1>4, <2>1, <2>2
  <2>4. arrivals[k].dgram = inbox[m][l]
    BY <2>3
  <2> QED
    BY <1>1, <2>1, <2>2, <2>4 DEF m, l
<1>12. Collects(arrivals, ports, I, N, J)
  BY <1>10, <1>11 DEF Collects
<1> QED
  BY <1>8, <1>12

(* The router takes what its interfaces have received in hand. *)
LEMMA CollectTracks ==
  ASSUME NEW loc, NEW I, NEW W, NEW F, NEW A, NEW H, NEW s \in Nat, Tracks(loc, I, W, F, A, H, s),
         NEW ports, Distinct(ports), NEW arrivals, arrivals \in Seq(Arrival),
         NEW N, NEW M, Collects(arrivals, ports, I, N, M)
  PROVE  \E new : /\ Tracks(new, Drained(I, ports), W, F, A, H, s)
                  /\ InHand(new, arrivals, 1, H, s)
<1> DEFINE J == Drained(I, ports)
           D == 1 .. Len(arrivals)
           ids == [k \in D |-> arrivals[k].dgram.id]
           to == [k \in D |-> At("hand", 0, 0, k)]
           T == Range(ports)
           R == T \X {0}
           new == Rehome(loc, D, ids, to)
           drained(p) == [I[p] EXCEPT !.datagrams_received = <<>>]
<1>1. Network(I, W, F, A) /\ \A p \in Port : GoodIface(I[p], p)
  BY DEF Tracks, Network
<1>2. T \subseteq Port /\ \A n \in DOMAIN ports : ports[n] \in T /\ ports[n] \in Port
  BY DEF Range, Distinct
<1>3. ASSUME NEW p \in Port
      PROVE  /\ GoodIface(drained(p), p) /\ drained(p).datagrams_received = <<>>
             /\ drained(p).pending = I[p].pending
  <2> DEFINE none == <<>>
             i == I[p]
             j == [i EXCEPT !.datagrams_received = none]
  <2>1. none \in Seq(Dgram) /\ GoodIface(i, p)
    BY <1>1
  <2> HIDE DEF none, i
  <2>2. GoodIface(j, p) /\ j.datagrams_received = none /\ j.pending = i.pending
    BY ONLY <2>1, NewInbox
  <2> QED
    BY <2>2 DEF none, i
<1> HIDE DEF T
<1>4. /\ J = [p \in Port |-> J[p]]
      /\ \A p \in Port : /\ p \in T => J[p] = drained(p)
                         /\ p \notin T => J[p] = I[p]
  BY DEF Drained, T
<1> HIDE DEF J, drained
<1>5. \A p \in Port : /\ GoodIface(J[p], p) /\ J[p].pending = I[p].pending
                      /\ p \in T => J[p].datagrams_received = <<>>
                      /\ p \notin T => J[p] = I[p]
  BY <1>1, <1>3, <1>4
<1>6. Network(J, W, F, A)
  BY <1>1, <1>4, <1>5 DEF Network
<1>7. InInboxes(loc, I, H, s)
  BY DEF Tracks
<1>8. \A k \in D : /\ N[k] \in DOMAIN ports
                   /\ IsAt(loc, H, s, arrivals[k].dgram, At("in", ports[N[k]], 0, M[k]), InitialTTL + 1)
  <2> SUFFICES ASSUME NEW k \in D
               PROVE  /\ N[k] \in DOMAIN ports
                      /\ IsAt(loc, H, s, arrivals[k].dgram, At("in", ports[N[k]], 0, M[k]), InitialTTL + 1)
    OBVIOUS
  <2> DEFINE p == ports[N[k]]
             l == M[k]
  <2>1. N[k] \in DOMAIN ports /\ l \in 1 .. Len(I[p].datagrams_received)
        /\ arrivals[k].dgram = I[p].datagrams_received[l]
    BY DEF Collects
  <2>2. p \in Port
    BY <1>2, <2>1
  <2> HIDE DEF p, l
  <2>3. IsAt(loc, H, s, I[p].datagrams_received[l], At("in", p, 0, l), InitialTTL + 1)
    BY <1>7, <2>1, <2>2 DEF InInboxes
  <2> QED
    BY <2>1, <2>3 DEF p, l
<1>9. \A k \in D : ids[k] = arrivals[k].dgram.id /\ to[k] = At("hand", 0, 0, k)
  OBVIOUS
<1> HIDE DEF ids, to
<1>10. \A k \in D : ids[k] \in Nat /\ loc[ids[k]] = At("in", ports[N[k]], 0, M[k])
  BY <1>8, <1>9 DEF IsAt
<1>11. \A k, l \in D : ids[k] = ids[l] => k = l
  <2> SUFFICES ASSUME NEW k \in D, NEW l \in D, ids[k] = ids[l] PROVE k = l
    OBVIOUS
  <2>1. At("in", ports[N[k]], 0, M[k]) = At("in", ports[N[l]], 0, M[l])
    BY <1>10
  <2>2. ports[N[k]] = ports[N[l]] /\ M[k] = M[l]
    BY ONLY <2>1 DEF At
  <2>3. N[k] = N[l]
    BY <1>8, <2>2 DEF Distinct
  <2> QED
    BY <2>2, <2>3 DEF Collects
<1>12. \A k \in D : \E p, ip, n : <<p, ip>> \in R /\ loc[ids[k]] = At("in", p, ip, n)
  <2> SUFFICES ASSUME NEW k \in D
               PROVE  \E p, ip, n : <<p, ip>> \in R /\ loc[ids[k]] = At("in", p, ip, n)
    OBVIOUS
  <2> DEFINE p == ports[N[k]]
  <2>1. p \in T /\ loc[ids[k]] = At("in", p, 0, M[k])
    BY <1>2, <1>8, <1>10
  <2> HIDE DEF p
  <2>2. <<p, 0>> \in R
    BY <2>1
  <2> QED
    BY <2>1, <2>2
<1>a. \A p : <<p, 0>> \in R => p \in T
  OBVIOUS
<1> HIDE DEF D, R
<1>13. /\ \A k \in D : new[ids[k]] = to[k]
       /\ Moves(loc, new, "in", R)
  BY <1>10, <1>11, <1>12, Rehomed
<1> HIDE DEF new
<1>14. OnWires(new, W, H, s) /\ InQueues(new, I, H, s) /\ AtHosts(new, A, H, s) /\ InFrames(new, F, H, s)
  <2>1. OnWires(loc, W, H, s) /\ InQueues(loc, I, H, s) /\ AtHosts(loc, A, H, s) /\ InFrames(loc, F, H, s)
    BY DEF Tracks
  <2>2. "in" # "wire" /\ "in" # "queue" /\ "in" # "out" /\ "in" # "frame"
    OBVIOUS
  <2> QED
    BY <1>13, <2>1, <2>2, Untouched
<1>15. InQueues(new, J, H, s)
  <2>1. \A q \in Port, b \in IP : Waits(J[q], b) = Waits(I[q], b)
    BY <1>5 DEF Waits
  <2> QED
    BY <1>14, <2>1 DEF InQueues
<1>16. InInboxes(new, J, H, s)
  <2> SUFFICES ASSUME NEW q \in Port, NEW k \in 1 .. Len(J[q].datagrams_received)
               PROVE  /\ IsAt(new, H, s, J[q].datagrams_received[k], At("in", q, 0, k), InitialTTL + 1)
                      /\ q \in Hosts => J[q].datagrams_received[k].dst = AddressOf[q]
    BY DEF InInboxes
  <2>1. q \notin T
    <3> SUFFICES ASSUME q \in T PROVE FALSE
      OBVIOUS
    <3>1. J[q].datagrams_received = <<>> /\ Len(<<>>) = 0
      BY <1>5
    <3> QED
      BY <3>1
  <2>2. J[q] = I[q]
    BY <1>5, <2>1
  <2>3. /\ IsAt(loc, H, s, J[q].datagrams_received[k], At("in", q, 0, k), InitialTTL + 1)
        /\ q \in Hosts => J[q].datagrams_received[k].dst = AddressOf[q]
    BY <1>7, <2>2 DEF InInboxes
  <2>4. ~("in" = "in" /\ <<q, 0>> \in R)
    BY <1>a, <2>1
  <2>5. IsAt(new, H, s, J[q].datagrams_received[k], At("in", q, 0, k), InitialTTL + 1)
    BY <1>13, <2>3, <2>4, Unmoved
  <2> QED
    BY <2>3, <2>5
<1>17. Tracks(new, J, W, F, A, H, s)
  BY <1>6, <1>14, <1>15, <1>16 DEF Tracks
<1>18. InHand(new, arrivals, 1, H, s)
  <2> SUFFICES ASSUME NEW k \in 1 .. Len(arrivals)
               PROVE  IsAt(new, H, s, arrivals[k].dgram, At("hand", 0, 0, k), InitialTTL + 1)
    BY DEF InHand
  <2>1. k \in D
    BY DEF D
  <2>2. new[arrivals[k].dgram.id] = At("hand", 0, 0, k)
    BY <1>9, <1>13, <2>1
  <2>3. IsAt(loc, H, s, arrivals[k].dgram, At("in", ports[N[k]], 0, M[k]), InitialTTL + 1)
    BY <1>8, <2>1
  <2> QED
    BY <2>2, <2>3 DEF IsAt
<1> QED
  BY <1>17, <1>18 DEF J

(* f by place in ports, spread over all the ports. *)
Place(ports, p) == CHOOSE n \in DOMAIN ports : ports[n] = p
Spread(ports, f, base) == [p \in Port |-> IF p \in Range(ports) THEN f[Place(ports, p)] ELSE base[p]]

(* A port of a router is found at its position. *)
LEMMA PlaceIs ==
  ASSUME NEW ports, Distinct(ports), NEW n \in DOMAIN ports
  PROVE  ports[n] \in Port /\ ports[n] \in Range(ports) /\ Place(ports, ports[n]) = n
<1>1. ports[n] \in Port /\ ports[n] \in Range(ports)
  BY DEF Distinct, Range
<1> DEFINE c == Place(ports, ports[n])
<1>2. c \in DOMAIN ports /\ ports[c] = ports[n]
  BY DEF Place
<1> HIDE DEF c
<1>3. c = n
  BY <1>2 DEF Distinct
<1> QED
  BY <1>1, <1>3 DEF c

(* Changing an interface in the router's list is changing it among the     *)
(* ports.                                                                  *)
LEMMA SpreadIs ==
  ASSUME NEW ports, Distinct(ports), NEW f, f = [n \in DOMAIN ports |-> f[n]], NEW base,
         NEW n \in DOMAIN ports, NEW x
  PROVE  /\ Spread(ports, f, base)[ports[n]] = f[n]
         /\ Spread(ports, With(f, n, x), base) = With(Spread(ports, f, base), ports[n], x)
         /\ With(f, n, x) = [m \in DOMAIN ports |-> With(f, n, x)[m]]
<1> DEFINE g == With(f, n, x)
           S == Spread(ports, f, base)
           T == Spread(ports, g, base)
           p == ports[n]
<1>1. p \in Port /\ p \in Range(ports) /\ Place(ports, p) = n
  BY PlaceIs
<1>2. S[p] = f[n]
  BY <1>1 DEF Spread
<1>3. g = [m \in DOMAIN ports |-> IF m = n THEN x ELSE f[m]]
  BY DEF With
<1> HIDE DEF g
<1>4. g = [m \in DOMAIN ports |-> g[m]] /\ g[n] = x /\ \A m \in DOMAIN ports : m # n => g[m] = f[m]
  BY <1>3
<1>5. \A q \in Range(ports) : Place(ports, q) \in DOMAIN ports /\ ports[Place(ports, q)] = q
  BY DEF Range, Place
<1>6. T = [q \in Port |-> IF q = p THEN x ELSE S[q]]
  <2> DEFINE u(q) == IF q \in Range(ports) THEN g[Place(ports, q)] ELSE base[q]
             v(q) == IF q = p THEN x ELSE S[q]
  <2>1. ASSUME NEW q \in Port PROVE u(q) = v(q)
    <3>1. CASE q = p
      BY <1>1, <1>4, <3>1
    <3>2. CASE q # p /\ q \in Range(ports)
      <4>1. Place(ports, q) \in DOMAIN ports /\ Place(ports, q) # n
        BY <1>5, <3>2
      <4>2. g[Place(ports, q)] = f[Place(ports, q)]
        BY <1>4, <4>1
      <4>3. S[q] = f[Place(ports, q)]
        BY <3>2 DEF Spread
      <4> QED
        BY <3>2, <4>2, <4>3
    <3>3. CASE q # p /\ q \notin Range(ports)
      BY <3>3 DEF Spread
    <3> QED
      BY <3>1, <3>2, <3>3
  <2>2. T = [q \in Port |-> u(q)]
    BY DEF Spread
  <2> HIDE DEF u, v, T
  <2>3. T = [q \in Port |-> v(q)]
    BY <2>1, <2>2
  <2> QED
    BY <2>3 DEF v
<1>7. S = [q \in Port |-> S[q]]
  BY DEF Spread
<1>8. T = With(S, p, x)
  <2> HIDE DEF S, T
  <2> QED
    BY <1>1, <1>6, <1>7 DEF With
<1> QED
  BY <1>2, <1>4, <1>8 DEF g

(* The routes found lead somewhere. *)
LeadsOn(t, ports) ==
    \A dst \in IP :
        LET k == FindRoute(t, dst)
        IN  k # 0 => /\ t[k].interface_num \in DOMAIN ports
                     /\ t[k].next_hop \in {NoHop} \cup (IP \ HostAddresses)

(* The router while it forwards, with the arrivals from a on in hand. *)
Underway(done, a, ports, t, arrivals, I, W, A, H, s) ==
    /\ done = Forwarded(NewRouter(done.router.interfaces, t), done.frames)
    /\ done.router.interfaces = [n \in DOMAIN ports |-> done.router.interfaces[n]]
    /\ done.frames = [n \in DOMAIN ports |-> done.frames[n]]
    /\ \E loc : /\ Tracks(loc, Spread(ports, done.router.interfaces, I), W,
                          Spread(ports, done.frames, Quiet), A, H, s)
                /\ InHand(loc, arrivals, a, H, s)

(* A hop takes one from the time to live and nothing else. *)
LEMMA HopIs ==
  ASSUME NEW d \in Dgram, d.ttl > 1
  PROVE  /\ Hop(d) \in Dgram /\ Hop(d).id = d.id /\ Hop(d).dst = d.dst
         /\ Hop(d).ttl = d.ttl - 1
<1> DEFINE id == d.id
           dst == d.dst
           ttl == d.ttl
           sum == d.cksum
<1>1. /\ d = [id |-> id, dst |-> dst, ttl |-> ttl, cksum |-> sum]
      /\ id \in Nat /\ dst \in IP /\ ttl \in Nat /\ sum \in Nat
  BY DEF Dgram
<1>2. ttl - 1 \in Nat
  BY <1>1
<1> HIDE DEF id, dst, ttl, sum
<1> DEFINE one == [d EXCEPT !.ttl = @ - 1]
<1>a. one = [id |-> id, dst |-> dst, ttl |-> ttl - 1, cksum |-> sum]
  BY <1>1
<1>b. Hop(d) = [one EXCEPT !.cksum = one.ttl]
  BY DEF Hop, ComputeChecksum
<1> HIDE DEF one
<1>3. Hop(d) = [id |-> id, dst |-> dst, ttl |-> ttl - 1, cksum |-> ttl - 1]
  BY <1>a, <1>b
<1>4. Hop(d) \in Dgram
  BY <1>1, <1>2, <1>3 DEF Dgram
<1> QED
  BY <1>3, <1>4 DEF id, dst, ttl

(* One datagram is forwarded, or dropped. *)
LEMMA ForwardTracks ==
  ASSUME NEW ports, Distinct(ports), NEW t, LeadsOn(t, ports),
         NEW arrivals \in Seq(Arrival), NEW a \in 1 .. Len(arrivals),
         NEW I, NEW W, NEW A, NEW s \in Nat, NEW H, NEW done, \A id \in 1 .. s : H[id] \in Nat,
         Underway(done, a, ports, t, arrivals, I, W, A, H, s)
  PROVE  Underway(Forward(done, arrivals[a].dgram, arrivals[a].on), a + 1, ports, t, arrivals, I, W, A, H, s)
<1> DEFINE d == arrivals[a].dgram
           next == Forward(done, d, arrivals[a].on)
           ifs == done.router.interfaces
           frs == done.frames
           II == Spread(ports, ifs, I)
           FF == Spread(ports, frs, Quiet)
<1>1. /\ done = Forwarded(NewRouter(ifs, t), frs)
      /\ ifs = [n \in DOMAIN ports |-> ifs[n]]
      /\ frs = [n \in DOMAIN ports |-> frs[n]]
      /\ \E loc : Tracks(loc, II, W, FF, A, H, s) /\ InHand(loc, arrivals, a, H, s)
  BY DEF Underway
<1>2. PICK loc : Tracks(loc, II, W, FF, A, H, s) /\ InHand(loc, arrivals, a, H, s)
  BY <1>1
<1>a. Len(arrivals) \in Nat /\ a \in Nat /\ arrivals[a] \in Arrival
  OBVIOUS
<1>0. Len(arrivals) \in Nat /\ a \in Nat /\ d \in Dgram
  BY <1>a DEF Arrival
<1> HIDE DEF ifs, frs
<1>3. InHand(loc, arrivals, a + 1, H, s)
  BY <1>0, <1>2 DEF InHand
<1>4. done.router.routes = t /\ done.router = NewRouter(ifs, t) /\ done.frames = frs
      /\ done.router.interfaces = ifs
  BY <1>1 DEF Forwarded, NewRouter
<1>5. CASE ~Forwards(done.router, d, arrivals[a].on)
  <2>1. next = done
    BY <1>5 DEF Forward
  <2>2. \E new : Tracks(new, II, W, FF, A, H, s) /\ InHand(new, arrivals, a + 1, H, s)
    BY <1>2, <1>3
  <2>3. Underway(done, a + 1, ports, t, arrivals, I, W, A, H, s)
    BY <1>1, <2>2 DEF Underway, ifs, frs
  <2> QED
    BY <2>1, <2>3
<1>6. CASE Forwards(done.router, d, arrivals[a].on)
  <2> DEFINE k == FindRoute(t, d.dst)
             n == t[k].interface_num
             ip == IF t[k].next_hop = NoHop THEN d.dst ELSE t[k].next_hop
             hop == Hop(d)
             p == ports[n]
             outcome == SendDatagram(ifs[n], hop, ip)
             j == outcome.interface
             frames == outcome.frames
             joined == frs[n] \o frames
  <2>1. d.ttl > 1 /\ k # 0 /\ d.dst \in IP
    BY <1>0, <1>4, <1>6 DEF Forwards, Dgram
  <2>2. n \in DOMAIN ports /\ t[k].next_hop \in {NoHop} \cup (IP \ HostAddresses)
    BY <2>1 DEF LeadsOn
  <2>3. ip \in IP /\ (ip \in HostAddresses => d.dst = ip)
    BY <2>1, <2>2
  <2>4. hop \in Dgram /\ hop.id = d.id /\ hop.dst = d.dst /\ hop.ttl = d.ttl - 1
    BY <1>0, <2>1, HopIs
  <2>5. next = Forwarded(NewRouter(With(ifs, n, j), t), With(frs, n, joined))
    <3>1. next = Forwarded([done.router EXCEPT !.interfaces[n] = j], [done.frames EXCEPT ![n] = @ \o frames])
      BY <1>4, <1>6 DEF Forward
    <3>2. [done.frames EXCEPT ![n] = @ \o frames] = With(frs, n, joined)
      BY <1>4 DEF With
    <3>3. [done.router EXCEPT !.interfaces[n] = j] = NewRouter(With(ifs, n, j), t)
      <4> HIDE DEF j, n
      <4> QED
        BY <1>4 DEF With, NewRouter
    <3> QED
      BY <3>1, <3>2, <3>3
  <2>6. p \in Port
    BY <2>2, PlaceIs
  <2>a. a \in 1 .. Len(arrivals) /\ a >= a
    BY <1>0
  <2>7. d.id \in 1 .. s /\ loc[d.id] = At("hand", 0, 0, a) /\ d.ttl + H[d.id] = InitialTTL + 1
    BY <1>2, <2>a DEF InHand, IsAt
  <2>8. IsAt(loc, H, s, hop, At("hand", 0, 0, a), InitialTTL)
    <3> DEFINE id == d.id
               ttl == d.ttl
               ttl2 == hop.ttl
    <3>1. id \in 1 .. s /\ ttl \in Nat /\ ttl + H[id] = InitialTTL + 1 /\ ttl2 = ttl - 1 /\ H[id] \in Nat
          /\ InitialTTL \in Nat
      BY <1>0, <2>4, <2>7, TopologyAssumption DEF Dgram
    <3> HIDE DEF id, ttl, ttl2
    <3>2. ttl2 + H[id] = InitialTTL
      BY <3>1
    <3>3. hop.id = id /\ hop.ttl = ttl2 /\ loc[id] = At("hand", 0, 0, a)
      BY <2>4, <2>7 DEF id, ttl2
    <3> HIDE DEF hop
    <3> QED
      BY <3>1, <3>2, <3>3 DEF IsAt
  <2>9. hop.ttl >= 1 /\ (ip \in HostAddresses => hop.dst = ip)
    <3>1. d.ttl \in Nat
      BY <1>0 DEF Dgram
    <3> QED
      BY <2>1, <2>3, <2>4, <3>1
  <2>10. II[p] = ifs[n] /\ FF[p] = frs[n]
    <3>1. p \in Port /\ p \in Range(ports) /\ Place(ports, p) = n
      BY <2>2, PlaceIs
    <3> HIDE DEF p, n
    <3> QED
      BY <3>1 DEF Spread
  <2> DEFINE J == With(II, p, j)
             G == With(FF, p, joined)
  <2>11. /\ Spread(ports, With(ifs, n, j), I) = J
         /\ Spread(ports, With(frs, n, joined), Quiet) = G
         /\ With(ifs, n, j) = [m \in DOMAIN ports |-> With(ifs, n, j)[m]]
         /\ With(frs, n, joined) = [m \in DOMAIN ports |-> With(frs, n, joined)[m]]
    <3> HIDE DEF n, j, joined
    <3> QED
      BY <1>1, <2>2, SpreadIs DEF J, G
  <2>12. PICK new : /\ Tracks(new, J, W, G, A, H, s)
                    /\ \A y \in Nat : y # hop.id => new[y] = loc[y]
    <3>1. j = SendDatagram(II[p], hop, ip).interface /\ frames = SendDatagram(II[p], hop, ip).frames
      BY <2>10
    <3>2. G = With(FF, p, FF[p] \o frames)
      BY <2>10
    <3> HIDE DEF j, frames, joined, hop, p, ip, G, J, II, FF
    <3>3. J = With(II, p, j)
      BY DEF J
    <3> QED
      BY <1>2, <2>3, <2>4, <2>6, <2>8, <2>9, <3>1, <3>2, <3>3, SendTracks
  <2>13. InHand(new, arrivals, a + 1, H, s)
    <3> SUFFICES ASSUME NEW l \in 1 .. Len(arrivals), l >= a + 1
                 PROVE  IsAt(new, H, s, arrivals[l].dgram, At("hand", 0, 0, l), InitialTTL + 1)
      BY DEF InHand
    <3> DEFINE e == arrivals[l].dgram
    <3>1. IsAt(loc, H, s, e, At("hand", 0, 0, l), InitialTTL + 1)
      BY <1>3 DEF InHand
    <3> HIDE DEF e
    <3>2. e.id \in 1 .. s /\ e.id \in Nat /\ loc[e.id] = At("hand", 0, 0, l)
      BY <3>1 DEF IsAt
    <3>3. e.id # hop.id
      <4> SUFFICES ASSUME e.id = hop.id PROVE FALSE
        OBVIOUS
      <4>1. At("hand", 0, 0, l) = At("hand", 0, 0, a)
        BY <2>4, <2>7, <3>2
      <4>2. l = a
        BY ONLY <4>1 DEF At
      <4> QED
        BY <1>0, <4>2
    <3>4. new[e.id] = loc[e.id]
      BY <2>12, <3>2, <3>3
    <3>5. IsAt(new, H, s, e, At("hand", 0, 0, l), InitialTTL + 1)
      BY <3>1, <3>4 DEF IsAt
    <3> QED
      BY <3>5 DEF e
  <2>14. next.router.interfaces = With(ifs, n, j) /\ next.frames = With(frs, n, joined)
    <3> DEFINE ifs2 == With(ifs, n, j)
               frs2 == With(frs, n, joined)
    <3>1. next = Forwarded(NewRouter(ifs2, t), frs2)
      BY <2>5
    <3> HIDE DEF next, ifs2, frs2
    <3>2. next.router.interfaces = ifs2 /\ next.frames = frs2
      BY ONLY <3>1 DEF Forwarded, NewRouter
    <3> QED
      BY <3>2 DEF ifs2, frs2
  <2> HIDE DEF next, n, j, joined, J, G
  <2>15. \E l : /\ Tracks(l, Spread(ports, next.router.interfaces, I), W,
                          Spread(ports, next.frames, Quiet), A, H, s)
                /\ InHand(l, arrivals, a + 1, H, s)
    BY <2>11, <2>12, <2>13, <2>14
  <2>16. Underway(next, a + 1, ports, t, arrivals, I, W, A, H, s)
    BY <2>5, <2>11, <2>14, <2>15 DEF Underway
  <2> QED
    BY <2>16 DEF next
<1> QED
  BY <1>5, <1>6

(* The function that RouteAll defines. *)
RoutesBy(f, base, arrivals, m) ==
    f = [k \in 0 .. m |-> IF k = 0 THEN base
                          ELSE Forward(f[k - 1], arrivals[k].dgram, arrivals[k].on)]

(* There is a function that says how far route() has come after each       *)
(* arrival.                                                                *)
LEMMA RoutesByExists ==
  ASSUME NEW base, NEW arrivals, NEW L \in Nat
  PROVE  \E f : RoutesBy(f, base, arrivals, L)
<1> DEFINE T == {m \in 0 .. L : ~\E f : RoutesBy(f, base, arrivals, m)}
<1>1. L \in 0 .. L
  OBVIOUS
<1> SUFFICES ASSUME T # {} PROVE FALSE
  BY <1>1, Zenon
<1>2. T \subseteq Nat
  OBVIOUS
<1>3. PICK x \in T : \A y \in T : x <= y
  <2> HIDE DEF T
  <2> QED
    BY <1>2, LeastElement
<1>4. x # 0
  <2> DEFINE g == [k \in 0 .. 0 |-> base]
  <2>1. RoutesBy(g, base, arrivals, 0)
    BY DEF RoutesBy
  <2>2. \E f : RoutesBy(f, base, arrivals, 0)
    BY <2>1
  <2> QED
    BY <1>3, <2>2
<1>5. x - 1 \in 0 .. L /\ x - 1 \notin T /\ x \in Nat /\ x - 1 \in Nat
  <2>1. x \in 0 .. L
    BY <1>3
  <2> HIDE DEF T
  <2>2. x - 1 \in 0 .. L /\ ~(x <= x - 1)
    BY <1>4, <2>1
  <2> QED
    BY <1>3, <2>1, <2>2
<1>6. PICK g : RoutesBy(g, base, arrivals, x - 1)
  BY <1>5
<1> HIDE DEF T
<1> DEFINE last == Forward(g[x - 1], arrivals[x].dgram, arrivals[x].on)
           h == [k \in 0 .. x |-> IF k < x THEN g[k] ELSE last]
<1>7. /\ \A k \in 0 .. x - 1 : h[k] = g[k]
      /\ h[x] = last
  BY <1>5
<1>8. \A k \in 0 .. x - 1 : g[k] = IF k = 0 THEN base
                                   ELSE Forward(g[k - 1], arrivals[k].dgram, arrivals[k].on)
  BY <1>6 DEF RoutesBy
<1>9. h = [k \in 0 .. x |-> h[k]]
  OBVIOUS
<1> HIDE DEF h
<1>10. \A k \in 0 .. x : h[k] = IF k = 0 THEN base
                                ELSE Forward(h[k - 1], arrivals[k].dgram, arrivals[k].on)
  <2> SUFFICES ASSUME NEW k \in 0 .. x
               PROVE  h[k] = IF k = 0 THEN base
                             ELSE Forward(h[k - 1], arrivals[k].dgram, arrivals[k].on)
    OBVIOUS
  <2>1. CASE k = x
    <3>1. x - 1 \in 0 .. x - 1
      BY <1>5
    <3>2. h[x - 1] = g[x - 1]
      BY <1>7, <3>1
    <3> QED
      BY <1>4, <1>7, <2>1, <3>2
  <2>2. CASE k # x /\ k = 0
    <3>1. k \in 0 .. x - 1
      BY <1>5, <2>2
    <3> QED
      BY <1>7, <1>8, <2>2, <3>1
  <2>3. CASE k # x /\ k # 0
    <3>1. k \in 0 .. x - 1 /\ k - 1 \in 0 .. x - 1
      BY <1>5, <2>3
    <3>2. h[k] = g[k] /\ h[k - 1] = g[k - 1]
      BY <1>7, <3>1
    <3>3. g[k] = Forward(g[k - 1], arrivals[k].dgram, arrivals[k].on)
      BY <1>8, <2>3, <3>1
    <3> QED
      BY <2>3, <3>2, <3>3
  <2> QED
    BY <2>1, <2>2, <2>3
<1>11. RoutesBy(h, base, arrivals, x)
  BY <1>9, <1>10 DEF RoutesBy
<1> QED
  BY <1>3, <1>11 DEF T

EmptyHanded(router) ==
    [router EXCEPT !.interfaces = [n \in DOMAIN @ |-> [@[n] EXCEPT !.datagrams_received = <<>>]]]

(* route() ends where that function ends. *)
LEMMA RouteAllIs ==
  ASSUME NEW router, NEW arrivals, arrivals = Arrivals(router), NEW L, L = Len(arrivals), L \in Nat,
         NEW base, base = Forwarded(EmptyHanded(router), Silence(router))
  PROVE  \E f : RoutesBy(f, base, arrivals, L) /\ RouteAll(router) = f[L]
<1> DEFINE after == CHOOSE f : RoutesBy(f, base, arrivals, L)
<1>1. RoutesBy(after, base, arrivals, L)
  BY RoutesByExists
<1>2. RouteAll(router) = after[L]
  BY DEF RouteAll, RoutesBy, EmptyHanded
<1> HIDE DEF after
<1> QED
  BY <1>1, <1>2

(* The whole of route(). *)
LEMMA RouteTracks ==
  ASSUME NEW loc, NEW I, NEW W, NEW A, NEW H, NEW s \in Nat, Tracks(loc, I, W, Quiet, A, H, s),
         \A id \in 1 .. s : H[id] \in Nat,
         NEW ports, Distinct(ports), NEW t, LeadsOn(t, ports),
         NEW done, done = RouteAll(NewRouter([n \in DOMAIN ports |-> I[ports[n]]], t))
  PROVE  \E new : Tracks(new, Spread(ports, done.router.interfaces, I), W,
                         Spread(ports, done.frames, Quiet), A, H, s)
<1> DEFINE ifs == [n \in DOMAIN ports |-> I[ports[n]]]
           router == NewRouter(ifs, t)
           arrivals == Arrivals(router)
           L == Len(arrivals)
           empty == [n \in DOMAIN ports |-> [I[ports[n]] EXCEPT !.datagrams_received = <<>>]]
           silence == [n \in DOMAIN ports |-> <<>>]
           base == Forwarded(NewRouter(empty, t), silence)
<1>1. \A p \in Port : GoodIface(I[p], p)
  BY DEF Tracks, Network
<1>2. arrivals \in Seq(Arrival) /\ \E N, J : Collects(arrivals, ports, I, N, J)
  BY <1>1, ArrivalsAre
<1>3. L \in Nat
  <2> HIDE DEF arrivals
  <2> QED
    BY <1>2
<1>4. base = Forwarded(EmptyHanded(router), Silence(router))
  <2>1. router.interfaces = ifs /\ DOMAIN ifs = DOMAIN ports /\ router = [interfaces |-> ifs, routes |-> t]
    BY DEF NewRouter
  <2>2. \A n \in DOMAIN ports : ifs[n] = I[ports[n]]
    OBVIOUS
  <2>3. Silence(router) = silence
    BY <2>1 DEF Silence
  <2>4. [n \in DOMAIN router.interfaces |-> [router.interfaces[n] EXCEPT !.datagrams_received = <<>>]] = empty
    <3> HIDE DEF router, ifs
    <3> QED
      BY <2>1, <2>2
  <2>5. EmptyHanded(router) = [router EXCEPT !.interfaces = empty]
    BY <2>4 DEF EmptyHanded
  <2> HIDE DEF empty, ifs
  <2>6. [router EXCEPT !.interfaces = empty] = NewRouter(empty, t)
    BY <2>1 DEF NewRouter
  <2> QED
    BY <2>3, <2>5, <2>6
<1>5. PICK f : RoutesBy(f, base, arrivals, L) /\ done = f[L]
  <2> HIDE DEF base
  <2>1. done = RouteAll(router)
    OBVIOUS
  <2> HIDE DEF router
  <2>2. \E f : RoutesBy(f, base, arrivals, L) /\ RouteAll(router) = f[L]
    BY <1>3, <1>4, RouteAllIs
  <2> QED
    BY <2>1, <2>2
<1>6. /\ f[0] = base
      /\ \A k \in 1 .. L : f[k] = Forward(f[k - 1], arrivals[k].dgram, arrivals[k].on)
  <2> HIDE DEF base, arrivals, L
  <2>1. \A k \in 0 .. L : f[k] = IF k = 0 THEN base ELSE Forward(f[k - 1], arrivals[k].dgram, arrivals[k].on)
    BY <1>5 DEF RoutesBy
  <2>2. 0 \in 0 .. L /\ \A k \in 1 .. L : k \in 0 .. L /\ k # 0
    BY <1>3
  <2> QED
    BY <2>1, <2>2
<1>7. PICK N, J : Collects(arrivals, ports, I, N, J)
  BY <1>2
<1> HIDE DEF arrivals
<1>8. PICK start : /\ Tracks(start, Drained(I, ports), W, Quiet, A, H, s)
                   /\ InHand(start, arrivals, 1, H, s)
  BY <1>2, <1>7, CollectTracks
<1>9. Spread(ports, empty, I) = Drained(I, ports)
  <2> DEFINE u(p) == IF p \in Range(ports) THEN empty[Place(ports, p)] ELSE I[p]
             v(p) == IF p \in Range(ports) THEN [I[p] EXCEPT !.datagrams_received = <<>>] ELSE I[p]
  <2>1. \A p \in Range(ports) : Place(ports, p) \in DOMAIN ports /\ ports[Place(ports, p)] = p
    BY DEF Range, Place
  <2>2. \A p \in Port : u(p) = v(p)
    BY <2>1
  <2>3. Spread(ports, empty, I) = [p \in Port |-> u(p)] /\ Drained(I, ports) = [p \in Port |-> v(p)]
    BY DEF Spread, Drained
  <2> HIDE DEF u, v
  <2> QED
    BY <2>2, <2>3
<1>10. Spread(ports, silence, Quiet) = Quiet
  <2>1. \A p \in Range(ports) : silence[Place(ports, p)] = <<>>
    BY DEF Range, Place
  <2> QED
    BY <2>1 DEF Spread, Quiet
<1> DEFINE good(k) == Underway(f[k], k + 1, ports, t, arrivals, I, W, A, H, s)
           U == {k \in 0 .. L : ~good(k)}
<1>11. good(0)
  <2>1. base.router.interfaces = empty /\ base.frames = silence
    BY DEF Forwarded, NewRouter
  <2>2. empty = [n \in DOMAIN ports |-> empty[n]] /\ silence = [n \in DOMAIN ports |-> silence[n]]
    OBVIOUS
  <2>3. base = Forwarded(NewRouter(empty, t), silence)
    OBVIOUS
  <2> HIDE DEF base, empty, silence
  <2>4. \E l : /\ Tracks(l, Spread(ports, empty, I), W, Spread(ports, silence, Quiet), A, H, s)
               /\ InHand(l, arrivals, 1, H, s)
    BY <1>8, <1>9, <1>10
  <2>5. Underway(base, 1, ports, t, arrivals, I, W, A, H, s)
    BY <2>1, <2>2, <2>3, <2>4 DEF Underway
  <2>6. 0 + 1 = 1
    OBVIOUS
  <2> QED
    BY <1>6, <2>5, <2>6
<1>12. U = {}
  <2> SUFFICES ASSUME U # {} PROVE FALSE
    OBVIOUS
  <2>1. U \subseteq Nat
    OBVIOUS
  <2>2. PICK x \in U : \A y \in U : x <= y
    <3> HIDE DEF U
    <3> QED
      BY <2>1, LeastElement
  <2>3. x \in 0 .. L /\ ~good(x)
    BY <2>2
  <2>4. x # 0
    BY <1>11, <2>3
  <2>5. x \in 1 .. L /\ x - 1 \in 0 .. L /\ ~(x <= x - 1) /\ (x - 1) + 1 = x
    <3> HIDE DEF good
    <3> QED
      BY <1>3, <2>3, <2>4
  <2>6. good(x - 1)
    <3> HIDE DEF good
    <3> QED
      BY <2>2, <2>5
  <2>7. Underway(f[x - 1], x, ports, t, arrivals, I, W, A, H, s)
    BY <2>5, <2>6
  <2>8. Underway(Forward(f[x - 1], arrivals[x].dgram, arrivals[x].on), x + 1, ports, t, arrivals, I, W, A, H, s)
    BY <1>2, <2>5, <2>7, ForwardTracks
  <2>9. good(x)
    BY <1>6, <2>5, <2>8
  <2> QED
    BY <2>3, <2>9
<1>13. good(L)
  BY <1>3, <1>12
<1> QED
  BY <1>5, <1>13 DEF Underway

-----------------------------------------------------------------------------
(* The steps of the network *)

(* What every reachable network satisfies: each datagram has one place,    *)
(* its hops go with its age, and the tables hold routes that were given.   *)
NetInv ==
    /\ TablesInv
    /\ \A r \in RouterNames : given[r] \subseteq routes[r]
    /\ load \in Loads /\ sent \in 0 .. load.datagrams
    /\ hops \in [1 .. load.datagrams -> 0 .. InitialTTL]
    /\ \A id \in 1 .. load.datagrams : id > sent => hops[id] = 0
    /\ \E loc : Tracks(loc, ifaces, wire, Quiet, arrived, hops, sent)

(* A new interface holds nothing. *)
LEMMA NewInterfaceIsGood ==
  ASSUME NEW p \in Port, NEW i, \/ i = NewInterface(p, AddressOf[p], TRUE)
                                \/ i = Initialize(NewInterface(p, AddressOf[p], TRUE))
  PROVE  /\ GoodIface(i, p) /\ i.datagrams_received = <<>>
         /\ \A ip \in IP : Waits(i, ip) = <<>>
<1> DEFINE cache == [ip \in IP |-> NoEntry]
           queues == [ip \in IP |-> NoQueue]
           none == <<>>
<1>1. NoEntry \in CacheEntry /\ NoEntry.mac = NoMac /\ NoQueue \in Queue /\ NoQueue.dgrams = <<>>
  BY DEF NoEntry, CacheEntry, NoQueue, Queue
<1>2. GoodCache(cache)
  BY <1>1 DEF GoodCache
<1>3. queues \in [IP -> Queue] /\ \A ip \in IP : queues[ip].dgrams = <<>>
  BY <1>1
<1>4. none \in Seq(Dgram)
  OBVIOUS
<1>5. \E b, c, d : i = [ethernet_address |-> p, ip_address |-> AddressOf[p], shared |-> b,
                        initialized |-> c, on_timeout |-> d, arp_table |-> cache,
                        pending |-> queues, datagrams_received |-> none]
  BY DEF NewInterface, Initialize
<1> HIDE DEF cache, queues, none
<1>6. PICK b, c, d : i = [ethernet_address |-> p, ip_address |-> AddressOf[p], shared |-> b,
                          initialized |-> c, on_timeout |-> d, arp_table |-> cache,
                          pending |-> queues, datagrams_received |-> none]
  BY <1>5
<1>7. /\ i.shared = b /\ i.initialized = c /\ i.on_timeout = d /\ i.arp_table = cache
      /\ i.pending = queues /\ i.datagrams_received = none
  BY <1>6
<1>8. GoodIface(i, p)
  BY <1>2, <1>3, <1>4, <1>6, <1>7 DEF GoodIface
<1> QED
  BY <1>3, <1>7, <1>8 DEF Waits, none

(* At the start no datagram exists. *)
LEMMA NetStart == Init => NetInv
<1> SUFFICES ASSUME Init PROVE NetInv
  OBVIOUS
<1> DEFINE N == load.datagrams
<1>1. TablesInv /\ \A r \in RouterNames : given[r] \subseteq routes[r]
  BY TablesStart DEF Init
<1>2. load \in Loads /\ sent = 0 /\ wire = Quiet /\ hops = [id \in 1 .. N |-> 0]
      /\ arrived = [h \in Hosts |-> <<>>]
  BY DEF Init, Quiet
<1>3. N \in Nat /\ InitialTTL \in Nat
  BY <1>2, TopologyAssumption
<1> HIDE DEF N
<1>4. hops \in [1 .. N -> 0 .. InitialTTL] /\ \A id \in 1 .. N : hops[id] = 0
  BY <1>2, <1>3
<1>5. /\ ifaces = [p \in Port |-> ifaces[p]]
      /\ \A p \in Port : \/ ifaces[p] = NewInterface(p, AddressOf[p], TRUE)
                         \/ ifaces[p] = Initialize(NewInterface(p, AddressOf[p], TRUE))
  BY DEF Init
<1>6. \A p \in Port : /\ GoodIface(ifaces[p], p) /\ ifaces[p].datagrams_received = <<>>
                      /\ \A ip \in IP : Waits(ifaces[p], ip) = <<>>
  BY <1>5, NewInterfaceIsGood
<1> DEFINE loc == <<>>
<1> HIDE DEF loc
<1>7. /\ Quiet \in [Port -> Seq(AnyFrame)] /\ \A p \in Port : Quiet[p] = <<>> /\ Len(Quiet[p]) = 0
      /\ InFrames(loc, Quiet, hops, sent)
  BY QuietNetwork
<1>8. arrived \in [Hosts -> Seq(Dgram)] /\ \A h \in Hosts : arrived[h] = <<>>
  BY <1>2
<1>9. Len(<<>>) = 0 /\ \A k \in 1 .. 0 : FALSE
  OBVIOUS
<1>10. Network(ifaces, wire, Quiet, arrived)
  BY <1>2, <1>5, <1>6, <1>7, <1>8 DEF Network
<1>11. OnWires(loc, wire, hops, sent)
  BY <1>2, <1>7, <1>9 DEF OnWires
<1>12. InQueues(loc, ifaces, hops, sent)
  BY <1>6, <1>9 DEF InQueues
<1>13. InInboxes(loc, ifaces, hops, sent)
  BY <1>6, <1>9 DEF InInboxes
<1>14. AtHosts(loc, arrived, hops, sent)
  BY <1>8, <1>9 DEF AtHosts
<1>15. Tracks(loc, ifaces, wire, Quiet, arrived, hops, sent)
  BY <1>7, <1>10, <1>11, <1>12, <1>13, <1>14 DEF Tracks
<1>16. sent \in 0 .. N /\ hops \in [1 .. N -> 0 .. InitialTTL] /\ \A id \in 1 .. N : id > sent => hops[id] = 0
  BY <1>2, <1>3, <1>4
<1>17. \E l : Tracks(l, ifaces, wire, Quiet, arrived, hops, sent)
  BY <1>15
<1> QED
  BY <1>1, <1>2, <1>16, <1>17 DEF NetInv, N

(* A new datagram is in the hand of its host. *)
LEMMA FreshTracks ==
  ASSUME NEW loc, NEW I, NEW W, NEW F, NEW A, NEW H, NEW s \in Nat, Tracks(loc, I, W, F, A, H, s), NEW z
  PROVE  Tracks(Put(loc, s + 1, z), I, W, F, A, H, s + 1) /\ Put(loc, s + 1, z)[s + 1] = z
<1> DEFINE new == Put(loc, s + 1, z)
           m == s + 1
<1>1. new[m] = z /\ \A y \in 1 .. s : new[y] = loc[y] /\ y \in 1 .. m
  BY DEF Put
<1> HIDE DEF new, m
<1>2. ASSUME NEW d, NEW x, NEW age, IsAt(loc, H, s, d, x, age)
      PROVE  IsAt(new, H, m, d, x, age)
  BY <1>1, <1>2 DEF IsAt
<1>3. OnWires(new, W, H, m)
  BY <1>2 DEF Tracks, OnWires
<1>4. InQueues(new, I, H, m)
  BY <1>2 DEF Tracks, InQueues
<1>5. InInboxes(new, I, H, m)
  BY <1>2 DEF Tracks, InInboxes
<1>6. AtHosts(new, A, H, m)
  BY <1>2 DEF Tracks, AtHosts
<1>7. InFrames(new, F, H, m)
  BY <1>2 DEF Tracks, InFrames
<1>8. Tracks(new, I, W, F, A, H, m)
  BY <1>3, <1>4, <1>5, <1>6, <1>7 DEF Tracks
<1> QED
  BY <1>1, <1>8 DEF new, m

(* The fields of a datagram. *)
LEMMA DatagramIs ==
  ASSUME NEW id \in Nat, NEW dst \in IP, NEW ttl \in Nat
  PROVE  /\ Datagram(id, dst, ttl) \in Dgram /\ Datagram(id, dst, ttl).id = id
         /\ Datagram(id, dst, ttl).dst = dst /\ Datagram(id, dst, ttl).ttl = ttl
<1>1. Datagram(id, dst, ttl) = [id |-> id, dst |-> dst, ttl |-> ttl, cksum |-> ttl]
  BY DEF Datagram, ComputeChecksum
<1> QED
  BY <1>1 DEF Dgram

(* The frames that one port transmits. *)
LEMMA OnlyIs ==
  ASSUME NEW p \in Port, NEW frames \in Seq(AnyFrame)
  PROVE  With(Quiet, p, Quiet[p] \o frames) = Only(p, frames)
<1>1. Quiet[p] = <<>> /\ <<>> \o frames = frames
  BY QuietNetwork
<1>2. With(Quiet, p, frames) = Only(p, frames)
  BY DEF With, Quiet, Only
<1> QED
  BY <1>1, <1>2

(* What is left to show of a step that transmits F. *)
LEMMA SentOn ==
  ASSUME NetInv, NEW loc, NEW I, NEW W, NEW F, NEW s \in sent .. load.datagrams,
         Tracks(loc, I, W, F, arrived, hops, s),
         ifaces' = I, wire' = Transmitted(W, F), hops' = Counted(F), sent' = s,
         UNCHANGED <<arrived, load>>
  PROVE  /\ load' \in Loads /\ sent' \in 0 .. load'.datagrams
         /\ hops' \in [1 .. load'.datagrams -> 0 .. InitialTTL]
         /\ \A id \in 1 .. load'.datagrams : id > sent' => hops'[id] = 0
         /\ \E new : Tracks(new, ifaces', wire', Quiet, arrived', hops', sent')
<1> DEFINE N == load.datagrams
<1>1. /\ load \in Loads /\ sent \in 0 .. N /\ hops \in [1 .. N -> 0 .. InitialTTL]
      /\ \A id \in 1 .. N : id > sent => hops[id] = 0
  BY DEF NetInv
<1>2. N \in Nat
  BY <1>1, TopologyAssumption
<1>3. load' = load /\ load'.datagrams = N /\ arrived' = arrived /\ s \in sent .. N
  OBVIOUS
<1> HIDE DEF N
<1>4. s \in 0 .. N /\ s \in Nat
  BY <1>1, <1>2, <1>3
<1>5. /\ \E new : Tracks(new, I, Transmitted(W, F), Quiet, arrived, Counted(F), s)
      /\ Counted(F) \in [1 .. N -> 0 .. InitialTTL]
      /\ \A id \in 1 .. N : id > s => Counted(F)[id] = hops[id]
  <2>1. Tracks(loc, I, W, F, arrived, hops, s) /\ hops \in [1 .. N -> 0 .. InitialTTL]
    BY <1>1
  <2> QED
    BY ONLY <1>2, <1>4, <2>1, TransmitTracks
<1>6. \A id \in 1 .. N : id > s => Counted(F)[id] = 0
  BY <1>1, <1>2, <1>3, <1>5
<1> QED
  BY <1>1, <1>3, <1>4, <1>5, <1>6

(* A host sends: one datagram more, in the place that send_datagram()      *)
(* gives it.                                                               *)
LEMMA SendingKeeps ==
  ASSUME NetInv, NEW h \in Hosts, NEW dst \in IP, HostSend(h, dst)
  PROVE  /\ load' \in Loads /\ sent' \in 0 .. load'.datagrams
         /\ hops' \in [1 .. load'.datagrams -> 0 .. InitialTTL]
         /\ \A id \in 1 .. load'.datagrams : id > sent' => hops'[id] = 0
         /\ \E new : Tracks(new, ifaces', wire', Quiet, arrived', hops', sent')
<1> DEFINE N == load.datagrams
           s == sent + 1
           d == Datagram(s, dst, InitialTTL)
           ip == Gateway[h]
           outcome == SendDatagram(ifaces[h], d, ip)
           j == outcome.interface
           frames == outcome.frames
           z == At("hand", 0, 0, 0)
<1>1. /\ sent < N /\ sent' = s /\ arrived' = arrived /\ load' = load
      /\ ifaces' = With(ifaces, h, j) /\ wire' = Transmitted(wire, Only(h, frames))
      /\ hops' = Counted(Only(h, frames))
  BY DEF HostSend, Apply, With
<1>2. sent \in 0 .. N /\ N \in Nat /\ \A id \in 1 .. N : id > sent => hops[id] = 0
  BY TopologyAssumption DEF NetInv
<1>3. h \in Port /\ ip \in IP /\ ip \notin HostAddresses /\ InitialTTL \in Nat /\ InitialTTL >= 1
  BY TopologyAssumption DEF Port
<1> HIDE DEF N
<1>4. s \in sent .. N /\ s \in 1 .. N /\ s \in Nat /\ s > sent /\ sent \in Nat /\ s \in 1 .. s
  BY <1>1, <1>2
<1>5. hops[s] = 0
  BY <1>2, <1>4
<1>6. PICK old : Tracks(old, ifaces, wire, Quiet, arrived, hops, sent)
  BY DEF NetInv
<1> DEFINE loc == Put(old, s, z)
<1>7. Tracks(loc, ifaces, wire, Quiet, arrived, hops, s) /\ loc[s] = z
  <2> HIDE DEF z
  <2> QED
    BY <1>4, <1>6, FreshTracks
<1> HIDE DEF loc
<1>8. d \in Dgram /\ d.id = s /\ d.dst = dst /\ d.ttl = InitialTTL
  <2> HIDE DEF s
  <2> QED
    BY <1>3, <1>4, DatagramIs
<1> HIDE DEF d, s, ip
<1>9. IsAt(loc, hops, s, d, At("hand", 0, 0, 0), InitialTTL)
  <2>1. InitialTTL + 0 = InitialTTL
    BY <1>3
  <2> QED
    BY <1>4, <1>5, <1>7, <1>8, <2>1 DEF IsAt
<1>10. d.ttl >= 1
  BY <1>3, <1>8
<1>11. GoodIface(ifaces[h], h)
  BY <1>3, <1>6 DEF Tracks, Network
<1>12. frames \in Seq(AnyFrame)
  BY <1>3, <1>8, <1>11, SendIs
<1>13. PICK new : Tracks(new, With(ifaces, h, j), wire, With(Quiet, h, Quiet[h] \o frames), arrived, hops, s)
  <2>1. j = SendDatagram(ifaces[h], d, ip).interface /\ frames = SendDatagram(ifaces[h], d, ip).frames
    OBVIOUS
  <2> HIDE DEF j, frames
  <2> QED
    BY <1>3, <1>4, <1>7, <1>8, <1>9, <1>10, <2>1, SendTracks
<1>14. Tracks(new, With(ifaces, h, j), wire, Only(h, frames), arrived, hops, s)
  BY <1>3, <1>12, <1>13, OnlyIs
<1>15. s \in sent .. load.datagrams
  BY <1>4 DEF N
<1> HIDE DEF j, frames
<1> QED
  BY <1>1, <1>14, <1>15, SentOn

(* A frame arrives: its datagram moves, or a queue is released. *)
LEMMA DeliveryKeeps ==
  ASSUME NetInv, NEW p \in Port, Deliver(p)
  PROVE  /\ load' \in Loads /\ sent' \in 0 .. load'.datagrams
         /\ hops' \in [1 .. load'.datagrams -> 0 .. InitialTTL]
         /\ \A id \in 1 .. load'.datagrams : id > sent' => hops'[id] = 0
         /\ \E new : Tracks(new, ifaces', wire', Quiet, arrived', hops', sent')
<1> DEFINE f == wire[p][1]
           i == ifaces[p]
           outcome == RecvFrame(i, f)
           j == outcome.interface
           frames == outcome.frames
           rest == With(wire, p, Tail(wire[p]))
           I == With(ifaces, p, j)
           F == Only(p, frames)
<1>1. PICK old : Tracks(old, ifaces, wire, Quiet, arrived, hops, sent)
  BY DEF NetInv
<1>2. wire[p] \in Seq(AnyFrame) /\ GoodIface(i, p) /\ OnWires(old, wire, hops, sent)
  BY <1>1 DEF Tracks, Network
<1>3. wire[p] # <<>> /\ Head(wire[p]) = f /\ f \in AnyFrame /\ 1 \in 1 .. Len(wire[p])
  BY <1>2 DEF Deliver
<1>4. /\ ifaces' = I /\ wire' = Transmitted(rest, F) /\ hops' = Counted(F)
      /\ sent' = sent /\ arrived' = arrived /\ load' = load
  BY <1>3 DEF Deliver, Apply, With
<1>5. sent \in Nat /\ sent \in sent .. load.datagrams
  BY TopologyAssumption DEF NetInv
<1> DEFINE ours == f.type = "IPv4" /\ f.dst = p
<1>6. PICK loc : /\ Tracks(loc, ifaces, rest, Quiet, arrived, hops, sent)
                 /\ ours => IsAt(loc, hops, sent, f.payload, At("hand", 0, 0, 0), InitialTTL + 1)
  <2> HIDE DEF rest
  <2>1. rest = With(wire, p, Tail(wire[p]))
    BY DEF rest
  <2> QED
    BY <1>1, <1>3, <1>5, <2>1, ShiftTracks
<1>7. ours => f.payload \in Dgram /\ (p \in Hosts => f.payload.dst = AddressOf[p])
  <2> SUFFICES ASSUME ours PROVE f.payload \in Dgram /\ (p \in Hosts => f.payload.dst = AddressOf[p])
    OBVIOUS
  <2>1. f.payload \in Dgram
    BY <1>3, DataFrameIs
  <2>2. p \in Hosts => f.payload.dst = AddressOf[p]
    BY <1>2, <1>3 DEF OnWires
  <2> QED
    BY <2>1, <2>2
<1> HIDE DEF f, ours
<1>8. /\ GoodIface(j, p) /\ frames \in Seq(AnyFrame)
      /\ \/ Ignored(i, j, frames) \/ Kept(i, j, frames, f, p)
         \/ \E ip \in IP, m \in Port, n \in Nat : Released(i, j, frames, ip, m, n)
  BY <1>2, <1>3, RecvIs
<1> HIDE DEF j, frames, rest
<1>9. \E new : Tracks(new, I, rest, F, arrived, hops, sent)
  <2>1. CASE Ignored(i, j, frames)
    <3>1. Tracks(loc, I, rest, F, arrived, hops, sent)
      BY <1>5, <1>6, <1>8, <2>1, IgnoreTracks
    <3> QED
      BY <3>1
  <2>2. CASE Kept(i, j, frames, f, p)
    <3>1. ours
      BY <2>2 DEF Kept, ours
    <3> QED
      BY <1>5, <1>6, <1>7, <1>8, <2>2, <3>1, KeepTracks
  <2>3. CASE \E ip \in IP, m \in Port, n \in Nat : Released(i, j, frames, ip, m, n)
    <3>1. PICK ip \in IP, m \in Port, n \in Nat : Released(i, j, frames, ip, m, n)
      BY <2>3
    <3> QED
      BY <1>5, <1>6, <1>8, <3>1, ReleaseTracks
  <2> QED
    BY <1>8, <2>1, <2>2, <2>3
<1>10. PICK new : Tracks(new, I, rest, F, arrived, hops, sent)
  BY <1>9
<1> HIDE DEF I, F
<1> QED
  BY <1>4, <1>5, <1>10, SentOn

(* A frame is lost: its datagram exists no longer. *)
LEMMA LossKeeps ==
  ASSUME NetInv, NEW p \in Port, Lose(p)
  PROVE  /\ load' \in Loads /\ sent' \in 0 .. load'.datagrams
         /\ hops' \in [1 .. load'.datagrams -> 0 .. InitialTTL]
         /\ \A id \in 1 .. load'.datagrams : id > sent' => hops'[id] = 0
         /\ \E new : Tracks(new, ifaces', wire', Quiet, arrived', hops', sent')
<1>1. PICK old : Tracks(old, ifaces, wire, Quiet, arrived, hops, sent)
  BY DEF NetInv
<1>2. /\ wire[p] # <<>> /\ wire' = With(wire, p, Tail(wire[p]))
      /\ load' = load /\ sent' = sent /\ hops' = hops /\ ifaces' = ifaces /\ arrived' = arrived
  BY DEF Lose, With
<1>3. sent \in Nat
  BY TopologyAssumption DEF NetInv
<1>4. \E new : Tracks(new, ifaces, wire', Quiet, arrived, hops, sent)
  BY <1>1, <1>2, <1>3, ShiftTracks
<1> QED
  BY <1>2, <1>4 DEF NetInv

(* A host takes what it has received. *)
LEMMA TakingKeeps ==
  ASSUME NetInv, NEW h \in Hosts, HostTake(h)
  PROVE  /\ load' \in Loads /\ sent' \in 0 .. load'.datagrams
         /\ hops' \in [1 .. load'.datagrams -> 0 .. InitialTTL]
         /\ \A id \in 1 .. load'.datagrams : id > sent' => hops'[id] = 0
         /\ \E new : Tracks(new, ifaces', wire', Quiet, arrived', hops', sent')
<1> DEFINE j == [ifaces[h] EXCEPT !.datagrams_received = <<>>]
           B == With(arrived, h, arrived[h] \o ifaces[h].datagrams_received)
<1>1. PICK old : Tracks(old, ifaces, wire, Quiet, arrived, hops, sent)
  BY DEF NetInv
<1>2. /\ ifaces' = With(ifaces, h, j) /\ arrived' = B
      /\ load' = load /\ sent' = sent /\ hops' = hops /\ wire' = wire
  BY DEF HostTake, With
<1>3. sent \in Nat
  BY TopologyAssumption DEF NetInv
<1>4. \E new : Tracks(new, With(ifaces, h, j), wire, Quiet, B, hops, sent)
  <2>1. /\ j = [ifaces[h] EXCEPT !.datagrams_received = <<>>]
        /\ B = With(arrived, h, arrived[h] \o ifaces[h].datagrams_received)
    OBVIOUS
  <2> HIDE DEF j, B
  <2> QED
    BY ONLY <1>1, <1>3, <2>1, h \in Hosts, TakeTracks
<1> QED
  BY <1>2, <1>4 DEF NetInv

(* A router routes all that has arrived. *)
LEMMA RoutingKeeps ==
  ASSUME NetInv, NEW r \in RouterNames, Route(r)
  PROVE  /\ load' \in Loads /\ sent' \in 0 .. load'.datagrams
         /\ hops' \in [1 .. load'.datagrams -> 0 .. InitialTTL]
         /\ \A id \in 1 .. load'.datagrams : id > sent' => hops'[id] = 0
         /\ \E new : Tracks(new, ifaces', wire', Quiet, arrived', hops', sent')
<1> DEFINE ports == PortsOf[r]
           t == tables[r]
           done == RouteAll(NewRouter([n \in DOMAIN ports |-> ifaces[ports[n]]], t))
           I == Spread(ports, done.router.interfaces, ifaces)
           F == Spread(ports, done.frames, Quiet)
<1>1. PICK old : Tracks(old, ifaces, wire, Quiet, arrived, hops, sent)
  BY DEF NetInv
<1>2. F = [p \in Port |-> IF p \in Range(ports) THEN done.frames[Place(ports, p)] ELSE <<>>]
  <2>1. \A p \in Port : Quiet[p] = <<>>
    BY DEF Quiet
  <2> HIDE DEF done, ports, Quiet
  <2> QED
    BY <2>1 DEF Spread
<1>3. /\ ifaces' = I /\ wire' = Transmitted(wire, F) /\ hops' = Counted(F)
      /\ sent' = sent /\ arrived' = arrived /\ load' = load
  <2>1. I = [p \in Port |-> IF p \in Range(ports) THEN done.router.interfaces[Place(ports, p)] ELSE ifaces[p]]
    BY DEF Spread
  <2> HIDE DEF I, F
  <2> QED
    BY <1>2, <2>1 DEF Route, Place
<1>4. Distinct(ports)
  BY TopologyAssumption DEF Distinct, IsInjective
<1>5. LeadsOn(t, ports)
  <2> SUFFICES ASSUME NEW dst \in IP, FindRoute(t, dst) # 0
               PROVE  LET k == FindRoute(t, dst)
                      IN  /\ t[k].interface_num \in DOMAIN ports
                          /\ t[k].next_hop \in {NoHop} \cup (IP \ HostAddresses)
    BY DEF LeadsOn
  <2> DEFINE k == FindRoute(t, dst)
             candidates == {entry \in given[r] : Covers(entry, dst)}
  <2>1. dst \in Nat
    BY InternetworkAssumption
  <2>2. (\A entry \in given[r] : GoodEntry(entry)) /\ GoodTable(t, given[r])
        /\ given[r] \subseteq routes[r] /\ routes \in Routes
    BY DEF NetInv, TablesInv
  <2>3. IF candidates = {} THEN k = 0
        ELSE /\ k # 0 /\ t[k] \in candidates
             /\ \A entry \in candidates : entry.prefix_length <= t[k].prefix_length
    <3> HIDE DEF t
    <3> QED
      BY <2>1, <2>2, FirstMatchIsLongest
  <2>4. t[k] \in routes[r]
    BY <2>2, <2>3
  <2> QED
    BY <2>2, <2>4, TopologyAssumption
<1>6. sent \in Nat /\ sent \in sent .. load.datagrams /\ \A id \in 1 .. sent : hops[id] \in Nat
  <2>1. load.datagrams \in Nat /\ InitialTTL \in Nat
    BY TopologyAssumption DEF NetInv
  <2>2. sent \in 0 .. load.datagrams /\ hops \in [1 .. load.datagrams -> 0 .. InitialTTL]
    BY DEF NetInv
  <2> DEFINE N == load.datagrams
  <2> HIDE DEF N
  <2>3. N \in Nat /\ sent \in 0 .. N /\ hops \in [1 .. N -> 0 .. InitialTTL]
    BY <2>1, <2>2 DEF N
  <2>4. sent \in Nat /\ sent \in sent .. N /\ \A id \in 1 .. sent : hops[id] \in Nat
    BY <2>1, <2>3
  <2> QED
    BY <2>4 DEF N
<1>7. PICK new : Tracks(new, I, wire, F, arrived, hops, sent)
  <2>1. done = RouteAll(NewRouter([n \in DOMAIN ports |-> ifaces[ports[n]]], t))
    OBVIOUS
  <2> HIDE DEF ports, t, done
  <2> QED
    BY <1>1, <1>4, <1>5, <1>6, <2>1, RouteTracks
<1> HIDE DEF I, F
<1> QED
  BY <1>3, <1>6, <1>7, SentOn

(* A second passes: queues that time out are dropped, and only requests    *)
(* are transmitted.                                                        *)
LEMMA TickTracks ==
  ASSUME NEW loc, NEW I, NEW W, NEW A, NEW H, NEW s, Tracks(loc, I, W, Quiet, A, H, s),
         NEW J, J = [p \in Port |-> TickInterface(I[p], 1)],
         NEW F \in [Port -> Seq(AnyFrame)],
         \A p \in Port : \A k \in 1 .. Len(F[p]) : F[p][k].type # "IPv4"
  PROVE  Tracks(loc, J, W, F, A, H, s)
<1>1. Network(I, W, Quiet, A) /\ \A p \in Port : GoodIface(I[p], p)
  BY DEF Tracks, Network
<1>2. \A p \in Port : /\ GoodIface(J[p], p) /\ J[p].datagrams_received = I[p].datagrams_received
                      /\ \A ip \in IP : Waits(J[p], ip) = Waits(I[p], ip) \/ Waits(J[p], ip) = <<>>
  BY <1>1, TickIs
<1>3. J = [p \in Port |-> J[p]]
  OBVIOUS
<1>4. Network(J, W, F, A)
  BY <1>1, <1>2, <1>3 DEF Network
<1>5. InInboxes(loc, J, H, s)
  BY <1>2 DEF Tracks, InInboxes
<1>6. InQueues(loc, J, H, s)
  <2> SUFFICES ASSUME NEW q \in Port, NEW b \in IP, NEW k \in 1 .. Len(Waits(J[q], b))
               PROVE  /\ IsAt(loc, H, s, Waits(J[q], b)[k], At("queue", q, b, k), InitialTTL)
                      /\ Waits(J[q], b)[k].ttl >= 1
                      /\ b \in HostAddresses => Waits(J[q], b)[k].dst = b
    BY DEF InQueues
  <2>1. Len(<<>>) = 0 /\ \A l \in 1 .. 0 : FALSE
    OBVIOUS
  <2>2. Waits(J[q], b) # <<>>
    BY <2>1
  <2>3. Waits(J[q], b) = Waits(I[q], b)
    BY <1>2, <2>2
  <2> QED
    BY <2>3 DEF Tracks, InQueues
<1>7. InFrames(loc, F, H, s)
  BY DEF InFrames
<1> QED
  BY <1>4, <1>5, <1>6, <1>7 DEF Tracks

(* Time passes at every interface: queues may be given up. *)
LEMMA TickingKeeps ==
  ASSUME NetInv, Tick
  PROVE  /\ load' \in Loads /\ sent' \in 0 .. load'.datagrams
         /\ hops' \in [1 .. load'.datagrams -> 0 .. InitialTTL]
         /\ \A id \in 1 .. load'.datagrams : id > sent' => hops'[id] = 0
         /\ \E new : Tracks(new, ifaces', wire', Quiet, arrived', hops', sent')
<1> DEFINE N == load.datagrams
           again(p) == SetToSeq(AskedAgain(ifaces[p], 1))
           asks(p) == [k \in DOMAIN again(p) |-> ArpRequest(ifaces[p], again(p)[k])]
           F == [p \in Port |-> asks(p)]
           J == [p \in Port |-> TickInterface(ifaces[p], 1)]
<1>1. PICK loc : Tracks(loc, ifaces, wire, Quiet, arrived, hops, sent)
  BY DEF NetInv
<1>2. /\ ifaces' = J /\ wire' = Transmitted(wire, F) /\ hops' = hops
      /\ sent' = sent /\ arrived' = arrived /\ load' = load
  BY DEF Tick
<1>3. \A p \in Port : GoodIface(ifaces[p], p)
  BY <1>1 DEF Tracks, Network
<1>4. ASSUME NEW p \in Port
      PROVE  asks(p) \in Seq(AnyFrame) /\ \A k \in 1 .. Len(asks(p)) : asks(p)[k].type # "IPv4"
  <2> DEFINE S == AskedAgain(ifaces[p], 1)
             list == SetToSeq(S)
             f(k) == ArpRequest(ifaces[p], list[k])
  <2>1. S \subseteq IP
    BY DEF AskedAgain, TimedOut
  <2>2. IsFiniteSet(S)
    BY <2>1, TopologyAssumption, FS_Subset
  <2> HIDE DEF S
  <2>3. list \in Seq(S)
    BY <2>2, Enumerated
  <2> HIDE DEF list
  <2>4. Len(list) \in Nat /\ DOMAIN list = 1 .. Len(list) /\ \A k \in 1 .. Len(list) : list[k] \in IP
    BY <2>1, <2>3
  <2>5. \A k \in 1 .. Len(list) : f(k) \in AnyFrame /\ f(k).type # "IPv4"
    BY <1>3, <2>4, RequestIsNews
  <2> DEFINE all == [k \in 1 .. Len(list) |-> f(k)]
  <2>6. asks(p) = all
    BY <2>4 DEF list, S
  <2>7. \A k \in 1 .. Len(list) : all[k] = f(k)
    OBVIOUS
  <2>8. all \in Seq(AnyFrame) /\ Len(all) = Len(list)
    <3> HIDE DEF f
    <3> QED
      BY <2>4, <2>5
  <2> HIDE DEF all, f
  <2>9. \A k \in 1 .. Len(all) : all[k].type # "IPv4"
    BY <2>5, <2>7, <2>8
  <2> HIDE DEF asks
  <2> QED
    BY <2>6, <2>8, <2>9
<1> HIDE DEF asks
<1>5. /\ F \in [Port -> Seq(AnyFrame)]
      /\ \A p \in Port : \A k \in 1 .. Len(F[p]) : F[p][k].type # "IPv4"
  BY <1>4
<1> HIDE DEF F
<1>6. Tracks(loc, J, wire, F, arrived, hops, sent)
  BY <1>1, <1>5, TickTracks
<1>7. /\ N \in Nat /\ hops \in [1 .. N -> 0 .. InitialTTL] /\ sent \in 0 .. N /\ InitialTTL \in Nat
      /\ load \in Loads /\ \A id \in 1 .. N : id > sent => hops[id] = 0
  BY TopologyAssumption DEF NetInv
<1> HIDE DEF J, N
<1>8. sent \in Nat /\ hops \in [1 .. N -> Nat]
  BY <1>7
<1>9. InFrames(loc, F, hops, sent)
  BY <1>6 DEF Tracks
<1>10. Counted(F) = [id \in 1 .. N |-> IF Carried(F, id) THEN hops[id] + 1 ELSE hops[id]]
  BY <1>5, <1>7, <1>8, <1>9, CountedIs
<1>11. \A id \in 1 .. N : ~Carried(F, id)
  BY <1>5 DEF Carried
<1>12. Counted(F) = hops
  <2>1. Counted(F) = [id \in 1 .. N |-> hops[id]]
    BY <1>10, <1>11
  <2> QED
    BY <1>8, <2>1
<1>13. \E new : Tracks(new, J, Transmitted(wire, F), Quiet, arrived, Counted(F), sent)
  BY <1>6, <1>7, TransmitTracks
<1>14. load'.datagrams = N
  BY <1>2 DEF N
<1> QED
  BY <1>2, <1>7, <1>12, <1>13, <1>14

LEMMA NetStep == NetInv /\ [Next]_vars => NetInv'
<1> SUFFICES ASSUME NetInv, [Next]_vars PROVE NetInv'
  OBVIOUS
<1>1. TablesInv'
  BY TablesStep DEF NetInv
<1> DEFINE kept == /\ load' \in Loads /\ sent' \in 0 .. load'.datagrams
                   /\ hops' \in [1 .. load'.datagrams -> 0 .. InitialTTL]
                   /\ \A id \in 1 .. load'.datagrams : id > sent' => hops'[id] = 0
                   /\ \E new : Tracks(new, ifaces', wire', Quiet, arrived', hops', sent')
           ours == \A r \in RouterNames : given'[r] \subseteq routes'[r]
<1>2. ASSUME UNCHANGED <<routes, given>> PROVE ours
  BY <1>2 DEF NetInv
<1>3. ASSUME UNCHANGED <<ifaces, wire, sent, arrived, hops, load>> PROVE kept
  BY <1>3 DEF NetInv
<1>4. CASE \E r \in RouterNames : \E entry \in routes[r] : GiveRoute(r, entry)
  <2>1. PICK r \in RouterNames : \E entry \in routes[r] : GiveRoute(r, entry)
    BY <1>4
  <2>2. PICK entry \in routes[r] : GiveRoute(r, entry)
    BY <2>1
  <2>3. kept
    BY <1>3, <2>2 DEF GiveRoute
  <2>4. given = [x \in RouterNames |-> given[x]] /\ \A x \in RouterNames : given[x] \subseteq routes[x]
    BY DEF NetInv, TablesInv
  <2>5. given' = [given EXCEPT ![r] = @ \cup {entry}] /\ routes' = routes
    BY <2>2 DEF GiveRoute
  <2>6. \A x \in RouterNames : given'[x] = IF x = r THEN given[x] \cup {entry} ELSE given[x]
    BY <2>4, <2>5
  <2>7. ours
    BY <2>2, <2>4, <2>5, <2>6
  <2> QED
    BY <1>1, <2>3, <2>7 DEF NetInv
<1>5. CASE \E h \in Hosts, dst \in IP : dst \in Destinations[h] /\ HostSend(h, dst)
  <2>1. PICK h \in Hosts, dst \in IP : HostSend(h, dst)
    BY <1>5
  <2>2. kept
    BY <2>1, SendingKeeps
  <2>3. ours
    BY <1>2, <2>1 DEF HostSend
  <2> QED
    BY <1>1, <2>2, <2>3 DEF NetInv
<1>6. CASE \E p \in Port : Deliver(p)
  <2>1. PICK p \in Port : Deliver(p)
    BY <1>6
  <2>2. kept
    BY <2>1, DeliveryKeeps
  <2>3. ours
    BY <1>2, <2>1 DEF Deliver
  <2> QED
    BY <1>1, <2>2, <2>3 DEF NetInv
<1>7. CASE \E p \in Port : Lose(p)
  <2>1. PICK p \in Port : Lose(p)
    BY <1>7
  <2>2. kept
    BY <2>1, LossKeeps
  <2>3. ours
    BY <1>2, <2>1 DEF Lose
  <2> QED
    BY <1>1, <2>2, <2>3 DEF NetInv
<1>8. CASE \E h \in Hosts : HostTake(h)
  <2>1. PICK h \in Hosts : HostTake(h)
    BY <1>8
  <2>2. kept
    BY <2>1, TakingKeeps
  <2>3. ours
    BY <1>2, <2>1 DEF HostTake
  <2> QED
    BY <1>1, <2>2, <2>3 DEF NetInv
<1>9. CASE \E r \in RouterNames : Route(r)
  <2>1. PICK r \in RouterNames : Route(r)
    BY <1>9
  <2>2. kept
    BY <2>1, RoutingKeeps
  <2>3. ours
    BY <1>2, <2>1 DEF Route
  <2> QED
    BY <1>1, <2>2, <2>3 DEF NetInv
<1>10. CASE Tick
  <2>1. kept
    BY <1>10, TickingKeeps
  <2>2. ours
    BY <1>2, <1>10 DEF Tick
  <2> QED
    BY <1>1, <2>1, <2>2 DEF NetInv
<1>11. CASE UNCHANGED vars
  <2>1. kept /\ ours
    BY <1>2, <1>3, <1>11 DEF vars
  <2> QED
    BY <1>1, <2>1 DEF NetInv
<1> QED
  BY <1>4, <1>5, <1>6, <1>7, <1>8, <1>9, <1>10, <1>11 DEF Next

(* On any topology, with any routes, losses, timeouts and interleavings,   *)
(* what a host receives is addressed to it, is received once, and has lost *)
(* one of its time to live at every router it went through; no datagram is *)
(* put on a wire more often than its time to live says, not even when the  *)
(* routes form a loop (router.cc:36-70, network_interface.cc:37-139).      *)
THEOREM DatagramsArriveOnce == Spec => []ArrivesOnceWhereAddressed
<1>1. NetInv => ArrivesOnceWhereAddressed
  <2> SUFFICES ASSUME NetInv PROVE ArrivesOnceWhereAddressed
    OBVIOUS
  <2>1. PICK loc : Tracks(loc, ifaces, wire, Quiet, arrived, hops, sent)
    BY DEF NetInv
  <2>2. AtHosts(loc, arrived, hops, sent) /\ arrived \in [Hosts -> Seq(Dgram)]
    BY <2>1 DEF Tracks, Network
  <2>3. \A id \in DOMAIN hops : hops[id] <= InitialTTL
    <3>1. hops \in [1 .. load.datagrams -> 0 .. InitialTTL] /\ InitialTTL \in Nat
      BY TopologyAssumption DEF NetInv
    <3> QED
      BY <3>1
  <2>4. ASSUME NEW h \in Hosts
        PROVE  /\ \A k \in DOMAIN arrived[h] :
                    /\ arrived[h][k].dst = AddressOf[h]
                    /\ arrived[h][k].ttl + hops[arrived[h][k].id] = InitialTTL + 1
               /\ IsInjective(arrived[h])
    <3>1. DOMAIN arrived[h] = 1 .. Len(arrived[h])
      BY <2>2
    <3>2. \A k \in DOMAIN arrived[h] : /\ IsAt(loc, hops, sent, arrived[h][k], At("out", h, 0, k), InitialTTL + 1)
                                       /\ arrived[h][k].dst = AddressOf[h]
      BY <2>2, <3>1 DEF AtHosts
    <3>3. ASSUME NEW j \in DOMAIN arrived[h], NEW k \in DOMAIN arrived[h], arrived[h][j] = arrived[h][k]
          PROVE  j = k
      <4>1. At("out", h, 0, j) = At("out", h, 0, k)
        BY <3>2, <3>3 DEF IsAt
      <4> QED
        BY ONLY <4>1 DEF At
    <3>4. IsInjective(arrived[h])
      BY <3>3 DEF IsInjective
    <3> QED
      BY <3>2, <3>4 DEF IsAt
  <2> QED
    BY <2>3, <2>4 DEF ArrivesOnceWhereAddressed
<1> QED
  BY <1>1, NetStart, NetStep, PTL DEF Spec
=============================================================================
