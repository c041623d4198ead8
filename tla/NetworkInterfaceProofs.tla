----------------------- MODULE NetworkInterfaceProofs -----------------------
(***************************************************************************)
(* The four invariants of NetworkInterfaceSpec, for any addresses, any     *)
(* timeouts and any number of datagrams.                                   *)
(*                                                                         *)
(* What the cache and the queues hold is compared with the histories       *)
(* (CacheInStep, QueuesInStep).  Where the datagrams are is a matter of    *)
(* four values only: how many were handed over, what was sent, what waits, *)
(* what was dropped.  Accounts speaks of these, and has one lemma for each *)
(* way in which datagrams move.                                            *)
(***************************************************************************)
EXTENDS NetworkInterfaceSpec, FiniteSetTheorems, TLAPS

Entry == [mac : Mac \cup {NoMac}, elapsed : Nat]
AnyDatagram == [id : Nat, dst : IP, ttl : Nat, cksum : Nat]
Queue == [dgrams : Seq(AnyDatagram), elapsed : Nat]

InterfaceRecord ==
    [ethernet_address : {OwnMac}, ip_address : {OwnIP},
     shared : BOOLEAN, initialized : BOOLEAN, on_timeout : BOOLEAN,
     arp_table : [IP -> Entry], pending : [IP -> Queue],
     datagrams_received : Seq(AnyDatagram)]

Types ==
    /\ iface \in InterfaceRecord
    /\ handed \in Nat
    /\ sent \in Seq(AnyDatagram)
    /\ dropped \subseteq AnyDatagram
    /\ news \in [IP -> [mac : Mac \cup {NoMac}, age : Nat]]
    /\ asked \in [IP -> Nat]

(* An entry of the cache is the last news of its address, of the same age; *)
(* where there is no entry the news are too old, or there never were any.  *)
CacheInStep ==
    \A ip \in IP :
        IF iface.arp_table[ip].mac = NoMac
        THEN iface.arp_table[ip] = NoEntry /\ news[ip].age = ArpEntryTimeout
        ELSE /\ iface.arp_table[ip].mac = news[ip].mac
             /\ iface.arp_table[ip].elapsed = news[ip].age
             /\ news[ip].age < ArpEntryTimeout

(* The clock of a queue has run for as long as its query is old. *)
QueuesInStep ==
    \A ip \in IP :
        IF iface.pending[ip].dgrams = <<>>
        THEN iface.pending[ip] = NoQueue
        ELSE /\ iface.arp_table[ip].mac = NoMac
             /\ asked[ip] <= iface.pending[ip].elapsed
             /\ iface.pending[ip].elapsed < ArpRequestTimeout

-----------------------------------------------------------------------------
(* Accounts of h datagrams handed over, s sent, q[ip] waiting for ip and D *)
(* dropped.                                                                *)

Numbered(d, h) == d \in AnyDatagram /\ d.id \in 1 .. h /\ d = Datagram(d.id, d.dst, 1)

AllNumbered(h, s, q, D) ==
    /\ \A k \in DOMAIN s : Numbered(s[k], h)
    /\ \A ip \in IP : \A k \in DOMAIN q[ip] : Numbered(q[ip][k], h) /\ q[ip][k].dst = ip
    /\ \A d \in D : Numbered(d, h)

NoneTwice(s, q, D) ==
    /\ \A j, k \in DOMAIN s : s[j].id = s[k].id => j = k
    /\ \A ip, iq \in IP : \A j \in DOMAIN q[ip], k \in DOMAIN q[iq] :
           q[ip][j].id = q[iq][k].id => ip = iq /\ j = k
    /\ \A d, e \in D : d.id = e.id => d = e
    /\ \A ip \in IP : \A j \in DOMAIN s, k \in DOMAIN q[ip] : s[j].id # q[ip][k].id
    /\ \A j \in DOMAIN s, d \in D : s[j].id # d.id
    /\ \A ip \in IP : \A k \in DOMAIN q[ip], d \in D : q[ip][k].id # d.id

NoneMissing(h, s, q, D) ==
    \A id \in 1 .. h :
        \/ \E k \in DOMAIN s : s[k].id = id
        \/ \E ip \in IP : \E k \in DOMAIN q[ip] : q[ip][k].id = id
        \/ \E d \in D : d.id = id

Ordered(s, q) ==
    /\ \A j, k \in DOMAIN s : j < k /\ s[j].dst = s[k].dst => s[j].id < s[k].id
    /\ \A ip \in IP : \A j, k \in DOMAIN q[ip] : j < k => q[ip][j].id < q[ip][k].id
    /\ \A ip \in IP : \A j \in DOMAIN s, k \in DOMAIN q[ip] :
           s[j].dst = ip => s[j].id < q[ip][k].id

Accounts(h, s, q, D) ==
    AllNumbered(h, s, q, D) /\ NoneTwice(s, q, D) /\ NoneMissing(h, s, q, D) /\ Ordered(s, q)

Queues == [ip \in IP |-> iface.pending[ip].dgrams]

InterfaceInv == Types /\ CacheInStep /\ QueuesInStep /\ Accounts(handed, sent, Queues, dropped)

-----------------------------------------------------------------------------
(* The datagram that send_datagram() is given next, and those before it. *)
LEMMA NextDatagram ==
  ASSUME NEW h \in Nat, NEW ip \in IP
  PROVE  /\ LET d == Datagram(h + 1, ip, 1)
            IN  Numbered(d, h + 1) /\ d.id = h + 1 /\ d.dst = ip /\ d \in AnyDatagram
         /\ \A e : Numbered(e, h) => Numbered(e, h + 1) /\ e.id \in 1 .. h
BY DEF Numbered, Datagram, ComputeChecksum, AnyDatagram

(* A datagram is transmitted at once. *)
LEMMA SentAtOnce ==
  ASSUME NEW h \in Nat, NEW s \in Seq(AnyDatagram), NEW q \in [IP -> Seq(AnyDatagram)],
         NEW D \in SUBSET AnyDatagram, Accounts(h, s, q, D),
         NEW ip \in IP, q[ip] = <<>>
  PROVE  Accounts(h + 1, Append(s, Datagram(h + 1, ip, 1)), q, D)
<1> DEFINE d == Datagram(h + 1, ip, 1)
           t == Append(s, d)
<1>1. Numbered(d, h + 1) /\ d.id = h + 1 /\ d.dst = ip /\ d \in AnyDatagram
  BY NextDatagram
<1>2. \A e : Numbered(e, h) => Numbered(e, h + 1) /\ e.id \in 1 .. h
  BY NextDatagram
<1> HIDE DEF d
<1>3. /\ DOMAIN t = DOMAIN s \cup {Len(s) + 1} /\ t[Len(s) + 1] = d
      /\ DOMAIN s = 1 .. Len(s) /\ Len(s) \in Nat
      /\ \A k \in DOMAIN s : t[k] = s[k]
  BY <1>1
<1> HIDE DEF t
<1>4. AllNumbered(h + 1, t, q, D)
  BY <1>1, <1>2, <1>3 DEF Accounts, AllNumbered
<1>5. NoneTwice(t, q, D)
  <2>1. \A k \in DOMAIN s : s[k].id # d.id
    BY <1>1, <1>2 DEF Accounts, AllNumbered
  <2>2. \A iq \in IP : \A k \in DOMAIN q[iq] : q[iq][k].id # d.id
    BY <1>1, <1>2 DEF Accounts, AllNumbered
  <2>3. \A e \in D : e.id # d.id
    BY <1>1, <1>2 DEF Accounts, AllNumbered
  <2> QED BY <1>3, <2>1, <2>2, <2>3 DEF Accounts, NoneTwice
<1>6. NoneMissing(h + 1, t, q, D)
  <2> SUFFICES ASSUME NEW id \in 1 .. (h + 1)
               PROVE  \/ \E k \in DOMAIN t : t[k].id = id
                      \/ \E iq \in IP : \E k \in DOMAIN q[iq] : q[iq][k].id = id
                      \/ \E e \in D : e.id = id
    BY DEF NoneMissing
  <2>1. CASE id = h + 1
    BY <1>1, <1>3, <2>1
  <2>2. CASE id \in 1 .. h
    BY <1>3, <2>2 DEF Accounts, NoneMissing
  <2> QED BY <2>1, <2>2
<1>7. Ordered(t, q)
  <2>1. \A k \in DOMAIN s : s[k].id < d.id
    BY <1>1, <1>2 DEF Accounts, AllNumbered
  <2> QED BY <1>1, <1>3, <2>1 DEF Accounts, Ordered
<1> QED BY <1>4, <1>5, <1>6, <1>7 DEF Accounts, t, d

(* A datagram waits behind those for the same next hop. *)
LEMMA QueuedLast ==
  ASSUME NEW h \in Nat, NEW s \in Seq(AnyDatagram), NEW q \in [IP -> Seq(AnyDatagram)],
         NEW D \in SUBSET AnyDatagram, Accounts(h, s, q, D), NEW ip \in IP,
         NEW r \in [IP -> Seq(AnyDatagram)],
         r[ip] = Append(q[ip], Datagram(h + 1, ip, 1)),
         \A iq \in IP \ {ip} : r[iq] = q[iq]
  PROVE  Accounts(h + 1, s, r, D)
<1> DEFINE d == Datagram(h + 1, ip, 1)
           n == Len(q[ip])
<1>1. Numbered(d, h + 1) /\ d.id = h + 1 /\ d.dst = ip /\ d \in AnyDatagram
  BY NextDatagram
<1>2. \A e : Numbered(e, h) => Numbered(e, h + 1) /\ e.id \in 1 .. h
  BY NextDatagram
<1>0. r[ip] = Append(q[ip], d)
  OBVIOUS
<1> HIDE DEF d
<1>3. /\ DOMAIN r[ip] = DOMAIN q[ip] \cup {n + 1} /\ r[ip][n + 1] = d
      /\ DOMAIN q[ip] = 1 .. n /\ n \in Nat
      /\ \A k \in DOMAIN q[ip] : r[ip][k] = q[ip][k]
  <2>1. q[ip] \in Seq(AnyDatagram)
    OBVIOUS
  <2> QED BY <1>0, <1>1, <2>1
<1> HIDE DEF n
<1>a. \A k \in DOMAIN s : s[k].id < d.id /\ s[k].id # d.id
  BY <1>1, <1>2 DEF Accounts, AllNumbered
<1>b. \A iq \in IP : \A k \in DOMAIN q[iq] : q[iq][k].id < d.id /\ q[iq][k].id # d.id
  BY <1>1, <1>2 DEF Accounts, AllNumbered
<1>c. \A e \in D : e.id # d.id
  BY <1>1, <1>2 DEF Accounts, AllNumbered
<1>d. \A iq \in IP : \A k \in DOMAIN r[iq] :
          \/ k \in DOMAIN q[iq] /\ r[iq][k] = q[iq][k]
          \/ iq = ip /\ k = n + 1 /\ r[iq][k] = d
  BY <1>3
<1>4. AllNumbered(h + 1, s, r, D)
  <2>1. \A iq \in IP : \A k \in DOMAIN r[iq] : Numbered(r[iq][k], h + 1) /\ r[iq][k].dst = iq
    BY <1>1, <1>2, <1>d DEF Accounts, AllNumbered
  <2> QED BY <1>2, <2>1 DEF Accounts, AllNumbered
<1>5. NoneTwice(s, r, D)
  <2>1. \A i, iq \in IP : \A j \in DOMAIN r[i], k \in DOMAIN r[iq] :
           r[i][j].id = r[iq][k].id => i = iq /\ j = k
    <3> SUFFICES ASSUME NEW i \in IP, NEW iq \in IP, NEW j \in DOMAIN r[i], NEW k \in DOMAIN r[iq],
                        r[i][j].id = r[iq][k].id
                 PROVE  i = iq /\ j = k
      OBVIOUS
    <3>1. \/ j \in DOMAIN q[i] /\ r[i][j] = q[i][j]
          \/ i = ip /\ j = n + 1 /\ r[i][j] = d
      BY <1>d
    <3>2. \/ k \in DOMAIN q[iq] /\ r[iq][k] = q[iq][k]
          \/ iq = ip /\ k = n + 1 /\ r[iq][k] = d
      BY <1>d
    <3>3. CASE j \in DOMAIN q[i] /\ r[i][j] = q[i][j] /\ k \in DOMAIN q[iq] /\ r[iq][k] = q[iq][k]
      <4>1. q[i][j].id = q[iq][k].id => i = iq /\ j = k
        BY <3>3 DEF Accounts, NoneTwice
      <4> QED BY <3>3, <4>1
    <3> QED BY <1>b, <3>1, <3>2, <3>3, Zenon
  <2>2. \A iq \in IP : \A j \in DOMAIN s, k \in DOMAIN r[iq] : s[j].id # r[iq][k].id
    BY <1>a, <1>d DEF Accounts, NoneTwice
  <2>3. \A iq \in IP : \A k \in DOMAIN r[iq], e \in D : r[iq][k].id # e.id
    BY <1>c, <1>d DEF Accounts, NoneTwice
  <2> QED BY <2>1, <2>2, <2>3 DEF Accounts, NoneTwice
<1>6. NoneMissing(h + 1, s, r, D)
  <2> SUFFICES ASSUME NEW id \in 1 .. (h + 1)
               PROVE  \/ \E k \in DOMAIN s : s[k].id = id
                      \/ \E iq \in IP : \E k \in DOMAIN r[iq] : r[iq][k].id = id
                      \/ \E e \in D : e.id = id
    BY DEF NoneMissing
  <2>1. CASE id = h + 1
    BY <1>1, <1>3, <2>1
  <2>2. CASE id \in 1 .. h
    <3>1. \A iq \in IP : \A k \in DOMAIN q[iq] : k \in DOMAIN r[iq] /\ r[iq][k] = q[iq][k]
      BY <1>3
    <3>2. \/ \E k \in DOMAIN s : s[k].id = id
          \/ \E iq \in IP : \E k \in DOMAIN q[iq] : q[iq][k].id = id
          \/ \E e \in D : e.id = id
      BY <2>2, Zenon DEF Accounts, NoneMissing
    <3> QED BY <3>1, <3>2
  <2> QED BY <2>1, <2>2
<1>7. Ordered(s, r)
  <2>1. \A iq \in IP : \A j, k \in DOMAIN r[iq] : j < k => r[iq][j].id < r[iq][k].id
    <3>1. \A j, k \in DOMAIN r[ip] : j < k => r[ip][j].id < r[ip][k].id
      <4> SUFFICES ASSUME NEW j \in DOMAIN r[ip], NEW k \in DOMAIN r[ip], j < k
                   PROVE  r[ip][j].id < r[ip][k].id
        OBVIOUS
      <4>1. j \in DOMAIN q[ip] /\ r[ip][j] = q[ip][j]
        BY <1>3
      <4>2. CASE k = n + 1
        BY <1>3, <1>b, <4>1, <4>2
      <4>3. CASE k \in DOMAIN q[ip]
        BY <1>3, <4>1, <4>3, Zenon DEF Accounts, Ordered
      <4> QED BY <1>3, <4>2, <4>3
    <3> QED BY <1>3, <3>1 DEF Accounts, Ordered
  <2>2. \A iq \in IP : \A j \in DOMAIN s, k \in DOMAIN r[iq] :
           s[j].dst = iq => s[j].id < r[iq][k].id
    BY <1>a, <1>d DEF Accounts, Ordered
  <2> QED BY <2>1, <2>2 DEF Accounts, Ordered
<1> QED BY <1>4, <1>5, <1>6, <1>7 DEF Accounts

(* All that waits for one next hop is transmitted, in order. *)
LEMMA Flushed ==
  ASSUME NEW h \in Nat, NEW s \in Seq(AnyDatagram), NEW q \in [IP -> Seq(AnyDatagram)],
         NEW D \in SUBSET AnyDatagram, Accounts(h, s, q, D), NEW ip \in IP,
         NEW r \in [IP -> Seq(AnyDatagram)], r[ip] = <<>>,
         \A iq \in IP \ {ip} : r[iq] = q[iq],
         NEW t \in Seq(AnyDatagram), t = s \o q[ip]
  PROVE  Accounts(h, t, r, D)
<1>1. /\ q[ip] \in Seq(AnyDatagram)
      /\ Len(s) \in Nat /\ DOMAIN s = 1 .. Len(s)
      /\ Len(q[ip]) \in Nat /\ DOMAIN q[ip] = 1 .. Len(q[ip])
  OBVIOUS
<1>2. \A k \in DOMAIN t :
          \/ k \in DOMAIN s /\ t[k] = s[k]
          \/ k \in Nat /\ k > Len(s) /\ k - Len(s) \in DOMAIN q[ip] /\ t[k] = q[ip][k - Len(s)]
  BY <1>1
<1>3. /\ \A k \in DOMAIN s : k \in DOMAIN t /\ t[k] = s[k]
      /\ \A k \in DOMAIN q[ip] : k + Len(s) \in DOMAIN t /\ t[k + Len(s)] = q[ip][k]
  BY <1>1
<1>4. \A iq \in IP : \A k \in DOMAIN r[iq] : iq # ip /\ k \in DOMAIN q[iq] /\ r[iq][k] = q[iq][k]
  OBVIOUS
<1>5. \A iq \in IP : iq # ip => r[iq] = q[iq]
  OBVIOUS
<1>6. AllNumbered(h, t, r, D)
  <2>1. \A k \in DOMAIN t : Numbered(t[k], h)
    BY <1>2 DEF Accounts, AllNumbered
  <2>2. \A iq \in IP : \A k \in DOMAIN r[iq] : Numbered(r[iq][k], h) /\ r[iq][k].dst = iq
    BY <1>4 DEF Accounts, AllNumbered
  <2> QED BY <2>1, <2>2 DEF Accounts, AllNumbered
<1>7. NoneTwice(t, r, D)
  <2>1. \A j, k \in DOMAIN t : t[j].id = t[k].id => j = k
    <3> SUFFICES ASSUME NEW j \in DOMAIN t, NEW k \in DOMAIN t, t[j].id = t[k].id
                 PROVE  j = k
      OBVIOUS
    <3>1. CASE j \in DOMAIN s /\ t[j] = s[j] /\ k \in DOMAIN s /\ t[k] = s[k]
      BY <3>1 DEF Accounts, NoneTwice
    <3>2. CASE /\ k - Len(s) \in DOMAIN q[ip] /\ t[k] = q[ip][k - Len(s)] /\ k \in Nat
               /\ j - Len(s) \in DOMAIN q[ip] /\ t[j] = q[ip][j - Len(s)] /\ j \in Nat
      <4>1. k - Len(s) = j - Len(s)
        BY <3>2 DEF Accounts, NoneTwice
      <4> QED BY <1>1, <3>2, <4>1
    <3>3. CASE /\ j \in DOMAIN s /\ t[j] = s[j]
               /\ k - Len(s) \in DOMAIN q[ip] /\ t[k] = q[ip][k - Len(s)]
      BY <3>3 DEF Accounts, NoneTwice
    <3>4. CASE /\ k \in DOMAIN s /\ t[k] = s[k]
               /\ j - Len(s) \in DOMAIN q[ip] /\ t[j] = q[ip][j - Len(s)]
      BY <3>4 DEF Accounts, NoneTwice
    <3> QED BY <1>2, <3>1, <3>2, <3>3, <3>4
  <2>2. \A i, iq \in IP : \A j \in DOMAIN r[i], k \in DOMAIN r[iq] :
           r[i][j].id = r[iq][k].id => i = iq /\ j = k
    BY <1>4 DEF Accounts, NoneTwice
  <2>3. \A iq \in IP : \A j \in DOMAIN t, k \in DOMAIN r[iq] : t[j].id # r[iq][k].id
    <3> SUFFICES ASSUME NEW iq \in IP, NEW j \in DOMAIN t, NEW k \in DOMAIN r[iq]
                 PROVE  t[j].id # r[iq][k].id
      OBVIOUS
    <3>1. CASE j \in DOMAIN s /\ t[j] = s[j]
      BY <1>4, <3>1 DEF Accounts, NoneTwice
    <3>2. CASE j - Len(s) \in DOMAIN q[ip] /\ t[j] = q[ip][j - Len(s)]
      BY <1>4, <3>2 DEF Accounts, NoneTwice
    <3> QED BY <1>2, <3>1, <3>2
  <2>4. \A j \in DOMAIN t, d \in D : t[j].id # d.id
    BY <1>2 DEF Accounts, NoneTwice
  <2>5. \A iq \in IP : \A k \in DOMAIN r[iq], d \in D : r[iq][k].id # d.id
    BY <1>4 DEF Accounts, NoneTwice
  <2> QED BY <2>1, <2>2, <2>3, <2>4, <2>5 DEF Accounts, NoneTwice
<1>8. NoneMissing(h, t, r, D)
  <2> SUFFICES ASSUME NEW id \in 1 .. h
               PROVE  \/ \E k \in DOMAIN t : t[k].id = id
                      \/ \E iq \in IP : \E k \in DOMAIN r[iq] : r[iq][k].id = id
                      \/ \E e \in D : e.id = id
    BY DEF NoneMissing
  <2>1. \/ \E k \in DOMAIN s : s[k].id = id
        \/ \E iq \in IP : \E k \in DOMAIN q[iq] : q[iq][k].id = id
        \/ \E e \in D : e.id = id
    BY Zenon DEF Accounts, NoneMissing
  <2>2. CASE \E iq \in IP : \E k \in DOMAIN q[iq] : q[iq][k].id = id
    <3>0. PICK iq \in IP : \E k \in DOMAIN q[iq] : q[iq][k].id = id
      BY <2>2
    <3>1. PICK k \in DOMAIN q[iq] : q[iq][k].id = id
      BY <3>0
    <3>2. CASE iq = ip
      BY <1>3, <3>1, <3>2
    <3>3. CASE iq # ip
      BY <1>5, <3>1, <3>3
    <3> QED BY <3>2, <3>3
  <2>3. CASE \E k \in DOMAIN s : s[k].id = id
    BY <1>3, <2>3
  <2> QED BY <2>1, <2>2, <2>3
<1>9. Ordered(t, r)
  <2>1. \A j, k \in DOMAIN t : j < k /\ t[j].dst = t[k].dst => t[j].id < t[k].id
    <3> SUFFICES ASSUME NEW j \in DOMAIN t, NEW k \in DOMAIN t, j < k, t[j].dst = t[k].dst
                 PROVE  t[j].id < t[k].id
      OBVIOUS
    <3>1. CASE k \in DOMAIN s /\ t[k] = s[k]
      <4>1. j \in DOMAIN s /\ t[j] = s[j]
        BY <1>1, <1>2, <3>1
      <4> QED BY <3>1, <4>1 DEF Accounts, Ordered
    <3>2. CASE k - Len(s) \in DOMAIN q[ip] /\ t[k] = q[ip][k - Len(s)] /\ k \in Nat
      <4>1. t[k].dst = ip
        BY <3>2 DEF Accounts, AllNumbered
      <4>2. CASE j \in DOMAIN s /\ t[j] = s[j]
        BY <3>2, <4>1, <4>2 DEF Accounts, Ordered
      <4>3. CASE j - Len(s) \in DOMAIN q[ip] /\ t[j] = q[ip][j - Len(s)] /\ j \in Nat
        <5>1. j - Len(s) < k - Len(s)
          BY <1>1, <3>2, <4>3
        <5> QED BY <3>2, <4>3, <5>1 DEF Accounts, Ordered
      <4> QED BY <1>2, <4>2, <4>3
    <3> QED BY <1>2, <3>1, <3>2
  <2>2. \A iq \in IP : \A j, k \in DOMAIN r[iq] : j < k => r[iq][j].id < r[iq][k].id
    BY <1>4 DEF Accounts, Ordered
  <2>3. \A iq \in IP : \A j \in DOMAIN t, k \in DOMAIN r[iq] :
           t[j].dst = iq => t[j].id < r[iq][k].id
    <3> SUFFICES ASSUME NEW iq \in IP, NEW j \in DOMAIN t, NEW k \in DOMAIN r[iq], t[j].dst = iq
                 PROVE  t[j].id < r[iq][k].id
      OBVIOUS
    <3>1. CASE j \in DOMAIN s /\ t[j] = s[j]
      BY <1>4, <3>1 DEF Accounts, Ordered
    <3>2. CASE j - Len(s) \in DOMAIN q[ip] /\ t[j] = q[ip][j - Len(s)]
      BY <1>4, <3>2 DEF Accounts, AllNumbered
    <3> QED BY <1>2, <3>1, <3>2
  <2> QED BY <2>1, <2>2, <2>3 DEF Ordered
<1> QED BY <1>6, <1>7, <1>8, <1>9 DEF Accounts

(* Of the queues q, those of the next hops in T join the datagrams dropped, *)
(* D, which are then E, and the queues are then r.                         *)
Expiry(q, r, D, E, T) ==
    /\ \A ip \in IP : r[ip] = IF ip \in T THEN <<>> ELSE q[ip]
    /\ \A e : e \in E <=> e \in D \/ \E ip \in T : \E k \in DOMAIN q[ip] : e = q[ip][k]

(* The queues of the next hops in T are dropped. *)
LEMMA Expired ==
  ASSUME NEW h \in Nat, NEW s \in Seq(AnyDatagram), NEW q \in [IP -> Seq(AnyDatagram)],
         NEW D \in SUBSET AnyDatagram, Accounts(h, s, q, D), NEW T \in SUBSET IP,
         NEW r \in [IP -> Seq(AnyDatagram)], NEW E, Expiry(q, r, D, E, T)
  PROVE  Accounts(h, s, r, E)
<1>a. \A ip \in IP : r[ip] = IF ip \in T THEN <<>> ELSE q[ip]
  BY DEF Expiry
<1>b. \A e : e \in E <=> e \in D \/ \E ip \in T : \E k \in DOMAIN q[ip] : e = q[ip][k]
  BY DEF Expiry
<1> USE <1>a, <1>b
<1>1. \A ip \in IP : \A k \in DOMAIN r[ip] : ip \notin T /\ k \in DOMAIN q[ip] /\ r[ip][k] = q[ip][k]
  OBVIOUS
<1>2. \A e \in E : e \in D \/ \E ip \in T : \E k \in DOMAIN q[ip] : e = q[ip][k]
  BY Zenon
<1>3. AllNumbered(h, s, r, E)
  <2>1. \A ip \in IP : \A k \in DOMAIN r[ip] : Numbered(r[ip][k], h) /\ r[ip][k].dst = ip
    BY <1>1 DEF Accounts, AllNumbered
  <2>2. \A e \in E : Numbered(e, h)
    BY <1>2 DEF Accounts, AllNumbered
  <2> QED BY <2>1, <2>2 DEF Accounts, AllNumbered
<1>4. NoneTwice(s, r, E)
  <2>1. \A d, e \in E : d.id = e.id => d = e
    <3> SUFFICES ASSUME NEW d \in E, NEW e \in E, d.id = e.id PROVE d = e
      OBVIOUS
    <3>1. CASE d \in D /\ e \in D
      BY <3>1 DEF Accounts, NoneTwice
    <3>2. ASSUME NEW ip \in T, NEW k \in DOMAIN q[ip], e = q[ip][k], d \in D PROVE d = e
      BY <3>2 DEF Accounts, NoneTwice
    <3>3. ASSUME NEW ip \in T, NEW k \in DOMAIN q[ip], d = q[ip][k], e \in D PROVE d = e
      BY <3>3 DEF Accounts, NoneTwice
    <3>4. ASSUME NEW ip \in T, NEW k \in DOMAIN q[ip], e = q[ip][k],
                 NEW iq \in T, NEW j \in DOMAIN q[iq], d = q[iq][j]
          PROVE  d = e
      BY <3>4 DEF Accounts, NoneTwice
    <3> QED BY <1>2, <3>1, <3>2, <3>3, <3>4
  <2>2. \A i, iq \in IP : \A j \in DOMAIN r[i], k \in DOMAIN r[iq] :
           r[i][j].id = r[iq][k].id => i = iq /\ j = k
    BY <1>1 DEF Accounts, NoneTwice
  <2>3. \A iq \in IP : \A j \in DOMAIN s, k \in DOMAIN r[iq] : s[j].id # r[iq][k].id
    BY <1>1 DEF Accounts, NoneTwice
  <2>4. \A j \in DOMAIN s, e \in E : s[j].id # e.id
    BY <1>2 DEF Accounts, NoneTwice
  <2>5. \A iq \in IP : \A k \in DOMAIN r[iq], e \in E : r[iq][k].id # e.id
    <3> SUFFICES ASSUME NEW iq \in IP, NEW k \in DOMAIN r[iq], NEW e \in E
                 PROVE  r[iq][k].id # e.id
      OBVIOUS
    <3>1. CASE e \in D
      BY <1>1, <3>1 DEF Accounts, NoneTwice
    <3>2. ASSUME NEW ip \in T, NEW j \in DOMAIN q[ip], e = q[ip][j] PROVE r[iq][k].id # e.id
      <4>1. iq \notin T /\ k \in DOMAIN q[iq] /\ r[iq][k] = q[iq][k]
        BY <1>1
      <4>2. iq # ip /\ ip \in IP
        BY <3>2, <4>1
      <4>3. \A a, b \in IP : \A m \in DOMAIN q[a], l \in DOMAIN q[b] :
               q[a][m].id = q[b][l].id => a = b
        BY DEF Accounts, NoneTwice
      <4>4. q[iq][k].id # q[ip][j].id
        BY ONLY iq \in IP, j \in DOMAIN q[ip], <4>1, <4>2, <4>3, Zenon
      <4> QED
        BY ONLY <3>2, <4>1, <4>4, Zenon
    <3> QED BY <1>2, <3>1, <3>2
  <2> QED BY <2>1, <2>2, <2>3, <2>4, <2>5 DEF Accounts, NoneTwice
<1>5. NoneMissing(h, s, r, E)
  <2> SUFFICES ASSUME NEW id \in 1 .. h
               PROVE  \/ \E k \in DOMAIN s : s[k].id = id
                      \/ \E iq \in IP : \E k \in DOMAIN r[iq] : r[iq][k].id = id
                      \/ \E e \in E : e.id = id
    BY DEF NoneMissing
  <2>1. \/ \E k \in DOMAIN s : s[k].id = id
        \/ \E iq \in IP : \E k \in DOMAIN q[iq] : q[iq][k].id = id
        \/ \E e \in D : e.id = id
    BY Zenon DEF Accounts, NoneMissing
  <2>2. CASE \E iq \in IP : \E k \in DOMAIN q[iq] : q[iq][k].id = id
    <3>0. PICK iq \in IP : \E k \in DOMAIN q[iq] : q[iq][k].id = id
      BY <2>2
    <3>1. PICK k \in DOMAIN q[iq] : q[iq][k].id = id
      BY <3>0
    <3>2. CASE iq \in T
      <4>1. q[iq][k] \in E
        BY <3>2, Zenon
      <4> QED BY <3>1, <4>1
    <3>3. CASE iq \notin T
      BY <3>1, <3>3
    <3> QED BY <3>2, <3>3
  <2>3. CASE \E e \in D : e.id = id
    BY <2>3, Zenon
  <2> QED BY <2>1, <2>2, <2>3
<1>6. Ordered(s, r)
  BY <1>1 DEF Accounts, Ordered
<1> QED BY <1>3, <1>4, <1>5, <1>6 DEF Accounts

-----------------------------------------------------------------------------
(* What the histories read off the frames of an operation. *)

(* Datagrams alone, or behind one ARP message. *)
LEMMA FramesOut ==
  ASSUME NEW w \in Seq(AnyDatagram), NEW S, NEW data \in Seq(S), Len(data) = Len(w),
         \A k \in DOMAIN data : data[k].type = "IPv4" /\ data[k].payload = w[k],
         NEW arp, arp.type = "ARP"
  PROVE  /\ Carried(data) = w /\ AskedFor(data) = {}
         /\ Carried(<<arp>> \o data) = w
         /\ AskedFor(<<arp>> \o data)
               = IF arp.payload.opcode = "request" THEN {arp.payload.target_ip} ELSE {}
<1> DEFINE F == S \cup {arp}
           all == <<arp>> \o data
<1>1. data \in Seq(F) /\ Len(data) = Len(w) /\ DOMAIN data = DOMAIN w
  OBVIOUS
<1>2. \A k \in DOMAIN data : data[k].type = "IPv4" /\ data[k].payload = w[k]
  OBVIOUS
<1> HIDE DEF F
<1>3. /\ Len(w) \in Nat /\ DOMAIN w = 1 .. Len(w) /\ w = [k \in DOMAIN w |-> w[k]]
      /\ <<arp>> \in Seq(F)
  BY DEF F
<1>4. Carried(data) = w
  <2>1. Carried(data) = [k \in DOMAIN data |-> data[k].payload]
    <3>1. ~(data # <<>> /\ data[1].type = "ARP")
      BY <1>1, <1>2, <1>3
    <3> QED BY <3>1 DEF Carried
  <2> QED BY <1>1, <1>2, <1>3, <2>1
<1>5. AskedFor(data) = {}
  BY <1>2 DEF AskedFor
<1>6. /\ all \in Seq(F) /\ Len(all) = Len(w) + 1 /\ all[1] = arp /\ all # <<>>
      /\ \A k \in DOMAIN data : all[k + 1] = data[k]
      /\ DOMAIN all = 1 .. (Len(w) + 1)
  BY <1>1, <1>3
<1>7. Tail(all) = data
  <2>1. Tail(all) \in Seq(F) /\ Len(Tail(all)) = Len(w)
    BY <1>6, <1>3
  <2>2. \A k \in 1 .. Len(w) : Tail(all)[k] = data[k]
    BY <1>1, <1>3, <1>6
  <2> QED BY <1>1, <1>3, <2>1, <2>2
<1> HIDE DEF all
<1>8. Carried(all) = w
  <2>1. Carried(all) = [k \in DOMAIN data |-> data[k].payload]
    BY <1>6, <1>7 DEF Carried
  <2> QED BY <1>1, <1>2, <1>3, <2>1
<1>9. AskedFor(all) = IF arp.payload.opcode = "request" THEN {arp.payload.target_ip} ELSE {}
  <2>1. ASSUME NEW k \in DOMAIN all, k # 1 PROVE all[k].type # "ARP"
    <3>1. k - 1 \in DOMAIN data /\ (k - 1) + 1 = k
      BY <1>1, <1>3, <1>6, <2>1
    <3>2. all[k] = data[k - 1]
      BY <1>6, <3>1
    <3> QED BY <1>2, <3>1, <3>2
  <2>2. 1 \in DOMAIN all /\ all[1] = arp
    BY <1>3, <1>6
  <2> HIDE <1>1, <1>2
  <2> QED BY <2>1, <2>2 DEF AskedFor
<1> QED BY <1>4, <1>5, <1>8, <1>9 DEF all

(* No frames, one datagram, one ARP message. *)
LEMMA FewFrames ==
  /\ Carried(<<>>) = <<>> /\ AskedFor(<<>>) = {}
  /\ \A i, dst : \A d \in AnyDatagram :
        Carried(<<IPv4Frame(i, d, dst)>>) = <<d>> /\ AskedFor(<<IPv4Frame(i, d, dst)>>) = {}
  /\ \A i, ip : Carried(<<ArpRequest(i, ip)>>) = <<>> /\ AskedFor(<<ArpRequest(i, ip)>>) = {ip}
<1>1. Carried(<<>>) = <<>> /\ AskedFor(<<>>) = {}
  BY DEF Carried, AskedFor
<1>2. ASSUME NEW i, NEW dst, NEW d \in AnyDatagram
      PROVE  Carried(<<IPv4Frame(i, d, dst)>>) = <<d>> /\ AskedFor(<<IPv4Frame(i, d, dst)>>) = {}
  <2> DEFINE f == IPv4Frame(i, d, dst)
  <2>1. f.type = "IPv4" /\ f.payload = d
    BY DEF IPv4Frame, Frame
  <2> HIDE DEF f
  <2>2. Carried(<<f>>) = [k \in DOMAIN <<f>> |-> <<f>>[k].payload]
    BY <2>1 DEF Carried
  <2>3. Carried(<<f>>) = <<d>>
    BY <2>1, <2>2
  <2>4. AskedFor(<<f>>) = {}
    BY <2>1 DEF AskedFor
  <2> QED BY <2>3, <2>4 DEF f
<1>3. ASSUME NEW i, NEW ip
      PROVE  Carried(<<ArpRequest(i, ip)>>) = <<>> /\ AskedFor(<<ArpRequest(i, ip)>>) = {ip}
  <2> DEFINE f == ArpRequest(i, ip)
  <2>1. f.type = "ARP" /\ f.payload.opcode = "request" /\ f.payload.target_ip = ip
    BY DEF ArpRequest, Frame, ArpMessage
  <2> HIDE DEF f
  <2>2. Tail(<<f>>) = <<>>
    OBVIOUS
  <2>3. Carried(<<f>>) = <<>>
    BY <2>1, <2>2 DEF Carried
  <2>4. AskedFor(<<f>>) = {ip}
    BY <2>1 DEF AskedFor
  <2> QED BY <2>3, <2>4 DEF f
<1> QED BY <1>1, <1>2, <1>3

-----------------------------------------------------------------------------
(* The invariant holds of a new interface. *)
LEMMA InterfaceStarts == Init => InterfaceInv
<1> SUFFICES ASSUME Init PROVE InterfaceInv
  OBVIOUS
<1>1. PICK shared \in BOOLEAN : iface = NewInterface(OwnMac, OwnIP, shared)
  BY InterfaceAssumption DEF Init
<1>2. /\ iface.arp_table = [a \in IP |-> NoEntry] /\ iface.pending = [a \in IP |-> NoQueue]
      /\ iface = [ethernet_address |-> OwnMac, ip_address |-> OwnIP, shared |-> shared,
                  initialized |-> FALSE, on_timeout |-> FALSE,
                  arp_table |-> [a \in IP |-> NoEntry], pending |-> [a \in IP |-> NoQueue],
                  datagrams_received |-> <<>>]
  BY <1>1 DEF NewInterface
<1>3. NoEntry \in Entry /\ NoQueue \in Queue /\ NoEntry.mac = NoMac /\ NoQueue.dgrams = <<>>
  BY DEF NoEntry, NoQueue, Entry, Queue
<1>4. iface \in InterfaceRecord
  BY <1>2, <1>3 DEF InterfaceRecord
<1>5. /\ handed = 0 /\ sent = <<>> /\ dropped = {}
      /\ news = [ip \in IP |-> [mac |-> NoMac, age |-> ArpEntryTimeout]]
      /\ asked = [ip \in IP |-> ArpRequestTimeout]
  BY DEF Init
<1>6. Types
  BY <1>4, <1>5, TimeoutAssumption DEF Types
<1>7. CacheInStep
  BY <1>2, <1>3, <1>5 DEF CacheInStep
<1>8. QueuesInStep
  BY <1>2, <1>3 DEF QueuesInStep
<1>9. Queues = [ip \in IP |-> <<>>]
  BY <1>2, <1>3 DEF Queues
<1>10. Accounts(handed, sent, Queues, dropped)
  BY <1>5, <1>9 DEF Accounts, AllNumbered, NoneTwice, NoneMissing, Ordered
<1> QED BY <1>6, <1>7, <1>8, <1>10 DEF InterfaceInv

(* The fields of the interface have their types, and no entry of the cache *)
(* has expired: expired entries go in the tick in which they expire.       *)
LEMMA InterfaceFields ==
  ASSUME InterfaceInv
  PROVE  /\ iface.arp_table \in [IP -> Entry] /\ iface.pending \in [IP -> Queue]
         /\ Queues \in [IP -> Seq(AnyDatagram)]
         /\ iface.ethernet_address = OwnMac /\ iface.ip_address = OwnIP
         /\ \A ip \in IP : Lookup(iface.arp_table, ip) = iface.arp_table
         /\ [iface EXCEPT !.arp_table = iface.arp_table] = iface
<1> USE DEF InterfaceInv
<1>1. /\ iface.arp_table \in [IP -> Entry] /\ iface.pending \in [IP -> Queue]
      /\ iface.ethernet_address = OwnMac /\ iface.ip_address = OwnIP
      /\ [iface EXCEPT !.arp_table = iface.arp_table] = iface
  BY DEF Types, InterfaceRecord
<1>2. Queues \in [IP -> Seq(AnyDatagram)]
  BY <1>1 DEF Queues, Queue
<1>3. ASSUME NEW ip \in IP PROVE ~EntryExpired(iface.arp_table[ip])
  <2>1. CASE iface.arp_table[ip].mac = NoMac
    BY <2>1, TimeoutAssumption DEF CacheInStep, NoEntry, EntryExpired
  <2>2. CASE iface.arp_table[ip].mac # NoMac
    <3>1. /\ iface.arp_table[ip].elapsed = news[ip].age /\ news[ip].age < ArpEntryTimeout
          /\ news[ip].age \in Nat
      BY <2>2 DEF CacheInStep, Types
    <3> QED BY <3>1, TimeoutAssumption DEF EntryExpired
  <2> QED BY <2>1, <2>2
<1>4. \A ip \in IP : Lookup(iface.arp_table, ip) = iface.arp_table
  BY <1>3 DEF Lookup
<1> QED BY <1>1, <1>2, <1>4

(* initialize(), and taking a datagram that was received, touch neither    *)
(* cache nor queues.                                                       *)
LEMMA SameTables ==
  ASSUME InterfaceInv, iface' \in InterfaceRecord,
         iface'.arp_table = iface.arp_table, iface'.pending = iface.pending,
         UNCHANGED <<handed, sent, dropped, news, asked>>
  PROVE  InterfaceInv'
<1> USE DEF InterfaceInv
<1>1. Types'
  BY DEF Types
<1>2. CacheInStep'
  BY DEF CacheInStep
<1>3. QueuesInStep'
  BY DEF QueuesInStep
<1>4. Queues' = Queues
  BY DEF Queues
<1>5. Accounts(handed, sent, Queues, dropped)'
  <2>1. Accounts(handed', sent', Queues', dropped')
    BY <1>4
  <2> QED BY <2>1 DEF Accounts, AllNumbered, NoneTwice, NoneMissing, Ordered
<1> QED BY <1>1, <1>2, <1>3, <1>5

(* initialize() and the owner's receive path keep the invariant. *)
LEMMA QuietStepsKeep ==
  ASSUME InterfaceInv, Initializes \/ TakeDatagram \/ \E intact \in BOOLEAN : HearDatagram(intact)
  PROVE  InterfaceInv'
<1>0. iface \in InterfaceRecord /\ sent \in Seq(AnyDatagram) /\ asked \in [IP -> Nat]
  BY DEF InterfaceInv, Types
<1>1. CASE Initializes
  <2>1. /\ iface' \in InterfaceRecord
        /\ iface'.arp_table = iface.arp_table /\ iface'.pending = iface.pending
    BY <1>0, <1>1 DEF Initializes, Initialize, InterfaceRecord
  <2> QED BY <1>1, <2>1, SameTables DEF Initializes
<1>2. CASE TakeDatagram
  <2>1. /\ iface.datagrams_received \in Seq(AnyDatagram)
        /\ iface.datagrams_received # <<>>
        /\ iface' = [iface EXCEPT !.datagrams_received = Tail(@)]
    BY <1>0, <1>2 DEF TakeDatagram, InterfaceRecord
  <2>2. Tail(iface.datagrams_received) \in Seq(AnyDatagram)
    BY <2>1
  <2>3. /\ iface' \in InterfaceRecord
        /\ iface'.arp_table = iface.arp_table /\ iface'.pending = iface.pending
    BY <1>0, <2>1, <2>2 DEF InterfaceRecord
  <2> QED BY <1>2, <2>3, SameTables DEF TakeDatagram
<1>3. ASSUME NEW intact \in BOOLEAN, HearDatagram(intact) PROVE InterfaceInv'
  <2> DEFINE dgram == Datagram(0, OwnIP, 1)
             frame == [type |-> "IPv4", src |-> NoMac, dst |-> OwnMac,
                       payload |-> IF intact THEN dgram ELSE [dgram EXCEPT !.ttl = 2]]
             out == RecvFrame(iface, frame)
  <2>1. Apply(out) /\ UNCHANGED <<handed, dropped, news>> /\ iface.datagrams_received = <<>>
    BY <1>3 DEF HearDatagram
  <2>2. frame.payload \in AnyDatagram /\ frame.type = "IPv4"
    BY InterfaceAssumption DEF Datagram, ComputeChecksum, AnyDatagram
  <2> HIDE DEF frame
  <2>3. /\ out.frames = <<>>
        /\ \/ out.interface = iface
           \/ out.interface = [iface EXCEPT !.datagrams_received = Append(@, frame.payload)]
    BY <2>2 DEF RecvFrame, Outcome
  <2>4. <<frame.payload>> \in Seq(AnyDatagram) /\ Append(<<>>, frame.payload) = <<frame.payload>>
    BY <2>2
  <2> HIDE DEF out
  <2>5. /\ iface' \in InterfaceRecord
        /\ iface'.arp_table = iface.arp_table /\ iface'.pending = iface.pending
    <3>1. iface' = out.interface
      BY <2>1 DEF Apply
    <3>2. \/ iface' = iface
          \/ iface' = [iface EXCEPT !.datagrams_received = <<frame.payload>>]
      BY <2>1, <2>3, <2>4, <3>1
    <3> QED BY <1>0, <2>4, <3>2 DEF InterfaceRecord
  <2>6. sent' = sent /\ asked' = asked
    <3>1. sent' = sent \o <<>> /\ asked' = [ip \in IP |-> asked[ip]]
      BY <2>1, <2>3, FewFrames DEF Apply
    <3> QED BY <1>0, <3>1
  <2> QED BY <2>1, <2>5, <2>6, SameTables
<1> QED BY <1>1, <1>2, <1>3

(* send_datagram() keeps the invariant. *)
LEMMA SendKeeps ==
  ASSUME InterfaceInv, NEW ip \in IP, Send(ip)
  PROVE  InterfaceInv'
<1> DEFINE d == Datagram(handed + 1, ip, 1)
           table == iface.arp_table
           queued == [iface EXCEPT !.pending = AddPending(@, d, ip)]
           out == SendDatagram(iface, d, ip)
<1>0. /\ iface \in InterfaceRecord /\ handed \in Nat /\ sent \in Seq(AnyDatagram)
      /\ dropped \in SUBSET AnyDatagram /\ asked \in [IP -> Nat]
      /\ Accounts(handed, sent, Queues, dropped)
  BY DEF InterfaceInv, Types
<1>1. handed' = handed + 1 /\ Apply(out) /\ UNCHANGED <<dropped, news>>
  BY DEF Send
<1>2. /\ table \in [IP -> Entry] /\ iface.pending \in [IP -> Queue]
      /\ Lookup(table, ip) = table /\ [iface EXCEPT !.arp_table = table] = iface
      /\ Queues \in [IP -> Seq(AnyDatagram)]
  BY InterfaceFields
<1>3. d \in AnyDatagram
  BY <1>0, NextDatagram
<1>4. out = IF table[ip].mac # NoMac THEN Outcome(iface, <<IPv4Frame(iface, d, table[ip].mac)>>)
            ELSE IF HasPending(iface.pending, ip) THEN Outcome(queued, <<>>)
            ELSE Outcome(queued, <<ArpRequest(iface, ip)>>)
  <2> DEFINE looked == [iface EXCEPT !.arp_table = Lookup(table, ip)]
  <2>1. looked = iface /\ Lookup(table, ip) = table
    BY <1>2
  <2>2. out = IF Lookup(table, ip)[ip].mac # NoMac
              THEN Outcome(looked, <<IPv4Frame(iface, d, Lookup(table, ip)[ip].mac)>>)
              ELSE IF HasPending(iface.pending, ip)
              THEN Outcome([looked EXCEPT !.pending = AddPending(@, d, ip)], <<>>)
              ELSE Outcome([looked EXCEPT !.pending = AddPending(@, d, ip)], <<ArpRequest(iface, ip)>>)
    BY DEF SendDatagram
  <2> HIDE DEF looked
  <2> QED BY <2>1, <2>2
<1>a. /\ iface' = out.interface /\ sent' = sent \o Carried(out.frames)
      /\ asked' = [a \in IP |-> IF a \in AskedFor(out.frames) THEN 0 ELSE asked[a]]
  BY <1>1 DEF Apply
<1> HIDE DEF d, out
<1>5. CASE table[ip].mac # NoMac
  <2>1. out.interface = iface /\ out.frames = <<IPv4Frame(iface, d, table[ip].mac)>>
    BY <1>4, <1>5 DEF Outcome
  <2>2. iface' = iface /\ sent' = sent \o <<d>> /\ asked' = [a \in IP |-> asked[a]]
    <3>1. Carried(out.frames) = <<d>> /\ AskedFor(out.frames) = {}
      BY <1>3, <2>1, FewFrames
    <3> QED BY <1>a, <2>1, <3>1
  <2>3. sent' = Append(sent, d) /\ sent' \in Seq(AnyDatagram) /\ asked' = asked
    BY <1>0, <1>3, <2>2
  <2>4. Types'
    BY <1>0, <1>1, <2>2, <2>3 DEF InterfaceInv, Types
  <2>5. CacheInStep' /\ QueuesInStep'
    BY <1>1, <2>2, <2>3 DEF InterfaceInv, CacheInStep, QueuesInStep
  <2>6. Queues[ip] = <<>> /\ Queues' = Queues
    BY <1>5, <2>2 DEF InterfaceInv, QueuesInStep, Queues
  <2>7. Accounts(handed', sent', Queues', dropped')
    BY <1>0, <1>1, <1>2, <2>3, <2>6, SentAtOnce DEF d
  <2> QED BY <2>4, <2>5, <2>7 DEF InterfaceInv
<1>6. CASE table[ip].mac = NoMac
  <2>1. /\ out.interface = queued
        /\ out.frames = IF HasPending(iface.pending, ip) THEN <<>> ELSE <<ArpRequest(iface, ip)>>
    BY <1>4, <1>6 DEF Outcome
  <2>2. /\ iface' = queued /\ sent' = sent \o <<>>
        /\ asked' = [a \in IP |-> IF a = ip /\ ~HasPending(iface.pending, ip) THEN 0 ELSE asked[a]]
    <3>1. Carried(out.frames) = <<>>
      BY <2>1, FewFrames
    <3>2. AskedFor(out.frames) = IF HasPending(iface.pending, ip) THEN {} ELSE {ip}
      BY <2>1, FewFrames
    <3> QED BY <1>a, <2>1, <3>1, <3>2
  <2>3. sent' = sent /\ asked' \in [IP -> Nat]
    BY <1>0, <2>2
  <2>4. /\ iface'.arp_table = table
        /\ iface'.pending = [iface.pending EXCEPT ![ip].dgrams = Append(@, d)]
        /\ iface' = [iface EXCEPT !.pending = iface'.pending]
    BY <1>0, <2>2 DEF AddPending, InterfaceRecord
  <2>5. /\ iface'.pending[ip].dgrams = Append(iface.pending[ip].dgrams, d)
        /\ iface'.pending[ip].elapsed = iface.pending[ip].elapsed
        /\ \A a \in IP \ {ip} : iface'.pending[a] = iface.pending[a]
        /\ iface.pending[ip].dgrams \in Seq(AnyDatagram) /\ iface.pending[ip].elapsed \in Nat
    BY <1>2, <2>4 DEF Queue
  <2>6. Append(iface.pending[ip].dgrams, d) \in Seq(AnyDatagram) /\ Append(iface.pending[ip].dgrams, d) # <<>>
    BY <1>3, <2>5
  <2>7. iface'.pending \in [IP -> Queue]
    <3>1. [iface.pending[ip] EXCEPT !.dgrams = Append(@, d)] \in Queue
      BY <1>2, <2>6 DEF Queue
    <3>2. iface'.pending = [iface.pending EXCEPT ![ip] = [iface.pending[ip] EXCEPT !.dgrams = Append(@, d)]]
      BY <2>4
    <3> QED BY <1>2, <3>1, <3>2
  <2>8. Types'
    <3>1. iface' \in InterfaceRecord
      BY <1>0, <2>4, <2>7 DEF InterfaceRecord
    <3> QED BY <1>0, <1>1, <2>3, <3>1 DEF InterfaceInv, Types
  <2>9. CacheInStep'
    BY <1>1, <2>4 DEF InterfaceInv, CacheInStep
  <2>10. QueuesInStep'
    <3>1. \A a \in IP \ {ip} : asked'[a] = asked[a]
      BY <2>2
    <3>2. asked'[ip] <= iface'.pending[ip].elapsed /\ iface'.pending[ip].elapsed < ArpRequestTimeout
      <4>1. CASE HasPending(iface.pending, ip)
        BY <2>2, <2>5, <4>1 DEF InterfaceInv, QueuesInStep, HasPending
      <4>2. CASE ~HasPending(iface.pending, ip)
        BY <2>2, <2>5, <4>2, TimeoutAssumption DEF InterfaceInv, QueuesInStep, HasPending, NoQueue
      <4> QED BY <4>1, <4>2
    <3> QED BY <1>6, <2>4, <2>5, <2>6, <3>1, <3>2 DEF InterfaceInv, QueuesInStep
  <2>11. Queues' \in [IP -> Seq(AnyDatagram)]
    BY <2>7 DEF Queues, Queue
  <2>12. Queues'[ip] = Append(Queues[ip], d) /\ \A a \in IP \ {ip} : Queues'[a] = Queues[a]
    BY <2>5 DEF Queues
  <2>13. Accounts(handed', sent', Queues', dropped')
    BY <1>0, <1>1, <1>2, <2>3, <2>11, <2>12, QueuedLast DEF d
  <2> QED BY <2>8, <2>9, <2>10, <2>13 DEF InterfaceInv
<1> QED BY <1>5, <1>6

(* What recv_frame() does with an ARP message for this interface: the      *)
(* address is learnt, and all that waited for it goes out.                 *)
LEMMA ArpOutcome ==
  ASSUME InterfaceInv, NEW opcode, NEW mac \in Mac, NEW ip \in IP, NEW target, NEW msg,
         msg = ArpMessage(opcode, mac, ip, NoMac, target)
  PROVE  /\ RecvArp(iface, msg).interface
               = [iface EXCEPT !.arp_table = [@ EXCEPT ![ip] = [mac |-> mac, elapsed |-> 0]],
                               !.pending = [@ EXCEPT ![ip] = NoQueue]]
         /\ Carried(RecvArp(iface, msg).frames) = iface.pending[ip].dgrams
         /\ AskedFor(RecvArp(iface, msg).frames) = {}
<1> DEFINE table == [iface.arp_table EXCEPT ![ip] = [mac |-> mac, elapsed |-> 0]]
           learnt == [iface EXCEPT !.arp_table = table]
           w == iface.pending[ip].dgrams
           data == [k \in DOMAIN w |-> [type |-> "IPv4", src |-> OwnMac, dst |-> mac, payload |-> w[k]]]
           flushed == FlushPendingFor(learnt, ip)
           arp == ArpReply(iface, msg)
           out == RecvArp(iface, msg)
<1>0. iface \in InterfaceRecord
  BY DEF InterfaceInv, Types
<1>a. msg.sender_ip = ip /\ msg.sender_mac = mac
  BY DEF ArpMessage
<1>1. /\ iface.arp_table \in [IP -> Entry] /\ iface.pending \in [IP -> Queue]
      /\ iface.ethernet_address = OwnMac
  BY InterfaceFields
<1>2. w \in Seq(AnyDatagram)
  BY <1>1 DEF Queue
<1>3. table[ip] = [mac |-> mac, elapsed |-> 0] /\ mac # NoMac
  BY <1>1, InterfaceAssumption
<1>4. Lookup(table, ip) = table
  BY <1>3, TimeoutAssumption DEF Lookup, EntryExpired
<1>5. /\ learnt.arp_table = table /\ learnt.pending = iface.pending
      /\ [learnt EXCEPT !.arp_table = table] = learnt
      /\ learnt.ethernet_address = OwnMac
  BY <1>0, <1>1 DEF InterfaceRecord
<1>6. flushed = Outcome([learnt EXCEPT !.pending = [iface.pending EXCEPT ![ip] = NoQueue]], data)
  <2> HIDE DEF table, learnt
  <2>1. flushed = Outcome([learnt EXCEPT !.pending = PopPending(iface.pending, ip)],
                          [k \in DOMAIN w |-> IPv4Frame(learnt, w[k], mac)])
    <3>1. flushed = IF Lookup(learnt.arp_table, ip)[ip].mac = NoMac
                    THEN Outcome([learnt EXCEPT !.arp_table = Lookup(learnt.arp_table, ip)], <<>>)
                    ELSE Outcome([[learnt EXCEPT !.arp_table = Lookup(learnt.arp_table, ip)]
                                     EXCEPT !.pending = PopPending(@, ip)],
                                 [k \in DOMAIN learnt.pending[ip].dgrams |->
                                     IPv4Frame(learnt, learnt.pending[ip].dgrams[k],
                                               Lookup(learnt.arp_table, ip)[ip].mac)])
      BY DEF FlushPendingFor
    <3>2. /\ Lookup(learnt.arp_table, ip) = table /\ table[ip].mac = mac
          /\ [learnt EXCEPT !.arp_table = Lookup(learnt.arp_table, ip)] = learnt
          /\ learnt.pending = iface.pending
      BY <1>3, <1>4, <1>5
    <3> QED BY <1>3, <3>1, <3>2
  <2>2. [k \in DOMAIN w |-> IPv4Frame(learnt, w[k], mac)] = data
    BY <1>5 DEF IPv4Frame, Frame
  <2> QED BY <2>1, <2>2 DEF PopPending
<1>7. out = Outcome(flushed.interface,
                    (IF msg.opcode = "request" /\ msg.target_ip = iface.ip_address
                     THEN <<arp>> ELSE <<>>) \o flushed.frames)
  BY <1>a DEF RecvArp, AddEntry
<1>8. arp.type = "ARP" /\ arp.payload.opcode = "reply"
  BY DEF ArpReply, Frame, ArpMessage
<1> HIDE DEF w, data, arp, flushed, out, learnt, table
<1>9. /\ out.interface = [learnt EXCEPT !.pending = [iface.pending EXCEPT ![ip] = NoQueue]]
      /\ flushed.frames = data
      /\ out.frames = (IF msg.opcode = "request" /\ msg.target_ip = iface.ip_address
                       THEN <<arp>> ELSE <<>>) \o data
  BY <1>6, <1>7 DEF Outcome
<1>10. <<>> \o data = data
  BY <1>2 DEF data
<1>11. /\ Carried(data) = w /\ AskedFor(data) = {}
       /\ Carried(<<arp>> \o data) = w /\ AskedFor(<<arp>> \o data) = {}
  <2> DEFINE S == {data[k] : k \in DOMAIN w}
  <2>1. /\ data \in Seq(S) /\ Len(data) = Len(w)
        /\ \A k \in DOMAIN data : data[k].type = "IPv4" /\ data[k].payload = w[k]
    BY <1>2 DEF data
  <2> HIDE DEF S
  <2> QED BY <1>2, <1>8, <2>1, FramesOut
<1>12. Carried(out.frames) = w /\ AskedFor(out.frames) = {}
  BY <1>9, <1>10, <1>11
<1>13. out.interface = [iface EXCEPT !.arp_table = [@ EXCEPT ![ip] = [mac |-> mac, elapsed |-> 0]],
                                     !.pending = [@ EXCEPT ![ip] = NoQueue]]
  BY <1>0, <1>9 DEF learnt, table, InterfaceRecord
<1> QED BY <1>12, <1>13 DEF out, w

(* An ARP message keeps the invariant. *)
LEMMA HearArpKeeps ==
  ASSUME InterfaceInv, NEW opcode \in {"request", "reply"}, NEW mac \in Mac,
         NEW ip \in IP, NEW target \in IP, NEW dst, HearArp(opcode, dst, ip, mac, target)
  PROVE  InterfaceInv'
<1> DEFINE msg == ArpMessage(opcode, mac, ip, NoMac, target)
           frame == [type |-> "ARP", src |-> mac, dst |-> dst, payload |-> msg]
           out == RecvFrame(iface, frame)
           table == [iface.arp_table EXCEPT ![ip] = [mac |-> mac, elapsed |-> 0]]
           queues == [iface.pending EXCEPT ![ip] = NoQueue]
<1>0. /\ iface \in InterfaceRecord /\ handed \in Nat /\ sent \in Seq(AnyDatagram)
      /\ dropped \in SUBSET AnyDatagram /\ asked \in [IP -> Nat]
      /\ news \in [IP -> [mac : Mac \cup {NoMac}, age : Nat]]
      /\ Accounts(handed, sent, Queues, dropped)
  BY DEF InterfaceInv, Types
<1>1. /\ iface.arp_table \in [IP -> Entry] /\ iface.pending \in [IP -> Queue]
      /\ Queues \in [IP -> Seq(AnyDatagram)]
  BY InterfaceFields
<1>2. /\ iface' = out.interface /\ sent' = sent \o Carried(out.frames)
      /\ asked' = [a \in IP |-> IF a \in AskedFor(out.frames) THEN 0 ELSE asked[a]]
      /\ news' = IF ForUs(iface, frame) THEN [news EXCEPT ![ip] = [mac |-> mac, age |-> 0]] ELSE news
      /\ UNCHANGED <<handed, dropped>>
  BY DEF HearArp, Apply
<1>3. frame.type = "ARP" /\ frame.payload = msg /\ msg.sender_ip = ip /\ msg.sender_mac = mac
  BY DEF ArpMessage
<1> HIDE DEF frame, msg
<1>4. CASE ~ForUs(iface, frame)
  <2>1. out.interface = iface /\ out.frames = <<>>
    BY <1>4 DEF RecvFrame, Outcome
  <2> HIDE DEF out
  <2>2. sent' = sent \o <<>> /\ asked' = [a \in IP |-> asked[a]]
    BY <1>2, <2>1, FewFrames
  <2>3. UNCHANGED <<handed, sent, dropped, news, asked>> /\ iface' = iface
    BY <1>0, <1>2, <1>4, <2>1, <2>2
  <2> QED BY <1>0, <2>3, SameTables
<1>5. CASE ForUs(iface, frame)
  <2>1. out = RecvArp(iface, msg)
    BY <1>3, <1>5 DEF RecvFrame
  <2> HIDE DEF out
  <2>2. /\ out.interface = [iface EXCEPT !.arp_table = table, !.pending = queues]
        /\ Carried(out.frames) = iface.pending[ip].dgrams /\ AskedFor(out.frames) = {}
    <3>1. /\ RecvArp(iface, msg).interface
                = [iface EXCEPT !.arp_table = [@ EXCEPT ![ip] = [mac |-> mac, elapsed |-> 0]],
                                !.pending = [@ EXCEPT ![ip] = NoQueue]]
          /\ Carried(RecvArp(iface, msg).frames) = iface.pending[ip].dgrams
          /\ AskedFor(RecvArp(iface, msg).frames) = {}
      BY ArpOutcome DEF msg
    <3> QED BY <2>1, <3>1
  <2>3. /\ iface' = [iface EXCEPT !.arp_table = table, !.pending = queues]
        /\ sent' = sent \o iface.pending[ip].dgrams /\ asked' = [a \in IP |-> asked[a]]
    BY <1>2, <2>2
  <2>4. asked' = asked /\ iface'.arp_table = table /\ iface'.pending = queues
    BY <1>0, <2>3 DEF InterfaceRecord
  <2>5. /\ table[ip] = [mac |-> mac, elapsed |-> 0] /\ table \in [IP -> Entry]
        /\ \A a \in IP \ {ip} : table[a] = iface.arp_table[a]
    BY <1>1 DEF Entry
  <2>6. /\ queues[ip] = NoQueue /\ queues \in [IP -> Queue] /\ NoQueue.dgrams = <<>>
        /\ \A a \in IP \ {ip} : queues[a] = iface.pending[a]
    BY <1>1 DEF Queue, NoQueue
  <2> HIDE DEF table, queues
  <2>7. iface' \in InterfaceRecord
    BY <1>0, <2>3, <2>5, <2>6 DEF InterfaceRecord
  <2>8. /\ news' \in [IP -> [mac : Mac \cup {NoMac}, age : Nat]]
        /\ news'[ip] = [mac |-> mac, age |-> 0] /\ \A a \in IP \ {ip} : news'[a] = news[a]
    BY <1>0, <1>2, <1>5
  <2>9. iface.pending[ip].dgrams \in Seq(AnyDatagram)
    BY <1>1 DEF Queue
  <2>10. sent' \in Seq(AnyDatagram)
    BY <1>0, <2>3, <2>9
  <2>11. Types'
    BY <1>0, <1>2, <2>4, <2>7, <2>8, <2>10 DEF Types
  <2>12. CacheInStep'
    <3>1. mac # NoMac
      BY InterfaceAssumption
    <3> QED BY <2>4, <2>5, <2>8, <3>1, TimeoutAssumption DEF InterfaceInv, CacheInStep
  <2>13. QueuesInStep'
    BY <2>4, <2>5, <2>6 DEF InterfaceInv, QueuesInStep
  <2>14. Queues' \in [IP -> Seq(AnyDatagram)]
    BY <2>4, <2>6 DEF Queues, Queue
  <2>15. /\ Queues'[ip] = <<>> /\ \A a \in IP \ {ip} : Queues'[a] = Queues[a]
         /\ sent' = sent \o Queues[ip]
    BY <2>3, <2>4, <2>6 DEF Queues
  <2>16. Accounts(handed, sent', Queues', dropped)
    BY <1>0, <1>1, <2>10, <2>14, <2>15, Flushed
  <2>17. Accounts(handed', sent', Queues', dropped')
    BY <1>2, <2>16
  <2> QED BY <2>11, <2>12, <2>13, <2>17 DEF InterfaceInv
<1> QED BY <1>4, <1>5

(* A tick keeps the invariant. *)
LEMMA TickKeeps ==
  ASSUME InterfaceInv, NEW ms \in Ticks, Tick(ms)
  PROVE  InterfaceInv'
<1> DEFINE table == TableTick(iface.arp_table, ms)
           queues == QueueTick(iface.pending, ms)
           late == TimedOut(iface.pending, ms)
<1>0. /\ iface \in InterfaceRecord /\ handed \in Nat /\ sent \in Seq(AnyDatagram)
      /\ dropped \in SUBSET AnyDatagram /\ asked \in [IP -> Nat]
      /\ news \in [IP -> [mac : Mac \cup {NoMac}, age : Nat]]
      /\ Accounts(handed, sent, Queues, dropped) /\ ms \in Nat \ {0}
  BY InterfaceAssumption DEF InterfaceInv, Types
<1>1. /\ iface.arp_table \in [IP -> Entry] /\ iface.pending \in [IP -> Queue]
      /\ Queues \in [IP -> Seq(AnyDatagram)]
  BY InterfaceFields
<1>2. iface' = [iface EXCEPT !.arp_table = table, !.pending = queues]
  BY DEF Tick, TickInterface
<1>3. /\ news' = [ip \in IP |-> [news[ip] EXCEPT !.age = Aged(@, ms, ArpEntryTimeout)]]
      /\ asked' = [ip \in IP |-> IF ip \in AskedAgain(iface, ms) THEN 0
                               ELSE Aged(asked[ip], ms, ArpRequestTimeout)]
      /\ dropped' = dropped \cup UNION {InQueue(ip) : ip \in late}
      /\ handed' = handed /\ sent' = sent
  BY DEF Tick
<1>4. iface'.arp_table = table /\ iface'.pending = queues
  BY <1>0, <1>2 DEF InterfaceRecord
<1>5. \A ip \in IP : /\ news'[ip].mac = news[ip].mac
                     /\ news'[ip].age = Aged(news[ip].age, ms, ArpEntryTimeout)
  BY <1>0, <1>3
<1>6. /\ news' \in [IP -> [mac : Mac \cup {NoMac}, age : Nat]] /\ asked' \in [IP -> Nat]
      /\ \A ip \in IP : asked'[ip] <= asked[ip] + ms
  <2>1. \A n \in Nat, limit \in Nat : Aged(n, ms, limit) \in Nat /\ Aged(n, ms, limit) <= n + ms
    BY <1>0 DEF Aged
  <2>2. \A ip \in IP : Aged(asked[ip], ms, ArpRequestTimeout) \in Nat
                     /\ Aged(asked[ip], ms, ArpRequestTimeout) <= asked[ip] + ms
    BY <1>0, <2>1, TimeoutAssumption
  <2>3. \A ip \in IP : asked'[ip] \in Nat /\ asked'[ip] <= asked[ip] + ms
    BY <1>0, <1>3, <2>2
  <2>4. asked' \in [IP -> Nat]
    BY <1>3, <2>3
  <2>5. \A ip \in IP : news[ip].mac \in Mac \cup {NoMac} /\ Aged(news[ip].age, ms, ArpEntryTimeout) \in Nat
    BY <1>0, <2>1, TimeoutAssumption
  <2>6. news' \in [IP -> [mac : Mac \cup {NoMac}, age : Nat]]
    BY <1>0, <1>3, <2>5
  <2> QED BY <2>3, <2>4, <2>6
<1>7. \A ip \in IP :
          table[ip] = IF \/ iface.arp_table[ip] = NoEntry
                         \/ iface.arp_table[ip].elapsed + ms >= ArpEntryTimeout
                      THEN NoEntry
                      ELSE [mac |-> iface.arp_table[ip].mac, elapsed |-> iface.arp_table[ip].elapsed + ms]
  <2> SUFFICES ASSUME NEW ip \in IP
               PROVE  table[ip] = IF \/ iface.arp_table[ip] = NoEntry
                                     \/ iface.arp_table[ip].elapsed + ms >= ArpEntryTimeout
                                  THEN NoEntry
                                  ELSE [mac |-> iface.arp_table[ip].mac,
                                        elapsed |-> iface.arp_table[ip].elapsed + ms]
    OBVIOUS
  <2> DEFINE e == iface.arp_table[ip]
             aged == [e EXCEPT !.elapsed = @ + ms]
  <2>1. table[ip] = IF e = NoEntry \/ EntryExpired(aged) THEN NoEntry ELSE aged
    BY DEF TableTick
  <2>2. e \in Entry
    BY <1>1
  <2> HIDE DEF e
  <2>3. aged = [mac |-> e.mac, elapsed |-> e.elapsed + ms] /\ aged.elapsed = e.elapsed + ms
    BY <2>2 DEF Entry
  <2> HIDE DEF aged, table
  <2>4. table[ip] = IF e = NoEntry \/ e.elapsed + ms >= ArpEntryTimeout THEN NoEntry
                    ELSE [mac |-> e.mac, elapsed |-> e.elapsed + ms]
    BY <2>1, <2>3 DEF EntryExpired
  <2> QED BY <2>4 DEF e
<1>8. \A ip \in IP :
          queues[ip] = IF iface.pending[ip].dgrams = <<>> \/ ip \in late THEN NoQueue
                       ELSE [dgrams |-> iface.pending[ip].dgrams, elapsed |-> iface.pending[ip].elapsed + ms]
  <2> SUFFICES ASSUME NEW ip \in IP
               PROVE  queues[ip] = IF iface.pending[ip].dgrams = <<>> \/ ip \in late THEN NoQueue
                                   ELSE [dgrams |-> iface.pending[ip].dgrams,
                                         elapsed |-> iface.pending[ip].elapsed + ms]
    OBVIOUS
  <2> DEFINE w == iface.pending[ip]
  <2>1. queues[ip] = IF w.dgrams = <<>> \/ ip \in late THEN NoQueue ELSE [w EXCEPT !.elapsed = @ + ms]
    BY DEF QueueTick, HasPending
  <2>2. w \in Queue
    BY <1>1
  <2> HIDE DEF w
  <2>3. [w EXCEPT !.elapsed = @ + ms] = [dgrams |-> w.dgrams, elapsed |-> w.elapsed + ms]
    BY <2>2 DEF Queue
  <2> HIDE DEF queues, late
  <2>4. queues[ip] = IF w.dgrams = <<>> \/ ip \in late THEN NoQueue
                     ELSE [dgrams |-> w.dgrams, elapsed |-> w.elapsed + ms]
    BY <2>1, <2>3
  <2> QED BY <2>4 DEF w
<1>9. \A ip \in IP : ip \in late <=> /\ iface.pending[ip].dgrams # <<>>
                                    /\ iface.pending[ip].elapsed + ms >= ArpRequestTimeout
  BY DEF TimedOut, HasPending
<1>10. table \in [IP -> Entry]
  <2>1. NoEntry \in Entry /\ \A ip \in IP : iface.arp_table[ip].mac \in Mac \cup {NoMac}
                                            /\ iface.arp_table[ip].elapsed \in Nat
    BY <1>1 DEF Entry, NoEntry
  <2>2. ASSUME NEW ip \in IP PROVE table[ip] \in Entry
    <3> HIDE DEF table
    <3>1. [mac |-> iface.arp_table[ip].mac, elapsed |-> iface.arp_table[ip].elapsed + ms] \in Entry
      BY <1>0, <2>1 DEF Entry
    <3> QED BY <1>7, <2>1, <3>1
  <2>3. table = [ip \in IP |-> table[ip]]
    BY DEF TableTick
  <2> HIDE DEF table
  <2> QED BY <2>2, <2>3
<1>11. queues \in [IP -> Queue]
  <2>1. NoQueue \in Queue /\ \A ip \in IP : iface.pending[ip].dgrams \in Seq(AnyDatagram)
                                            /\ iface.pending[ip].elapsed \in Nat
    BY <1>1 DEF Queue, NoQueue
  <2>2. ASSUME NEW ip \in IP PROVE queues[ip] \in Queue
    <3> HIDE DEF queues, late
    <3>1. [dgrams |-> iface.pending[ip].dgrams, elapsed |-> iface.pending[ip].elapsed + ms] \in Queue
      BY <1>0, <2>1 DEF Queue
    <3> QED BY <1>8, <2>1, <3>1
  <2>3. queues = [ip \in IP |-> queues[ip]]
    BY DEF QueueTick
  <2> HIDE DEF queues
  <2> QED BY <2>2, <2>3
<1>12. late \in SUBSET IP
  BY DEF TimedOut
<1> HIDE DEF table, queues, late
<1>13. \A e : e \in dropped' <=> \/ e \in dropped
                               \/ \E ip \in late : \E k \in DOMAIN Queues[ip] : e = Queues[ip][k]
  <2>1. \A ip \in IP : Queues[ip] = iface.pending[ip].dgrams
    BY DEF Queues
  <2>2. \A ip \in late : InQueue(ip) = {Queues[ip][k] : k \in DOMAIN Queues[ip]}
    BY <1>12, <2>1 DEF InQueue
  <2> QED BY <1>3, <2>2
<1>14. dropped' \subseteq AnyDatagram
  <2>1. \A ip \in late : \A k \in DOMAIN Queues[ip] : Queues[ip][k] \in AnyDatagram
    BY <1>1, <1>12
  <2> QED BY <1>0, <1>13, <2>1
<1>15. Types'
  <2>1. iface' \in InterfaceRecord
    BY <1>0, <1>2, <1>10, <1>11 DEF InterfaceRecord
  <2> QED BY <1>0, <1>3, <1>6, <1>14, <2>1 DEF Types
<1>16. CacheInStep'
  <2> SUFFICES ASSUME NEW ip \in IP
               PROVE  IF table[ip].mac = NoMac
                      THEN table[ip] = NoEntry /\ news'[ip].age = ArpEntryTimeout
                      ELSE /\ table[ip].mac = news'[ip].mac
                           /\ table[ip].elapsed = news'[ip].age
                           /\ news'[ip].age < ArpEntryTimeout
    BY <1>4 DEF CacheInStep
  <2>1. news[ip].age \in Nat /\ NoEntry.mac = NoMac /\ NoEntry.elapsed = 0
    BY <1>0 DEF NoEntry
  <2>2. CASE iface.arp_table[ip].mac = NoMac
    <3>1. iface.arp_table[ip] = NoEntry /\ news[ip].age = ArpEntryTimeout
      BY <2>2 DEF InterfaceInv, CacheInStep
    <3>2. table[ip] = NoEntry
      BY <1>7, <3>1
    <3>3. news'[ip].age = ArpEntryTimeout
      <4>1. news'[ip].age = Aged(ArpEntryTimeout, ms, ArpEntryTimeout)
        BY <1>5, <3>1
      <4>2. Aged(ArpEntryTimeout, ms, ArpEntryTimeout) = ArpEntryTimeout
        BY <1>0, TimeoutAssumption DEF Aged
      <4> QED BY <4>1, <4>2
    <3> QED BY <2>1, <3>2, <3>3
  <2>3. CASE iface.arp_table[ip].mac # NoMac
    <3>1. /\ iface.arp_table[ip].mac = news[ip].mac /\ iface.arp_table[ip].elapsed = news[ip].age
          /\ news[ip].age < ArpEntryTimeout
      BY <2>3 DEF InterfaceInv, CacheInStep
    <3>2. iface.arp_table[ip] # NoEntry
      BY <2>1, <2>3
    <3>3. news'[ip].age = Aged(news[ip].age, ms, ArpEntryTimeout) /\ news'[ip].mac = news[ip].mac
      BY <1>5
    <3>4. CASE news[ip].age + ms >= ArpEntryTimeout
      <4>1. table[ip] = NoEntry
        BY <1>7, <3>1, <3>4
      <4>2. news'[ip].age = ArpEntryTimeout
        BY <1>0, <2>1, <3>3, <3>4, TimeoutAssumption DEF Aged
      <4> QED BY <2>1, <4>1, <4>2
    <3>5. CASE ~ (news[ip].age + ms >= ArpEntryTimeout)
      <4>1. table[ip] = [mac |-> iface.arp_table[ip].mac, elapsed |-> iface.arp_table[ip].elapsed + ms]
        BY <1>7, <3>1, <3>2, <3>5
      <4>2. table[ip].mac = news[ip].mac /\ table[ip].elapsed = news[ip].age + ms
        BY <3>1, <4>1
      <4>3. news'[ip].age = news[ip].age + ms /\ news[ip].age + ms < ArpEntryTimeout
        BY <1>0, <2>1, <3>3, <3>5, TimeoutAssumption DEF Aged
      <4> QED BY <2>3, <3>1, <3>3, <4>2, <4>3
    <3> QED BY <3>4, <3>5
  <2> QED BY <2>2, <2>3
<1>17. QueuesInStep'
  <2> SUFFICES ASSUME NEW ip \in IP
               PROVE  IF queues[ip].dgrams = <<>> THEN queues[ip] = NoQueue
                      ELSE /\ table[ip].mac = NoMac
                           /\ asked'[ip] <= queues[ip].elapsed
                           /\ queues[ip].elapsed < ArpRequestTimeout
    BY <1>4 DEF QueuesInStep
  <2>1. NoQueue.dgrams = <<>> /\ NoEntry.mac = NoMac
    BY DEF NoQueue, NoEntry
  <2>2. CASE iface.pending[ip].dgrams = <<>> \/ ip \in late
    BY <1>8, <2>1, <2>2
  <2>3. CASE iface.pending[ip].dgrams # <<>> /\ ip \notin late
    <3>1. /\ iface.arp_table[ip].mac = NoMac /\ asked[ip] <= iface.pending[ip].elapsed
          /\ iface.pending[ip].elapsed < ArpRequestTimeout
      BY <2>3 DEF InterfaceInv, QueuesInStep
    <3>2. /\ queues[ip].dgrams # <<>> /\ queues[ip].elapsed = iface.pending[ip].elapsed + ms
          /\ queues[ip].elapsed < ArpRequestTimeout
          /\ iface.pending[ip].elapsed \in Nat /\ asked[ip] \in Nat /\ asked'[ip] \in Nat
      <4>1. iface.pending[ip].elapsed \in Nat
        BY <1>1 DEF Queue
      <4>2. queues[ip] = [dgrams |-> iface.pending[ip].dgrams, elapsed |-> iface.pending[ip].elapsed + ms]
        BY <1>8, <2>3
      <4>3. queues[ip].dgrams = iface.pending[ip].dgrams
            /\ queues[ip].elapsed = iface.pending[ip].elapsed + ms
        BY <4>2
      <4>4. ~ (iface.pending[ip].elapsed + ms >= ArpRequestTimeout)
        BY <1>9, <2>3
      <4>5. iface.pending[ip].elapsed + ms < ArpRequestTimeout
        BY <1>0, <4>1, <4>4, TimeoutAssumption
      <4>6. asked[ip] \in Nat /\ asked'[ip] \in Nat
        BY <1>0, <1>6
      <4> QED BY <2>3, <4>1, <4>3, <4>5, <4>6
    <3>3. table[ip].mac = NoMac
      <4>1. iface.arp_table[ip] = NoEntry
        BY <3>1 DEF InterfaceInv, CacheInStep
      <4> QED BY <1>7, <2>1, <4>1
    <3> QED BY <1>0, <1>6, <3>1, <3>2, <3>3
  <2> QED BY <2>2, <2>3
<1>18. Queues' \in [IP -> Seq(AnyDatagram)]
  BY <1>4, <1>11 DEF Queues, Queue
<1>19. \A ip \in IP : Queues'[ip] = IF ip \in late THEN <<>> ELSE Queues[ip]
  <2> SUFFICES ASSUME NEW ip \in IP
               PROVE  Queues'[ip] = IF ip \in late THEN <<>> ELSE Queues[ip]
    OBVIOUS
  <2>1. NoQueue.dgrams = <<>>
    BY DEF NoQueue
  <2>2. Queues'[ip] = queues[ip].dgrams /\ Queues[ip] = iface.pending[ip].dgrams
    BY <1>4 DEF Queues
  <2>3. CASE iface.pending[ip].dgrams = <<>> \/ ip \in late
    <3>1. queues[ip] = NoQueue
      BY <1>8, <2>3
    <3> QED BY <2>1, <2>2, <2>3, <3>1
  <2>4. CASE ~ (iface.pending[ip].dgrams = <<>> \/ ip \in late)
    <3>1. queues[ip] = [dgrams |-> iface.pending[ip].dgrams, elapsed |-> iface.pending[ip].elapsed + ms]
      BY <1>8, <2>4
    <3>2. queues[ip].dgrams = iface.pending[ip].dgrams
      BY <3>1
    <3> QED BY <2>2, <2>4, <3>2
  <2> QED BY <2>3, <2>4
<1>20. Accounts(handed, sent, Queues', dropped')
  <2>1. Expiry(Queues, Queues', dropped, dropped', late)
    BY <1>13, <1>19 DEF Expiry
  <2> QED BY <1>0, <1>1, <1>12, <1>18, <2>1, Expired
<1>21. Accounts(handed', sent', Queues', dropped')
  BY <1>3, <1>20
<1> QED BY <1>15, <1>16, <1>17, <1>21 DEF InterfaceInv

(* Every step keeps the invariant. *)
LEMMA InterfaceStep == InterfaceInv /\ [Next]_vars => InterfaceInv'
<1> SUFFICES ASSUME InterfaceInv, [Next]_vars PROVE InterfaceInv'
  OBVIOUS
<1>1. CASE Initializes \/ TakeDatagram \/ \E intact \in BOOLEAN : HearDatagram(intact)
  BY <1>1, QuietStepsKeep
<1>2. ASSUME NEW ip \in IP, Send(ip) PROVE InterfaceInv'
  BY <1>2, SendKeeps
<1>3. ASSUME NEW opcode \in {"request", "reply"}, NEW mac \in Mac, NEW ip \in IP, NEW target \in IP,
             NEW dst \in {OwnMac, Broadcast, mac}, HearArp(opcode, dst, ip, mac, target)
      PROVE  InterfaceInv'
  BY <1>3, HearArpKeeps
<1>4. ASSUME NEW ms \in Ticks, Tick(ms) PROVE InterfaceInv'
  BY <1>4, TickKeeps
<1>5. CASE UNCHANGED vars
  <2>1. iface \in InterfaceRecord
    BY DEF InterfaceInv, Types
  <2> QED BY <1>5, <2>1, SameTables DEF vars
<1> QED BY <1>1, <1>2, <1>3, <1>4, <1>5 DEF Next

(* The invariant holds throughout. *)
LEMMA InterfaceAlways == Spec => []InterfaceInv
BY InterfaceStarts, InterfaceStep, PTL DEF Spec

-----------------------------------------------------------------------------
(* Whatever the addresses, the timeouts and the order of events: the cache *)
(* holds the latest announcement of every address exactly as long as it is *)
(* younger than ARP_ENTRY_TIMEOUT (arp_table.cc:5-35).                     *)
THEOREM CacheStaysFresh == Spec => []CacheIsFreshNews
<1>1. InterfaceInv => CacheIsFreshNews
  <2> SUFFICES ASSUME InterfaceInv, NEW ip \in IP
               PROVE  iface.arp_table[ip].mac
                        = IF news[ip].age < ArpEntryTimeout THEN news[ip].mac ELSE NoMac
    BY DEF CacheIsFreshNews
  <2> QED BY TimeoutAssumption DEF InterfaceInv, CacheInStep
<1> QED BY <1>1, InterfaceAlways, PTL

(* A datagram waits only while its next hop is unknown and a query for it  *)
(* is younger than ARP_REQUEST_TIMEOUT (network_interface.cc:37-52,74-79). *)
THEOREM WaitingStaysAsked == Spec => []WaitingImpliesAsked
<1>1. InterfaceInv => WaitingImpliesAsked
  <2> SUFFICES ASSUME InterfaceInv, NEW ip \in IP, HasPending(iface.pending, ip)
               PROVE  asked[ip] < ArpRequestTimeout /\ iface.arp_table[ip].mac = NoMac
    BY DEF WaitingImpliesAsked
  <2>1. /\ iface.arp_table[ip].mac = NoMac /\ asked[ip] <= iface.pending[ip].elapsed
        /\ iface.pending[ip].elapsed < ArpRequestTimeout
    BY DEF InterfaceInv, QueuesInStep, HasPending
  <2>2. asked[ip] \in Nat /\ iface.pending[ip].elapsed \in Nat
    BY InterfaceFields DEF InterfaceInv, Types, Queue
  <2> QED BY <2>1, <2>2, TimeoutAssumption
<1> QED BY <1>1, InterfaceAlways, PTL

(* Datagrams for one next hop leave in the order in which send_datagram()  *)
(* was given them (network_interface.cc:75-79).                            *)
THEOREM OrderIsKept == Spec => []SentInOrder
<1>1. InterfaceInv => SentInOrder
  BY DEF InterfaceInv, Accounts, Ordered, SentInOrder
<1> QED BY <1>1, InterfaceAlways, PTL

-----------------------------------------------------------------------------
(* Where datagram d is in a sequence, and in how many places it is. *)
Where(s, d) == {k \in DOMAIN s : s[k] = d}

Places(s, q, D, d) ==
    Cardinality(Where(s, d))
    + Cardinality(Where(q[d.dst], d))
    + (IF d \in D THEN 1 ELSE 0)

(* A sequence that holds d only at k, or nowhere, as a count. *)
LEMMA CountIn ==
  ASSUME NEW s, NEW d
  PROVE  /\ (\A k \in DOMAIN s : s[k] # d) => Cardinality(Where(s, d)) = 0
         /\ \A j \in DOMAIN s : s[j] = d /\ (\A k \in DOMAIN s : s[k] = d => k = j)
                => Cardinality(Where(s, d)) = 1
<1>1. (\A k \in DOMAIN s : s[k] # d) => Where(s, d) = {}
  BY DEF Where
<1>2. ASSUME NEW j \in DOMAIN s, s[j] = d, \A k \in DOMAIN s : s[k] = d => k = j
      PROVE  Cardinality(Where(s, d)) = 1
  <2>1. Where(s, d) = {j}
    BY <1>2 DEF Where
  <2> QED BY <2>1, FS_Singleton
<1> QED BY <1>1, <1>2, FS_EmptySet

(* A datagram that was handed over is in one place, under one destination. *)
LEMMA OnePlace ==
  ASSUME NEW h \in Nat, NEW s \in Seq(AnyDatagram), NEW q \in [IP -> Seq(AnyDatagram)],
         NEW D \in SUBSET AnyDatagram, Accounts(h, s, q, D), NEW id \in 1 .. h
  PROVE  \E ip \in IP :
            /\ Places(s, q, D, Datagram(id, ip, 1)) = 1
            /\ \A other \in IP \ {ip} : Places(s, q, D, Datagram(id, other, 1)) = 0
<1>1. \A ip \in IP : Datagram(id, ip, 1).id = id /\ Datagram(id, ip, 1).dst = ip
  BY DEF Datagram, ComputeChecksum
<1>2. /\ \A k \in DOMAIN s : Numbered(s[k], h)
      /\ \A ip \in IP : \A k \in DOMAIN q[ip] : Numbered(q[ip][k], h) /\ q[ip][k].dst = ip
      /\ \A d \in D : Numbered(d, h)
  BY DEF Accounts, AllNumbered
<1>3. \A d : Numbered(d, h) => d.dst \in IP /\ d = Datagram(d.id, d.dst, 1)
  BY DEF Numbered, AnyDatagram
<1>4. /\ \A j, k \in DOMAIN s : s[j].id = s[k].id => j = k
      /\ \A ip, iq \in IP : \A j \in DOMAIN q[ip], k \in DOMAIN q[iq] :
             q[ip][j].id = q[iq][k].id => ip = iq /\ j = k
      /\ \A d, e \in D : d.id = e.id => d = e
      /\ \A ip \in IP : \A j \in DOMAIN s, k \in DOMAIN q[ip] : s[j].id # q[ip][k].id
      /\ \A j \in DOMAIN s, d \in D : s[j].id # d.id
      /\ \A ip \in IP : \A k \in DOMAIN q[ip], d \in D : q[ip][k].id # d.id
  BY DEF Accounts, NoneTwice
<1>s. \A j, k \in DOMAIN s : s[j].id = s[k].id => j = k
  BY <1>4
<1>q. \A ip, iq \in IP : \A j \in DOMAIN q[ip], k \in DOMAIN q[iq] :
         q[ip][j].id = q[iq][k].id => ip = iq /\ j = k
  BY <1>4
<1>d. \A d, e \in D : d.id = e.id => d = e
  BY <1>4
<1>sq. \A ip \in IP : \A j \in DOMAIN s, k \in DOMAIN q[ip] : s[j].id # q[ip][k].id
  BY <1>4
<1>sd. \A j \in DOMAIN s, d \in D : s[j].id # d.id
  BY <1>4
<1>qd. \A ip \in IP : \A k \in DOMAIN q[ip], d \in D : q[ip][k].id # d.id
  BY <1>4
<1>5. ASSUME NEW ip \in IP,
             \A k \in DOMAIN s : s[k] # Datagram(id, ip, 1),
             \A k \in DOMAIN q[ip] : q[ip][k] # Datagram(id, ip, 1),
             Datagram(id, ip, 1) \notin D
      PROVE  Places(s, q, D, Datagram(id, ip, 1)) = 0
  <2> DEFINE d == Datagram(id, ip, 1)
  <2>1. Cardinality(Where(s, d)) = 0
    BY <1>5, CountIn
  <2>2. Cardinality(Where(q[d.dst], d)) = 0
    BY <1>1, <1>5, CountIn
  <2> QED BY <1>5, <2>1, <2>2 DEF Places
<1>6. CASE \E k \in DOMAIN s : s[k].id = id
  <2>1. PICK j \in DOMAIN s : s[j].id = id
    BY <1>6
  <2> DEFINE ip == s[j].dst
             d == Datagram(id, ip, 1)
  <2>2. ip \in IP /\ s[j] = d
    BY <1>2, <1>3, <2>1
  <2>3. \A iq \in IP : Datagram(id, iq, 1) \notin D
    BY <1>1, <1>sd, <2>1
  <2>4. \A iq \in IP : \A k \in DOMAIN q[iq] : q[iq][k] # Datagram(id, iq, 1)
    BY <1>1, <1>sq, <2>1
  <2>5. \A iq \in IP : \A k \in DOMAIN s : s[k] = Datagram(id, iq, 1) => k = j
    BY <1>1, <1>s, <2>1
  <2>6. \A iq \in IP \ {ip} : \A k \in DOMAIN s : s[k] # Datagram(id, iq, 1)
    BY <1>1, <2>5
  <2>7. Places(s, q, D, d) = 1
    <3>1. Cardinality(Where(s, d)) = 1
      BY <2>2, <2>5, CountIn
    <3>2. Cardinality(Where(q[d.dst], d)) = 0
      BY <1>1, <2>2, <2>4, CountIn
    <3>3. d \notin D
      BY <2>2, <2>3
    <3> QED BY <3>1, <3>2, <3>3 DEF Places
  <2>8. \A other \in IP \ {ip} : Places(s, q, D, Datagram(id, other, 1)) = 0
    BY <1>5, <2>3, <2>4, <2>6
  <2> QED BY <2>2, <2>7, <2>8
<1>7. CASE \E ip \in IP : \E k \in DOMAIN q[ip] : q[ip][k].id = id
  <2>0. PICK ip \in IP : \E k \in DOMAIN q[ip] : q[ip][k].id = id
    BY <1>7
  <2>1. PICK j \in DOMAIN q[ip] : q[ip][j].id = id
    BY <2>0
  <2> DEFINE d == Datagram(id, ip, 1)
  <2>2. q[ip][j] = d
    BY <1>2, <1>3, <2>1
  <2>3. \A iq \in IP : Datagram(id, iq, 1) \notin D
    BY <1>1, <1>qd, <2>1
  <2>4. \A iq \in IP : \A k \in DOMAIN s : s[k] # Datagram(id, iq, 1)
    BY <1>1, <1>sq, <2>1
  <2>5. \A iq \in IP : \A k \in DOMAIN q[iq] : q[iq][k] = Datagram(id, iq, 1) => iq = ip /\ k = j
    BY <1>1, <1>q, <2>1
  <2>6. \A iq \in IP \ {ip} : \A k \in DOMAIN q[iq] : q[iq][k] # Datagram(id, iq, 1)
    BY <2>5
  <2>7. Places(s, q, D, d) = 1
    <3>1. Cardinality(Where(s, d)) = 0
      BY <2>4, CountIn
    <3>2. Cardinality(Where(q[ip], d)) = 1
      BY <2>2, <2>5, CountIn
    <3>3. d \notin D /\ d.dst = ip
      BY <1>1, <2>3
    <3> QED BY <3>1, <3>2, <3>3 DEF Places
  <2>8. \A other \in IP \ {ip} : Places(s, q, D, Datagram(id, other, 1)) = 0
    BY <1>5, <2>3, <2>4, <2>6
  <2> QED BY <2>7, <2>8
<1>8. CASE \E e \in D : e.id = id
  <2>1. PICK e \in D : e.id = id
    BY <1>8
  <2> DEFINE ip == e.dst
             d == Datagram(id, ip, 1)
  <2>2. ip \in IP /\ e = d
    BY <1>2, <1>3, <2>1
  <2>3. \A iq \in IP \ {ip} : Datagram(id, iq, 1) \notin D
    BY <1>1, <1>d, <2>1
  <2>4. \A iq \in IP : \A k \in DOMAIN s : s[k] # Datagram(id, iq, 1)
    BY <1>1, <1>sd, <2>1
  <2>5. \A iq \in IP : \A k \in DOMAIN q[iq] : q[iq][k] # Datagram(id, iq, 1)
    BY <1>1, <1>qd, <2>1
  <2>6. Places(s, q, D, d) = 1
    <3>1. Cardinality(Where(s, d)) = 0
      BY <2>2, <2>4, CountIn
    <3>2. Cardinality(Where(q[d.dst], d)) = 0
      BY <1>1, <2>2, <2>5, CountIn
    <3>3. d \in D
      BY <2>2
    <3> QED BY <3>1, <3>2, <3>3 DEF Places
  <2>7. \A other \in IP \ {ip} : Places(s, q, D, Datagram(id, other, 1)) = 0
    BY <1>5, <2>3, <2>4, <2>5
  <2> QED BY <2>2, <2>6, <2>7
<1>9. NoneMissing(h, s, q, D)
  BY DEF Accounts
<1> QED BY <1>6, <1>7, <1>8, <1>9 DEF NoneMissing

(* However many datagrams are handed over: each is in exactly one place,   *)
(* on the wire, in the queue of its next hop or among the dropped ones.    *)
(* None is lost silently and none is sent twice (network_interface.cc:     *)
(* 37-52,130-139, arp_message_queue.cc:14-52).                             *)
THEOREM NoDatagramIsLost == Spec => []EveryDatagramAccountedFor
<1>1. InterfaceInv => EveryDatagramAccountedFor
  <2> SUFFICES ASSUME InterfaceInv, NEW id \in 1 .. handed
               PROVE  \E ip \in IP :
                         /\ Places(sent, Queues, dropped, Datagram(id, ip, 1)) = 1
                         /\ \A other \in IP \ {ip} :
                                Places(sent, Queues, dropped, Datagram(id, other, 1)) = 0
    <3>1. \A n \in Nat : \A ip \in IP : Datagram(n, ip, 1).dst = ip
      BY DEF Datagram, ComputeChecksum
    <3>2. \A n \in 1 .. handed : \A ip \in IP :
              Places(sent, Queues, dropped, Datagram(n, ip, 1))
              = Cardinality({k \in DOMAIN sent : sent[k] = Datagram(n, ip, 1)})
                + Cardinality({k \in DOMAIN iface.pending[Datagram(n, ip, 1).dst].dgrams :
                        iface.pending[Datagram(n, ip, 1).dst].dgrams[k] = Datagram(n, ip, 1)})
                + (IF Datagram(n, ip, 1) \in dropped THEN 1 ELSE 0)
      <4> SUFFICES ASSUME NEW n \in 1 .. handed, NEW ip \in IP, NEW d, d = Datagram(n, ip, 1)
                   PROVE  Places(sent, Queues, dropped, d)
                          = Cardinality({k \in DOMAIN sent : sent[k] = d})
                            + Cardinality({k \in DOMAIN iface.pending[d.dst].dgrams :
                                                iface.pending[d.dst].dgrams[k] = d})
                            + (IF d \in dropped THEN 1 ELSE 0)
        OBVIOUS
      <4>1. d.dst = ip
        BY <3>1
      <4>2. Queues[d.dst] = iface.pending[d.dst].dgrams
        BY <4>1 DEF Queues
      <4> HIDE DEF Queues
      <4> QED BY <4>2 DEF Places, Where
    <3> QED BY <3>2 DEF EveryDatagramAccountedFor
  <2>1. /\ handed \in Nat /\ sent \in Seq(AnyDatagram) /\ dropped \in SUBSET AnyDatagram
        /\ Accounts(handed, sent, Queues, dropped)
    BY DEF InterfaceInv, Types
  <2>2. Queues \in [IP -> Seq(AnyDatagram)]
    BY InterfaceFields DEF InterfaceInv, Types
  <2> QED BY <2>1, <2>2, OnePlace
<1> QED BY <1>1, InterfaceAlways, PTL
=============================================================================
