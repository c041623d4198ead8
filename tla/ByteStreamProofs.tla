-------------------------- MODULE ByteStreamProofs --------------------------
(***************************************************************************)
(* A ByteStream as a deque of strings is a bounded stream of bytes, for    *)
(* any alphabet, capacity and lengths of the strings.                      *)
(*                                                                         *)
(* The loops are recursive functions of the turn.  What they compute is    *)
(* found by looking at the first turn after which something else would be  *)
(* the case: after every turn of pop(), what is left without the bytes     *)
(* still to go is the same (Popping), and after every turn of read(), what *)
(* was collected with the bytes still to come is the same (Reading).  Both *)
(* need that no string of the deque is empty and that the offset is within *)
(* the first of them (GoodDeque), which push() and pop() keep.             *)
(***************************************************************************)
EXTENDS ByteStreamSegments, NaturalsInduction, WellFoundedInduction, SequenceTheorems, TLAPS

(* A non-empty set of natural numbers has a least element. *)
LEMMA LeastElement ==
  ASSUME NEW T, T \subseteq Nat, T # {}
  PROVE  \E x \in T : \A y \in T : x <= y
<1> DEFINE R == OpToRel(<, Nat)
<1>1. IsWellFoundedOn(R, Nat)
  BY NatLessThanWellFounded
<1> HIDE DEF R
<1>2. PICK x \in T : \A y \in T : ~(<<y, x>> \in R)
  BY <1>1, WFMin, Zenon
<1>3. \A y \in T : y < x => <<y, x>> \in R
  BY DEF R, OpToRel
<1>4. \A y \in T : y \in Nat /\ x \in Nat
  OBVIOUS
<1>5. \A y \in T : ~(y < x)
  BY <1>2, <1>3
<1>6. \A y \in T : x <= y
  BY <1>4, <1>5
<1> QED
  BY <1>6

-----------------------------------------------------------------------------
(* Cutting sequences. *)

(* What follows the first n elements. *)
Drop(x, n) == SubSeq(x, n + 1, Len(x))

(* The elements that are left, and how many. *)
LEMMA DropIs ==
  ASSUME NEW S, NEW x \in Seq(S), NEW n \in 0 .. Len(x)
  PROVE  /\ Drop(x, n) \in Seq(S) /\ Len(Drop(x, n)) = Len(x) - n
         /\ \A i \in 1 .. Len(x) - n : Drop(x, n)[i] = x[n + i]
<1>1. Len(x) \in Nat /\ n \in Nat /\ n <= Len(x) /\ n + 1 \in Int
  BY LenProperties
<1>2. \A i \in n + 1 .. Len(x) : x[i] \in S
  <2> SUFFICES ASSUME NEW i \in n + 1 .. Len(x) PROVE x[i] \in S
    OBVIOUS
  <2>1. i \in 1 .. Len(x)
    BY <1>1
  <2> QED
    BY <2>1, ElementOfSeq
<1>3. /\ Drop(x, n) \in Seq(S)
      /\ Len(Drop(x, n)) = IF n + 1 <= Len(x) THEN Len(x) - (n + 1) + 1 ELSE 0
      /\ \A i \in 1 .. (Len(x) - (n + 1) + 1) : Drop(x, n)[i] = x[(n + 1) + i - 1]
  BY <1>1, <1>2, SubSeqProperties DEF Drop
<1>4. Len(x) - (n + 1) + 1 = Len(x) - n
  BY <1>1
<1>5. Len(Drop(x, n)) = Len(x) - n
  BY <1>1, <1>3
<1>6. ASSUME NEW i \in 1 .. Len(x) - n PROVE Drop(x, n)[i] = x[n + i]
  <2>1. (n + 1) + i - 1 = n + i
    BY <1>1
  <2> QED
    BY <1>3, <1>4, <2>1
<1> QED
  BY <1>3, <1>5, <1>6

(* Dropping nothing. *)
LEMMA DropNothing ==
  ASSUME NEW S, NEW x \in Seq(S)
  PROVE  Drop(x, 0) = x
<1>1. Len(x) \in Nat /\ 0 \in 0 .. Len(x)
  BY LenProperties
<1>2. /\ Drop(x, 0) \in Seq(S) /\ Len(Drop(x, 0)) = Len(x) - 0
      /\ \A i \in 1 .. Len(x) - 0 : Drop(x, 0)[i] = x[0 + i]
  BY <1>1, DropIs
<1>3. Len(Drop(x, 0)) = Len(x) /\ \A i \in 1 .. Len(x) : Drop(x, 0)[i] = x[i]
  BY <1>1, <1>2
<1> QED
  BY <1>2, <1>3, SeqEqual

(* Dropping some elements and then more. *)
LEMMA DropTwice ==
  ASSUME NEW S, NEW x \in Seq(S), NEW a \in Nat, NEW b \in Nat, a + b <= Len(x)
  PROVE  Drop(Drop(x, a), b) = Drop(x, a + b)
<1> DEFINE y == Drop(x, a)
           z == Drop(x, a + b)
           n == Len(x)
<1>1. n \in Nat /\ a \in 0 .. n /\ a + b \in 0 .. n /\ b \in 0 .. n - a
  BY LenProperties
<1>2. y \in Seq(S) /\ Len(y) = n - a /\ \A i \in 1 .. n - a : y[i] = x[a + i]
  BY <1>1, DropIs
<1>3. z \in Seq(S) /\ Len(z) = n - (a + b) /\ \A i \in 1 .. n - (a + b) : z[i] = x[(a + b) + i]
  BY <1>1, DropIs
<1> HIDE DEF y, z
<1>4. /\ Drop(y, b) \in Seq(S) /\ Len(Drop(y, b)) = (n - a) - b
      /\ \A i \in 1 .. (n - a) - b : Drop(y, b)[i] = y[b + i]
  <2>1. b \in 0 .. Len(y)
    BY <1>1, <1>2
  <2>2. /\ Drop(y, b) \in Seq(S) /\ Len(Drop(y, b)) = Len(y) - b
        /\ \A i \in 1 .. Len(y) - b : Drop(y, b)[i] = y[b + i]
    BY <1>2, <2>1, DropIs
  <2> QED
    BY <1>2, <2>2
<1>5. Len(Drop(y, b)) = Len(z)
  BY <1>1, <1>3, <1>4
<1>6. ASSUME NEW i \in 1 .. Len(z) PROVE Drop(y, b)[i] = z[i]
  <2>1. i \in 1 .. (n - a) - b /\ b + i \in 1 .. n - a /\ i \in 1 .. n - (a + b) /\ a + (b + i) = (a + b) + i
    BY <1>1, <1>3
  <2> QED
    BY <1>2, <1>3, <1>4, <2>1
<1>7. Drop(y, b) = z
  BY <1>3, <1>4, <1>5, <1>6, SeqEqual
<1> QED
  BY <1>7 DEF y, z

(* Dropping less than the first of two sequences, or all of it and more. *)
LEMMA DropOfFirst ==
  ASSUME NEW S, NEW x \in Seq(S), NEW y \in Seq(S), NEW a \in 0 .. Len(x)
  PROVE  Drop(x \o y, a) = Drop(x, a) \o y
<1> DEFINE u == x \o y
           m == Len(x)
           n == Len(y)
           v == Drop(x, a)
<1>1. m \in Nat /\ n \in Nat /\ a \in Nat /\ a <= m
  BY LenProperties
<1>2. u \in Seq(S) /\ Len(u) = m + n /\ \A i \in 1 .. m + n : u[i] = IF i <= m THEN x[i] ELSE y[i - m]
  BY ConcatProperties
<1>3. v \in Seq(S) /\ Len(v) = m - a /\ \A i \in 1 .. m - a : v[i] = x[a + i]
  BY DropIs
<1> HIDE DEF u, v, m, n
<1>4. /\ v \o y \in Seq(S) /\ Len(v \o y) = (m - a) + n
      /\ \A i \in 1 .. (m - a) + n : (v \o y)[i] = IF i <= m - a THEN v[i] ELSE y[i - (m - a)]
  <2>1. /\ v \o y \in Seq(S) /\ Len(v \o y) = Len(v) + Len(y)
        /\ \A i \in 1 .. Len(v) + Len(y) : (v \o y)[i] = IF i <= Len(v) THEN v[i] ELSE y[i - Len(v)]
    BY <1>3, ConcatProperties
  <2> QED
    BY <1>3, <2>1 DEF n
<1>5. /\ Drop(u, a) \in Seq(S) /\ Len(Drop(u, a)) = (m + n) - a
      /\ \A i \in 1 .. (m + n) - a : Drop(u, a)[i] = u[a + i]
  <2>1. a \in 0 .. Len(u)
    BY <1>1, <1>2
  <2>2. /\ Drop(u, a) \in Seq(S) /\ Len(Drop(u, a)) = Len(u) - a
        /\ \A i \in 1 .. Len(u) - a : Drop(u, a)[i] = u[a + i]
    BY <1>2, <2>1, DropIs
  <2> QED
    BY <1>2, <2>2
<1>6. Len(Drop(u, a)) = Len(v \o y)
  BY <1>1, <1>4, <1>5
<1>7. ASSUME NEW i \in 1 .. Len(Drop(u, a)) PROVE Drop(u, a)[i] = (v \o y)[i]
  <2>1. i \in 1 .. (m + n) - a /\ i \in 1 .. (m - a) + n /\ a + i \in 1 .. m + n
    BY <1>1, <1>5
  <2>2. CASE i <= m - a
    <3>1. i \in 1 .. m - a /\ a + i <= m
      BY <1>1, <2>1, <2>2
    <3> QED
      BY <1>2, <1>3, <1>4, <1>5, <2>1, <2>2, <3>1
  <2>3. CASE ~(i <= m - a)
    <3>1. ~(a + i <= m) /\ (a + i) - m = i - (m - a)
      BY <1>1, <2>1, <2>3
    <3> QED
      BY <1>2, <1>4, <1>5, <2>1, <2>3, <3>1
  <2> QED
    BY <2>2, <2>3
<1>8. Drop(u, a) = v \o y
  BY <1>4, <1>5, <1>6, <1>7, SeqEqual
<1> QED
  BY <1>8 DEF u, v

(* Dropping all of the first sequence and some of the second. *)
LEMMA DropOfBoth ==
  ASSUME NEW S, NEW x \in Seq(S), NEW y \in Seq(S), NEW a \in Len(x) .. Len(x) + Len(y)
  PROVE  Drop(x \o y, a) = Drop(y, a - Len(x))
<1> DEFINE u == x \o y
           m == Len(x)
           n == Len(y)
           c == a - m
<1>1. m \in Nat /\ n \in Nat /\ a \in Nat /\ m <= a /\ c \in 0 .. n /\ c \in Nat /\ a = m + c
  BY LenProperties
<1>2. u \in Seq(S) /\ Len(u) = m + n /\ \A i \in 1 .. m + n : u[i] = IF i <= m THEN x[i] ELSE y[i - m]
  BY ConcatProperties
<1>3. Drop(y, c) \in Seq(S) /\ Len(Drop(y, c)) = n - c /\ \A i \in 1 .. n - c : Drop(y, c)[i] = y[c + i]
  BY <1>1, DropIs
<1> HIDE DEF u, m, n, c
<1>4. /\ Drop(u, a) \in Seq(S) /\ Len(Drop(u, a)) = (m + n) - a
      /\ \A i \in 1 .. (m + n) - a : Drop(u, a)[i] = u[a + i]
  <2>1. a \in 0 .. Len(u)
    BY <1>1, <1>2
  <2>2. /\ Drop(u, a) \in Seq(S) /\ Len(Drop(u, a)) = Len(u) - a
        /\ \A i \in 1 .. Len(u) - a : Drop(u, a)[i] = u[a + i]
    BY <1>2, <2>1, DropIs
  <2> QED
    BY <1>2, <2>2
<1>5. Len(Drop(u, a)) = Len(Drop(y, c))
  BY <1>1, <1>3, <1>4
<1>6. ASSUME NEW i \in 1 .. Len(Drop(u, a)) PROVE Drop(u, a)[i] = Drop(y, c)[i]
  <2>1. i \in 1 .. (m + n) - a /\ i \in 1 .. n - c /\ a + i \in 1 .. m + n /\ ~(a + i <= m) /\ (a + i) - m = c + i
    BY <1>1, <1>4
  <2> QED
    BY <1>2, <1>3, <1>4, <2>1
<1>7. Drop(u, a) = Drop(y, c)
  BY <1>3, <1>4, <1>5, <1>6, SeqEqual
<1> QED
  BY <1>7 DEF u, c, m

(* The first n elements. *)
First(x, n) == SubSeq(x, 1, n)

(* With what follows them they are all. *)
LEMMA FirstIs ==
  ASSUME NEW S, NEW x \in Seq(S), NEW n \in 0 .. Len(x)
  PROVE  /\ First(x, n) \in Seq(S) /\ Len(First(x, n)) = n
         /\ \A i \in 1 .. n : First(x, n)[i] = x[i]
         /\ First(x, n) \o Drop(x, n) = x
<1>1. Len(x) \in Nat /\ n \in Nat /\ n <= Len(x) /\ n \in Int
  BY LenProperties
<1>2. \A i \in 1 .. n : x[i] \in S
  <2> SUFFICES ASSUME NEW i \in 1 .. n PROVE x[i] \in S
    OBVIOUS
  <2>1. i \in 1 .. Len(x)
    BY <1>1
  <2> QED
    BY <2>1, ElementOfSeq
<1>3. /\ First(x, n) \in Seq(S)
      /\ Len(First(x, n)) = IF 1 <= n THEN n - 1 + 1 ELSE 0
      /\ \A i \in 1 .. (n - 1 + 1) : First(x, n)[i] = x[1 + i - 1]
  BY <1>1, <1>2, SubSeqProperties DEF First
<1>4. n - 1 + 1 = n /\ \A i \in 1 .. n : 1 + i - 1 = i
  BY <1>1
<1>5. Len(First(x, n)) = n
  BY <1>1, <1>3
<1>6. \A i \in 1 .. n : First(x, n)[i] = x[i]
  BY <1>3, <1>4
<1>7. First(x, n) \o Drop(x, n) = x
  <2> DEFINE f == First(x, n)
             d == Drop(x, n)
  <2>1. d \in Seq(S) /\ Len(d) = Len(x) - n /\ \A i \in 1 .. Len(x) - n : d[i] = x[n + i]
    BY DropIs
  <2> HIDE DEF d
  <2>2. f \in Seq(S) /\ Len(f) = n /\ \A i \in 1 .. n : f[i] = x[i]
    BY <1>3, <1>5, <1>6
  <2> HIDE DEF f
  <2>3. /\ f \o d \in Seq(S) /\ Len(f \o d) = Len(f) + Len(d)
        /\ \A i \in 1 .. Len(f) + Len(d) : (f \o d)[i] = IF i <= Len(f) THEN f[i] ELSE d[i - Len(f)]
    BY <2>1, <2>2, ConcatProperties
  <2>4. Len(f \o d) = Len(x)
    BY <1>1, <2>1, <2>2, <2>3
  <2>5. ASSUME NEW i \in 1 .. Len(x) PROVE (f \o d)[i] = x[i]
    <3>1. i \in 1 .. Len(f) + Len(d)
      BY <1>1, <2>1, <2>2
    <3>2. CASE i <= n
      <4>1. i \in 1 .. n
        BY <1>1, <3>2
      <4> QED
        BY <2>2, <2>3, <3>1, <3>2, <4>1
    <3>3. CASE ~(i <= n)
      <4>1. i - n \in 1 .. Len(x) - n /\ n + (i - n) = i
        BY <1>1, <3>3
      <4> QED
        BY <2>1, <2>2, <2>3, <3>1, <3>3, <4>1
    <3> QED
      BY <3>2, <3>3
  <2>6. f \o d = x
    BY <2>3, <2>4, <2>5, SeqEqual
  <2> QED
    BY <2>6 DEF f, d
<1> QED
  BY <1>3, <1>5, <1>6, <1>7

(* The first elements, and the first of what follows them. *)
LEMMA FirstOfRest ==
  ASSUME NEW S, NEW x \in Seq(S), NEW a \in Nat, NEW b \in Nat, a + b <= Len(x)
  PROVE  First(x, a) \o First(Drop(x, a), b) = First(x, a + b)
<1> DEFINE d == Drop(x, a)
           f == First(x, a)
           g == First(d, b)
           h == First(x, a + b)
<1>1. Len(x) \in Nat /\ a \in 0 .. Len(x) /\ a + b \in 0 .. Len(x) /\ b \in 0 .. Len(x) - a
  BY LenProperties
<1>2. d \in Seq(S) /\ Len(d) = Len(x) - a /\ \A i \in 1 .. Len(x) - a : d[i] = x[a + i]
  BY <1>1, DropIs
<1>3. f \in Seq(S) /\ Len(f) = a /\ \A i \in 1 .. a : f[i] = x[i]
  BY <1>1, FirstIs
<1>4. h \in Seq(S) /\ Len(h) = a + b /\ \A i \in 1 .. a + b : h[i] = x[i]
  BY <1>1, FirstIs
<1> HIDE DEF d, f, h
<1>5. g \in Seq(S) /\ Len(g) = b /\ \A i \in 1 .. b : g[i] = d[i]
  <2>1. d \in Seq(S) /\ b \in 0 .. Len(d)
    BY <1>1, <1>2
  <2> QED
    BY <2>1, FirstIs
<1> HIDE DEF g
<1>6. /\ f \o g \in Seq(S) /\ Len(f \o g) = Len(f) + Len(g)
      /\ \A i \in 1 .. Len(f) + Len(g) : (f \o g)[i] = IF i <= Len(f) THEN f[i] ELSE g[i - Len(f)]
  BY <1>3, <1>5, ConcatProperties
<1>7. Len(f \o g) = Len(h)
  BY <1>3, <1>4, <1>5, <1>6
<1>8. ASSUME NEW i \in 1 .. Len(h) PROVE (f \o g)[i] = h[i]
  <2>1. i \in 1 .. Len(f) + Len(g) /\ i \in 1 .. a + b
    BY <1>3, <1>4, <1>5
  <2>2. CASE i <= a
    <3>1. i \in 1 .. a
      BY <2>1, <2>2
    <3> QED
      BY <1>3, <1>4, <1>6, <2>1, <2>2, <3>1
  <2>3. CASE ~(i <= a)
    <3>1. i - a \in 1 .. b /\ i - a \in 1 .. Len(x) - a /\ a + (i - a) = i
      BY <1>1, <2>1, <2>3
    <3> QED
      <4>1. (f \o g)[i] = g[i - a]
        BY <1>3, <1>6, <2>1, <2>3
      <4>2. g[i - a] = d[i - a]
        BY <1>5, <3>1
      <4>3. d[i - a] = x[i]
        BY <1>2, <3>1
      <4>4. h[i] = x[i]
        BY <1>4, <2>1
      <4> QED
        BY ONLY <4>1, <4>2, <4>3, <4>4, Zenon
  <2> QED
    BY <2>2, <2>3
<1>9. f \o g = h
  BY <1>4, <1>6, <1>7, <1>8, SeqEqual
<1> QED
  BY <1>9 DEF f, g, h, d

(* The first elements of two sequences in a row. *)
LEMMA FirstOfFirst ==
  ASSUME NEW S, NEW x \in Seq(S), NEW y \in Seq(S), NEW n \in 0 .. Len(x)
  PROVE  First(x \o y, n) = First(x, n)
<1> DEFINE u == x \o y
           f == First(x, n)
<1>1. Len(x) \in Nat /\ Len(y) \in Nat /\ n \in Nat /\ n <= Len(x)
  BY LenProperties
<1>2. /\ u \in Seq(S) /\ Len(u) = Len(x) + Len(y)
      /\ \A i \in 1 .. Len(x) + Len(y) : u[i] = IF i <= Len(x) THEN x[i] ELSE y[i - Len(x)]
  BY ConcatProperties
<1>3. f \in Seq(S) /\ Len(f) = n /\ \A i \in 1 .. n : f[i] = x[i]
  BY FirstIs
<1> HIDE DEF u, f
<1>4. n \in 0 .. Len(u)
  BY <1>1, <1>2
<1>5. First(u, n) \in Seq(S) /\ Len(First(u, n)) = n /\ \A i \in 1 .. n : First(u, n)[i] = u[i]
  BY <1>2, <1>4, FirstIs
<1>6. ASSUME NEW i \in 1 .. n PROVE First(u, n)[i] = f[i]
  <2>1. i \in 1 .. Len(x) + Len(y) /\ i <= Len(x)
    BY <1>1
  <2> QED
    BY <1>2, <1>3, <1>5, <2>1
<1>7. First(u, n) = f
  BY <1>3, <1>5, <1>6, SeqEqual
<1> QED
  BY <1>7 DEF u, f

-----------------------------------------------------------------------------
(* The loops, turn by turn. *)

(* Turn k of a loop: of pop(), of read(), or of putting strings together. *)
Turn(loop, segs, v, k) ==
    IF loop = "pop" THEN PopTurn(v) ELSE IF loop = "read" THEN ReadTurn(v) ELSE v \o segs[k]

TurnsBy(loop, segs, t, v, m) ==
    t = [k \in 0 .. m |-> IF k = 0 THEN v ELSE Turn(loop, segs, t[k - 1], k)]

(* The recursive functions that the loops are written as exist. *)
LEMMA TurnsExist ==
  ASSUME NEW loop, NEW segs, NEW v, NEW L \in Nat
  PROVE  \E t : TurnsBy(loop, segs, t, v, L)
<1> DEFINE T == {m \in 0 .. L : ~\E t : TurnsBy(loop, segs, t, v, m)}
<1>1. L \in 0 .. L
  OBVIOUS
<1> SUFFICES ASSUME T # {} PROVE FALSE
  BY <1>1, Zenon
<1>2. T \subseteq Nat
  OBVIOUS
<1>3. PICK y \in T : \A z \in T : y <= z
  <2> HIDE DEF T
  <2> QED
    BY <1>2, LeastElement
<1>4. y # 0
  <2> DEFINE g == [k \in 0 .. 0 |-> v]
  <2>1. TurnsBy(loop, segs, g, v, 0)
    BY DEF TurnsBy
  <2>2. \E t : TurnsBy(loop, segs, t, v, 0)
    BY <2>1
  <2> QED
    BY <1>3, <2>2
<1>5. y - 1 \in 0 .. L /\ y - 1 \notin T /\ y \in Nat /\ y - 1 \in Nat
  <2>1. y \in 0 .. L
    BY <1>3
  <2> HIDE DEF T
  <2>2. y - 1 \in 0 .. L /\ ~(y <= y - 1)
    BY <1>4, <2>1
  <2> QED
    BY <1>3, <2>1, <2>2
<1>6. PICK g : TurnsBy(loop, segs, g, v, y - 1)
  BY <1>5
<1> HIDE DEF T
<1> DEFINE last == Turn(loop, segs, g[y - 1], y)
           h == [k \in 0 .. y |-> IF k < y THEN g[k] ELSE last]
<1>7. /\ \A k \in 0 .. y - 1 : h[k] = g[k]
      /\ h[y] = last
  BY <1>5
<1>8. \A k \in 0 .. y - 1 : g[k] = IF k = 0 THEN v ELSE Turn(loop, segs, g[k - 1], k)
  BY <1>6 DEF TurnsBy
<1>9. h = [k \in 0 .. y |-> h[k]]
  OBVIOUS
<1> HIDE DEF h
<1>10. \A k \in 0 .. y : h[k] = IF k = 0 THEN v ELSE Turn(loop, segs, h[k - 1], k)
  <2> SUFFICES ASSUME NEW k \in 0 .. y
               PROVE  h[k] = IF k = 0 THEN v ELSE Turn(loop, segs, h[k - 1], k)
    OBVIOUS
  <2>1. CASE k = y
    <3>1. y - 1 \in 0 .. y - 1
      BY <1>5
    <3>2. h[y - 1] = g[y - 1]
      BY <1>7, <3>1
    <3> QED
      BY <1>4, <1>7, <2>1, <3>2
  <2>2. CASE k # y /\ k = 0
    <3>1. k \in 0 .. y - 1
      BY <1>5, <2>2
    <3> QED
      BY <1>7, <1>8, <2>2, <3>1
  <2>3. CASE k # y /\ k # 0
    <3>1. k \in 0 .. y - 1 /\ k - 1 \in 0 .. y - 1
      BY <1>5, <2>3
    <3>2. h[k] = g[k] /\ h[k - 1] = g[k - 1]
      BY <1>7, <3>1
    <3>3. g[k] = Turn(loop, segs, g[k - 1], k)
      BY <1>8, <2>3, <3>1
    <3> QED
      BY <2>3, <3>2, <3>3
  <2> QED
    BY <2>1, <2>2, <2>3
<1>11. TurnsBy(loop, segs, h, v, y)
  BY <1>9, <1>10 DEF TurnsBy
<1> QED
  BY <1>3, <1>11 DEF T

(* Every turn of a loop, from the first state on. *)
LEMMA TurnsAre ==
  ASSUME NEW loop, NEW segs, NEW v, NEW L \in Nat, NEW t, TurnsBy(loop, segs, t, v, L)
  PROVE  t[0] = v /\ \A k \in 0 .. L - 1 : t[k + 1] = Turn(loop, segs, t[k], k + 1)
<1>1. \A k \in 0 .. L : t[k] = IF k = 0 THEN v ELSE Turn(loop, segs, t[k - 1], k)
  BY DEF TurnsBy
<1>2. 0 \in 0 .. L /\ \A k \in 0 .. L - 1 : k + 1 \in 0 .. L /\ k + 1 # 0 /\ (k + 1) - 1 = k
  OBVIOUS
<1> QED
  BY <1>1, <1>2

(* The turns of pop(), one after the other. *)
LEMMA PopTurns ==
  ASSUME NEW segs, NEW skip, NEW len, Len(segs) + len \in Nat
  PROVE  \E t : /\ PopLoop(segs, skip, len) = t[Len(segs) + len]
                /\ t[0] = [segments |-> segs, skip |-> skip, len |-> len]
                /\ \A k \in 0 .. (Len(segs) + len) - 1 : t[k + 1] = PopTurn(t[k])
<1> DEFINE L == Len(segs) + len
           v == [segments |-> segs, skip |-> skip, len |-> len]
           turn == CHOOSE t : t = [k \in 0 .. L |-> IF k = 0 THEN v ELSE PopTurn(t[k - 1])]
<1>1. PopLoop(segs, skip, len) = turn[L]
  BY Zenon DEF PopLoop
<1>0. L \in Nat
  OBVIOUS
<1> HIDE DEF v, L
<1>2. \A t : TurnsBy("pop", segs, t, v, L)
              <=> t = [k \in 0 .. L |-> IF k = 0 THEN v ELSE PopTurn(t[k - 1])]
  BY DEF TurnsBy, Turn
<1>3. PICK t : TurnsBy("pop", segs, t, v, L)
  BY <1>0, TurnsExist
<1>4. t = [k \in 0 .. L |-> IF k = 0 THEN v ELSE PopTurn(t[k - 1])]
  BY <1>2, <1>3
<1>5. turn = [k \in 0 .. L |-> IF k = 0 THEN v ELSE PopTurn(turn[k - 1])]
  BY <1>4
<1>6. TurnsBy("pop", segs, turn, v, L)
  BY <1>2, <1>5
<1> HIDE DEF turn
<1>7. turn[0] = v /\ \A k \in 0 .. L - 1 : turn[k + 1] = Turn("pop", segs, turn[k], k + 1)
  BY ONLY <1>0, <1>6, TurnsAre
<1>8. \A k \in 0 .. L - 1 : turn[k + 1] = PopTurn(turn[k])
  BY <1>7 DEF Turn
<1> QED
  BY <1>1, <1>7, <1>8 DEF v, L

(* The turns of read(). *)
LEMMA ReadTurns ==
  ASSUME NEW segs, NEW skip, NEW len \in Nat
  PROVE  \E t : /\ ReadLoop(segs, skip, len) = t[len].out
                /\ t[0] = [segments |-> segs, skip |-> skip, len |-> len, out |-> <<>>]
                /\ \A k \in 0 .. len - 1 : t[k + 1] = ReadTurn(t[k])
<1> DEFINE v == [segments |-> segs, skip |-> skip, len |-> len, out |-> <<>>]
           turn == CHOOSE t : t = [k \in 0 .. len |-> IF k = 0 THEN v ELSE ReadTurn(t[k - 1])]
<1>1. ReadLoop(segs, skip, len) = turn[len].out
  BY Zenon DEF ReadLoop
<1> HIDE DEF v
<1>2. \A t : TurnsBy("read", segs, t, v, len)
              <=> t = [k \in 0 .. len |-> IF k = 0 THEN v ELSE ReadTurn(t[k - 1])]
  BY DEF TurnsBy, Turn
<1>3. PICK t : TurnsBy("read", segs, t, v, len)
  BY TurnsExist
<1>4. t = [k \in 0 .. len |-> IF k = 0 THEN v ELSE ReadTurn(t[k - 1])]
  BY <1>2, <1>3
<1>5. turn = [k \in 0 .. len |-> IF k = 0 THEN v ELSE ReadTurn(turn[k - 1])]
  BY <1>4
<1>6. TurnsBy("read", segs, turn, v, len)
  BY <1>2, <1>5
<1> HIDE DEF turn
<1>7. turn[0] = v /\ \A k \in 0 .. len - 1 : turn[k + 1] = Turn("read", segs, turn[k], k + 1)
  BY <1>6, TurnsAre
<1>8. \A k \in 0 .. len - 1 : turn[k + 1] = ReadTurn(turn[k])
  BY <1>7 DEF Turn
<1> QED
  BY <1>1, <1>7, <1>8 DEF v

(* Strings put together one by one. *)
LEMMA ChainTurns ==
  ASSUME NEW segs, Len(segs) \in Nat
  PROVE  \E t : /\ Chained(segs) = t[Len(segs)] /\ t[0] = <<>>
                /\ \A k \in 0 .. Len(segs) - 1 : t[k + 1] = t[k] \o segs[k + 1]
<1> DEFINE L == Len(segs)
           v == <<>>
           turn == CHOOSE t : t = [k \in 0 .. L |-> IF k = 0 THEN v ELSE t[k - 1] \o segs[k]]
<1>1. Chained(segs) = turn[L]
  BY Zenon DEF Chained
<1>0. L \in Nat
  OBVIOUS
<1> HIDE DEF v, L
<1>2. \A t : TurnsBy("chain", segs, t, v, L)
              <=> t = [k \in 0 .. L |-> IF k = 0 THEN v ELSE t[k - 1] \o segs[k]]
  BY DEF TurnsBy, Turn
<1>3. PICK t : TurnsBy("chain", segs, t, v, L)
  BY <1>0, TurnsExist
<1>4. t = [k \in 0 .. L |-> IF k = 0 THEN v ELSE t[k - 1] \o segs[k]]
  BY <1>2, <1>3
<1>5. turn = [k \in 0 .. L |-> IF k = 0 THEN v ELSE turn[k - 1] \o segs[k]]
  BY <1>4
<1>6. TurnsBy("chain", segs, turn, v, L)
  BY <1>2, <1>5
<1> HIDE DEF turn
<1>7. turn[0] = v /\ \A k \in 0 .. L - 1 : turn[k + 1] = Turn("chain", segs, turn[k], k + 1)
  BY <1>0, <1>6, TurnsAre
<1>8. \A k \in 0 .. L - 1 : turn[k + 1] = turn[k] \o segs[k + 1]
  BY <1>7 DEF Turn
<1> QED
  BY <1>1, <1>7, <1>8 DEF v, L

-----------------------------------------------------------------------------
(* The strings end to end. *)

(* Every string put together on the way is one. *)
LEMMA ChainIsSequence ==
  ASSUME NEW segs \in Seq(Seq(Byte)), NEW t, t[0] = <<>>,
         \A k \in 0 .. Len(segs) - 1 : t[k + 1] = t[k] \o segs[k + 1]
  PROVE  \A k \in 0 .. Len(segs) : t[k] \in Seq(Byte)
<1> DEFINE T == {k \in 0 .. Len(segs) : t[k] \notin Seq(Byte)}
<1>1. Len(segs) \in Nat
  BY LenProperties
<1> SUFFICES ASSUME T # {} PROVE FALSE
  OBVIOUS
<1>2. T \subseteq Nat
  BY <1>1
<1>3. PICK k \in T : \A j \in T : k <= j
  <2> HIDE DEF T
  <2> QED
    BY <1>2, LeastElement
<1>4. k \in 0 .. Len(segs) /\ t[k] \notin Seq(Byte)
  BY <1>3
<1>5. <<>> \in Seq(Byte)
  BY EmptySeq
<1>6. k # 0
  BY <1>4, <1>5
<1>7. k - 1 \in 0 .. Len(segs) - 1 /\ k - 1 \in 0 .. Len(segs) /\ ~(k <= k - 1) /\ (k - 1) + 1 = k
      /\ k \in 1 .. Len(segs)
  BY <1>1, <1>4, <1>6
<1>8. t[k - 1] \in Seq(Byte)
  BY <1>3, <1>7
<1>9. segs[k] \in Seq(Byte)
  BY <1>7, ElementOfSeq
<1>10. t[k] = t[k - 1] \o segs[k]
  BY <1>7
<1> QED
  BY <1>4, <1>8, <1>9, <1>10, ConcatProperties

(* The strings put together are one string. *)
LEMMA ChainedType ==
  ASSUME NEW segs \in Seq(Seq(Byte))
  PROVE  Chained(segs) \in Seq(Byte) /\ (segs = <<>> => Chained(segs) = <<>>)
<1>1. Len(segs) \in Nat /\ Len(segs) \in 0 .. Len(segs)
  BY LenProperties
<1>2. PICK t : /\ Chained(segs) = t[Len(segs)] /\ t[0] = <<>>
               /\ \A k \in 0 .. Len(segs) - 1 : t[k + 1] = t[k] \o segs[k + 1]
  BY <1>1, ChainTurns
<1>3. \A k \in 0 .. Len(segs) : t[k] \in Seq(Byte)
  BY <1>2, ChainIsSequence
<1>4. segs = <<>> => Len(segs) = 0
  BY EmptySeq
<1> QED
  BY <1>1, <1>2, <1>3, <1>4

(* One more string at the end. *)
LEMMA ChainedAppend ==
  ASSUME NEW segs \in Seq(Seq(Byte)), NEW d \in Seq(Byte)
  PROVE  Chained(Append(segs, d)) = Chained(segs) \o d
<1> DEFINE n == Len(segs)
           r == Append(segs, d)
<1>1. n \in Nat
  BY LenProperties
<1>2. /\ r \in Seq(Seq(Byte)) /\ Len(r) = n + 1
      /\ \A i \in 1 .. n : r[i] = segs[i]
      /\ r[n + 1] = d
  BY AppendProperties
<1>3. PICK t : /\ Chained(segs) = t[n] /\ t[0] = <<>>
               /\ \A k \in 0 .. n - 1 : t[k + 1] = t[k] \o segs[k + 1]
  BY <1>1, ChainTurns
<1> HIDE DEF r
<1>4. PICK u : /\ Chained(r) = u[n + 1] /\ u[0] = <<>>
               /\ \A k \in 0 .. (n + 1) - 1 : u[k + 1] = u[k] \o r[k + 1]
  <2>1. Len(r) \in Nat
    BY <1>1, <1>2
  <2>2. \E u : /\ Chained(r) = u[Len(r)] /\ u[0] = <<>>
               /\ \A k \in 0 .. Len(r) - 1 : u[k + 1] = u[k] \o r[k + 1]
    BY <2>1, ChainTurns
  <2> QED
    BY <1>2, <2>2
<1> HIDE DEF n
<1> DEFINE T == {k \in 0 .. n : u[k] # t[k]}
<1>5. T = {}
  <2> SUFFICES ASSUME T # {} PROVE FALSE
    OBVIOUS
  <2>1. T \subseteq Nat
    BY <1>1
  <2>2. PICK k \in T : \A j \in T : k <= j
    <3> HIDE DEF T
    <3> QED
      BY <2>1, LeastElement
  <2>3. k \in 0 .. n /\ u[k] # t[k] /\ k # 0
    BY <1>3, <1>4, <2>2
  <2>4. k - 1 \in 0 .. n - 1 /\ k - 1 \in 0 .. (n + 1) - 1 /\ k - 1 \in 0 .. n /\ ~(k <= k - 1)
        /\ (k - 1) + 1 = k /\ k \in 1 .. n
    BY <1>1, <2>3
  <2>5. u[k - 1] = t[k - 1]
    BY <2>2, <2>4
  <2>6. u[k] = u[k - 1] \o r[k] /\ t[k] = t[k - 1] \o segs[k] /\ r[k] = segs[k]
    BY <1>2, <1>3, <1>4, <2>4
  <2> QED
    BY <2>3, <2>5, <2>6
<1>6. u[n] = t[n]
  <2>1. n \in 0 .. n
    BY <1>1
  <2> QED
    BY <1>5, <2>1
<1>7. n \in 0 .. (n + 1) - 1
  BY <1>1
<1>8. u[n + 1] = u[n] \o r[n + 1]
  BY <1>4, <1>7
<1> QED
  BY <1>2, <1>3, <1>4, <1>6, <1>8 DEF r

(* Strings may be put together from either end. *)
LEMMA ThreeInARow ==
  ASSUME NEW a \in Seq(Byte), NEW b \in Seq(Byte), NEW c \in Seq(Byte)
  PROVE  (a \o b) \o c = a \o (b \o c)
BY ConcatAssociative

(* The first string in front of the others. *)
LEMMA ChainedFront ==
  ASSUME NEW segs \in Seq(Seq(Byte)), segs # <<>>
  PROVE  /\ Head(segs) \in Seq(Byte) /\ Tail(segs) \in Seq(Seq(Byte))
         /\ Len(Tail(segs)) = Len(segs) - 1
         /\ \A i \in 1 .. Len(segs) - 1 : Tail(segs)[i] = segs[i + 1]
         /\ Chained(segs) = Head(segs) \o Chained(Tail(segs))
<1> DEFINE n == Len(segs)
           h == Head(segs)
           r == Tail(segs)
<1>1. n \in Nat \ {0}
  BY EmptySeq
<1>2. /\ r \in Seq(Seq(Byte)) /\ Len(r) = n - 1 /\ h = segs[1]
      /\ \A i \in 1 .. n - 1 : r[i] = segs[i + 1]
  BY HeadTailProperties
<1>3. h \in Seq(Byte)
  BY HeadTailProperties
<1>4. PICK t : /\ Chained(segs) = t[n] /\ t[0] = <<>>
               /\ \A k \in 0 .. n - 1 : t[k + 1] = t[k] \o segs[k + 1]
  BY <1>1, ChainTurns
<1> HIDE DEF r, h
<1>5. PICK u : /\ Chained(r) = u[n - 1] /\ u[0] = <<>>
               /\ \A k \in 0 .. (n - 1) - 1 : u[k + 1] = u[k] \o r[k + 1]
  <2>1. Len(r) \in Nat
    BY <1>1, <1>2
  <2>2. \E u : /\ Chained(r) = u[Len(r)] /\ u[0] = <<>>
               /\ \A k \in 0 .. Len(r) - 1 : u[k + 1] = u[k] \o r[k + 1]
    BY <2>1, ChainTurns
  <2> QED
    BY <1>2, <2>2
<1>6. \A k \in 0 .. n - 1 : u[k] \in Seq(Byte)
  <2>1. \A k \in 0 .. Len(r) - 1 : u[k + 1] = u[k] \o r[k + 1]
    BY <1>2, <1>5
  <2>2. \A k \in 0 .. Len(r) : u[k] \in Seq(Byte)
    BY <1>2, <1>5, <2>1, ChainIsSequence
  <2> QED
    BY <1>2, <2>2
<1> HIDE DEF n
<1> DEFINE T == {k \in 0 .. n - 1 : t[k + 1] # h \o u[k]}
<1>7. T = {}
  <2> SUFFICES ASSUME T # {} PROVE FALSE
    OBVIOUS
  <2>1. T \subseteq Nat
    BY <1>1
  <2>2. PICK k \in T : \A j \in T : k <= j
    <3> HIDE DEF T
    <3> QED
      BY <2>1, LeastElement
  <2>3. k \in 0 .. n - 1 /\ t[k + 1] # h \o u[k]
    BY <2>2
  <2>4. k # 0
    <3>1. 0 \in 0 .. n - 1
      BY <1>1
    <3>2. t[0 + 1] = <<>> \o segs[0 + 1]
      BY <1>4, <3>1
    <3>3. 0 + 1 = 1 /\ <<>> \o h = h /\ h \o <<>> = h
      BY <1>3, ConcatEmptySeq
    <3> QED
      BY <1>2, <1>5, <2>3, <3>2, <3>3
  <2>5. k - 1 \in 0 .. n - 1 /\ k - 1 \in 0 .. (n - 1) - 1 /\ ~(k <= k - 1) /\ (k - 1) + 1 = k /\ k \in 1 .. n - 1
        /\ k + 1 \in 1 .. n
    BY <1>1, <2>3, <2>4
  <2>6. t[k] = h \o u[k - 1]
    <3>1. k - 1 \notin T
      BY <2>2, <2>5
    <3> QED
      BY <2>5, <3>1
  <2>7. u[k] = u[k - 1] \o r[k] /\ t[k + 1] = t[k] \o segs[k + 1] /\ r[k] = segs[k + 1]
    BY <1>2, <1>4, <1>5, <2>3, <2>5
  <2>8. u[k - 1] \in Seq(Byte) /\ segs[k + 1] \in Seq(Byte)
    <3>1. k + 1 \in 1 .. Len(segs)
      BY <2>5 DEF n
    <3> QED
      BY <1>6, <2>5, <3>1, ElementOfSeq
  <2>9. (h \o u[k - 1]) \o segs[k + 1] = h \o (u[k - 1] \o segs[k + 1])
    <3> DEFINE a == u[k - 1]
               b == segs[k + 1]
    <3>1. h \in Seq(Byte) /\ a \in Seq(Byte) /\ b \in Seq(Byte)
      BY <1>3, <2>8
    <3> HIDE DEF a, b
    <3>2. (h \o a) \o b = h \o (a \o b)
      BY ONLY <3>1, ThreeInARow, Zenon
    <3> QED
      BY <3>2 DEF a, b
  <2> QED
    BY <2>3, <2>6, <2>7, <2>9
<1>8. t[n] = h \o u[n - 1]
  <2>1. n - 1 \in 0 .. n - 1 /\ (n - 1) + 1 = n
    BY <1>1
  <2> QED
    BY <1>7, <2>1
<1> QED
  BY <1>2, <1>3, <1>4, <1>5, <1>8 DEF n, h, r

-----------------------------------------------------------------------------
(* The loop of pop(). *)

(* A deque of strings none of which is empty, and an offset within the     *)
(* first of them.                                                          *)
GoodDeque(segs, skip) ==
    /\ segs \in Seq(Seq(Byte)) /\ skip \in Nat
    /\ \A i \in 1 .. Len(segs) : segs[i] # <<>>
    /\ segs = <<>> => skip = 0
    /\ segs # <<>> => skip < Len(segs[1])

(* The bytes such a deque holds from the offset on. *)
Left(segs, skip) == Drop(Chained(segs), skip)

(* An empty deque holds nothing. *)
LEMMA LeftOfEmpty ==
  ASSUME NEW segs, NEW skip, GoodDeque(segs, skip), segs = <<>>
  PROVE  Left(segs, skip) = <<>> /\ Len(Left(segs, skip)) = 0 /\ Left(segs, skip) \in Seq(Byte)
<1>1. skip = 0 /\ Chained(segs) = <<>> /\ <<>> \in Seq(Byte)
  BY ChainedType, EmptySeq DEF GoodDeque
<1>2. Drop(<<>>, 0) = <<>>
  BY <1>1, DropNothing
<1>3. Left(segs, skip) = <<>>
  BY <1>1, <1>2 DEF Left
<1> QED
  BY <1>1, <1>3, EmptySeq

(* What peek() shows comes first, the strings behind it follow. *)
LEMMA LeftIsViewAndRest ==
  ASSUME NEW segs, NEW skip, GoodDeque(segs, skip), segs # <<>>
  PROVE  /\ Peek(segs, skip) \in Seq(Byte) /\ Chained(Tail(segs)) \in Seq(Byte)
         /\ Head(segs) \in Seq(Byte)
         /\ Len(Peek(segs, skip)) = Len(Head(segs)) - skip
         /\ Len(Peek(segs, skip)) \in Nat \ {0}
         /\ Left(segs, skip) = Peek(segs, skip) \o Chained(Tail(segs))
         /\ Left(segs, skip) \in Seq(Byte)
         /\ Len(Left(segs, skip)) = Len(Peek(segs, skip)) + Len(Chained(Tail(segs)))
         /\ GoodDeque(Tail(segs), 0)
         /\ Left(Tail(segs), 0) = Chained(Tail(segs))
<1> DEFINE h == Head(segs)
           r == Tail(segs)
           c == Chained(r)
           p == Peek(segs, skip)
<1>1. segs \in Seq(Seq(Byte)) /\ skip \in Nat /\ skip < Len(segs[1])
  BY DEF GoodDeque
<1>2. /\ h \in Seq(Byte) /\ r \in Seq(Seq(Byte)) /\ Len(r) = Len(segs) - 1
      /\ \A i \in 1 .. Len(segs) - 1 : r[i] = segs[i + 1]
      /\ Chained(segs) = h \o c
  BY <1>1, ChainedFront
<1>3. h = segs[1] /\ Len(segs) \in Nat
  BY <1>1, HeadTailProperties, LenProperties
<1>4. c \in Seq(Byte)
  BY <1>2, ChainedType
<1>5. p = Drop(h, skip)
  BY DEF Peek, Drop
<1> HIDE DEF h, r, c, p
<1>6. skip \in 0 .. Len(h) /\ Len(h) \in Nat
  <2>1. Len(h) \in Nat
    BY <1>2, LenProperties
  <2> QED
    BY <1>1, <1>3, <2>1
<1>7. p \in Seq(Byte) /\ Len(p) = Len(h) - skip
  BY <1>2, <1>5, <1>6, DropIs
<1>8. Len(p) \in Nat \ {0}
  BY <1>1, <1>3, <1>6, <1>7
<1>9. Left(segs, skip) = p \o c
  BY <1>2, <1>4, <1>5, <1>6, DropOfFirst DEF Left
<1>10. p \o c \in Seq(Byte) /\ Len(p \o c) = Len(p) + Len(c)
  BY <1>4, <1>7, ConcatProperties
<1>11. GoodDeque(r, 0)
  <2>1. ASSUME NEW i \in 1 .. Len(r) PROVE r[i] # <<>>
    <3>1. i \in 1 .. Len(segs) - 1 /\ i + 1 \in 1 .. Len(segs)
      BY <1>2, <1>3
    <3> QED
      BY <1>2, <3>1 DEF GoodDeque
  <2>2. r # <<>> => 0 < Len(r[1])
    <3> SUFFICES ASSUME r # <<>> PROVE 0 < Len(r[1])
      OBVIOUS
    <3>1. Len(r) \in Nat /\ Len(r) # 0
      BY <1>2, EmptySeq
    <3>2. 1 \in 1 .. Len(r)
      BY <3>1
    <3> DEFINE q == r[1]
    <3>3. q \in Seq(Byte) /\ q # <<>>
      BY <1>2, <2>1, <3>2, ElementOfSeq
    <3> HIDE DEF q
    <3>4. Len(q) \in Nat /\ Len(q) # 0
      BY <3>3, EmptySeq
    <3>5. 0 < Len(q)
      BY <3>4
    <3> QED
      BY <3>5 DEF q
  <2> QED
    BY <1>2, <2>1, <2>2 DEF GoodDeque
<1>12. Left(r, 0) = c
  BY <1>4, DropNothing DEF Left, c
<1> QED
  BY <1>2, <1>4, <1>7, <1>8, <1>9, <1>10, <1>11, <1>12 DEF h, r, c, p

(* What a deque holds is a string. *)
LEMMA LeftType ==
  ASSUME NEW segs, NEW skip, GoodDeque(segs, skip)
  PROVE  Left(segs, skip) \in Seq(Byte) /\ Len(Left(segs, skip)) \in Nat
<1>1. Left(segs, skip) \in Seq(Byte)
  BY LeftOfEmpty, LeftIsViewAndRest
<1> QED
  BY <1>1, LenProperties

(* The loop of pop() in the middle: d.len bytes are still to go. *)
Popping(d, left, bound) ==
    /\ d = [segments |-> d.segments, skip |-> d.skip, len |-> d.len]
    /\ GoodDeque(d.segments, d.skip)
    /\ d.len \in Nat /\ d.len <= Len(Left(d.segments, d.skip))
    /\ Drop(Left(d.segments, d.skip), d.len) = left
    /\ Len(d.segments) + d.len <= bound \/ d.len = 0

(* A turn leaves what will be left, and one string or some bytes less. *)
LEMMA PopTurnIs ==
  ASSUME NEW d, NEW left, NEW bound \in Nat, Popping(d, left, bound)
  PROVE  Popping(PopTurn(d), left, bound - 1)
<1> DEFINE segs == d.segments
           skip == d.skip
           len == d.len
           e == PopTurn(d)
<1>1. GoodDeque(segs, skip) /\ len \in Nat /\ len <= Len(Left(segs, skip))
      /\ Drop(Left(segs, skip), len) = left /\ segs \in Seq(Seq(Byte)) /\ skip \in Nat
  BY DEF Popping, GoodDeque
<1>2. CASE len = 0
  <2>1. e = d
    BY <1>2 DEF PopTurn
  <2> QED
    BY <1>2, <2>1 DEF Popping
<1>3. CASE len # 0
  <2>1. segs # <<>>
    <3> SUFFICES ASSUME segs = <<>> PROVE FALSE
      OBVIOUS
    <3>1. Len(Left(segs, skip)) = 0
      BY <1>1, LeftOfEmpty
    <3> QED
      BY <1>1, <1>3, <3>1
  <2> DEFINE p == Peek(segs, skip)
             c == Chained(Tail(segs))
             x == Left(segs, skip)
             rem == Len(Head(segs)) - skip
  <2>2. /\ p \in Seq(Byte) /\ c \in Seq(Byte) /\ Len(p) = rem /\ Len(p) \in Nat \ {0}
        /\ x = p \o c /\ x \in Seq(Byte) /\ Len(x) = Len(p) + Len(c)
        /\ GoodDeque(Tail(segs), 0) /\ Left(Tail(segs), 0) = c
    BY <1>1, <2>1, LeftIsViewAndRest
  <2>3. Len(segs) + len <= bound /\ Len(segs) \in Nat /\ Len(c) \in Nat
    BY <1>1, <1>3, <2>2, LenProperties DEF Popping
  <2>4. e = IF len >= rem
            THEN [segments |-> Tail(segs), skip |-> 0, len |-> len - rem]
            ELSE [segments |-> segs, skip |-> skip + len, len |-> 0]
    BY <1>3 DEF PopTurn
  <2>5. CASE len >= rem
    <3>1. e = [segments |-> Tail(segs), skip |-> 0, len |-> len - rem]
      BY <2>4, <2>5
    <3>2. Len(Tail(segs)) = Len(segs) - 1
      BY <1>1, <2>1, HeadTailProperties
    <3> HIDE DEF segs, skip, len, p, c, x, rem
    <3>3. len - rem \in Nat /\ len - rem <= Len(c) /\ len \in Len(p) .. Len(p) + Len(c)
      BY <1>1, <2>2, <2>3, <2>5 DEF x
    <3>4. Drop(p \o c, len) = Drop(c, len - Len(p))
      BY <2>2, <3>3, DropOfBoth
    <3>5. Drop(c, len - rem) = left
      BY <1>1, <2>2, <3>4 DEF x
    <3>6. (Len(segs) - 1) + (len - rem) <= bound - 1
      BY <1>1, <2>2, <2>3
    <3> HIDE DEF e
    <3>7. /\ e = [segments |-> e.segments, skip |-> e.skip, len |-> e.len]
          /\ e.segments = Tail(segs) /\ e.skip = 0 /\ e.len = len - rem
      BY <3>1
    <3>8. Len(e.segments) + e.len <= bound - 1
      BY <3>2, <3>6, <3>7
    <3>9. e.len \in Nat /\ e.len <= Len(Left(e.segments, e.skip)) /\ GoodDeque(e.segments, e.skip)
          /\ Drop(Left(e.segments, e.skip), e.len) = left
      BY <2>2, <3>3, <3>5, <3>7
    <3>10. Popping(e, left, bound - 1)
      BY ONLY <3>7, <3>8, <3>9 DEF Popping
    <3> QED
      BY <3>10 DEF e
  <2>6. CASE ~(len >= rem)
    <3>1. e = [segments |-> segs, skip |-> skip + len, len |-> 0]
      BY <2>4, <2>6
    <3>2. Chained(segs) \in Seq(Byte) /\ skip < Len(segs[1]) /\ Head(segs) = segs[1]
          /\ Head(segs) \in Seq(Byte) /\ Chained(segs) = Head(segs) \o c
      <4>1. Chained(segs) \in Seq(Byte)
        BY <1>1, ChainedType
      <4>2. Head(segs) \in Seq(Byte) /\ Chained(segs) = Head(segs) \o c
        BY <1>1, <2>1, ChainedFront
      <4>3. Head(segs) = segs[1]
        BY <1>1, <2>1, HeadTailProperties
      <4>4. skip < Len(segs[1])
        BY <1>1, <2>1 DEF GoodDeque
      <4> QED
        BY <4>1, <4>2, <4>3, <4>4
    <3>3. Len(Head(segs)) \in Nat /\ Len(Chained(segs)) = Len(Head(segs)) + Len(c)
      BY <2>2, <3>2, LenProperties, ConcatProperties
    <3> HIDE DEF segs, skip, len, p, c, x, rem
    <3>4. skip + len \in Nat /\ skip + len < Len(Head(segs)) /\ skip + len <= Len(Chained(segs))
      BY <1>1, <2>3, <2>6, <3>2, <3>3 DEF rem
    <3>5. GoodDeque(segs, skip + len)
      BY <1>1, <2>1, <3>2, <3>4 DEF GoodDeque
    <3>6. Left(segs, skip + len) = left
      <4>1. Drop(Drop(Chained(segs), skip), len) = Drop(Chained(segs), skip + len)
        BY <1>1, <3>2, <3>4, DropTwice
      <4> QED
        BY <1>1, <4>1 DEF Left
    <3>7. Left(segs, skip + len) \in Seq(Byte) /\ Len(Left(segs, skip + len)) \in Nat
      BY <3>5, LeftType
    <3>8. Drop(left, 0) = left /\ 0 <= Len(left)
      BY <3>6, <3>7, DropNothing
    <3> HIDE DEF e
    <3>9. /\ e = [segments |-> e.segments, skip |-> e.skip, len |-> e.len]
          /\ e.segments = segs /\ e.skip = skip + len /\ e.len = 0
      BY <3>1
    <3>10. e.len \in Nat /\ e.len <= Len(Left(e.segments, e.skip)) /\ GoodDeque(e.segments, e.skip)
          /\ Drop(Left(e.segments, e.skip), e.len) = left
      BY <3>5, <3>6, <3>8, <3>9
    <3>11. Popping(e, left, bound - 1)
      BY ONLY <3>9, <3>10 DEF Popping
    <3> QED
      BY <3>11 DEF e
  <2> QED
    BY <2>5, <2>6
<1> QED
  BY <1>2, <1>3

(* Popping len bytes leaves what follows them. *)
LEMMA PopIs ==
  ASSUME NEW segs, NEW skip, GoodDeque(segs, skip),
         NEW len \in Nat, len <= Len(Left(segs, skip))
  PROVE  /\ GoodDeque(PopLoop(segs, skip, len).segments, PopLoop(segs, skip, len).skip)
         /\ Left(PopLoop(segs, skip, len).segments, PopLoop(segs, skip, len).skip)
              = Drop(Left(segs, skip), len)
<1> DEFINE L == Len(segs) + len
           left == Drop(Left(segs, skip), len)
<1>1. L \in Nat
  BY LenProperties DEF GoodDeque
<1>2. PICK t : /\ PopLoop(segs, skip, len) = t[L]
               /\ t[0] = [segments |-> segs, skip |-> skip, len |-> len]
               /\ \A k \in 0 .. L - 1 : t[k + 1] = PopTurn(t[k])
  BY <1>1, PopTurns
<1>3. Popping(t[0], left, L - 0)
  <2>1. Len(segs) + len <= L - 0
    BY <1>1
  <2> QED
    BY <1>2, <2>1 DEF Popping
<1> HIDE DEF L, left
<1> DEFINE T == {k \in 0 .. L : ~Popping(t[k], left, L - k)}
<1>4. T = {}
  <2> SUFFICES ASSUME T # {} PROVE FALSE
    OBVIOUS
  <2>1. T \subseteq Nat
    BY <1>1
  <2>2. PICK k \in T : \A j \in T : k <= j
    <3> HIDE DEF T
    <3> QED
      BY <2>1, LeastElement
  <2>3. k \in 0 .. L /\ ~Popping(t[k], left, L - k) /\ k # 0
    BY <1>3, <2>2
  <2>4. k - 1 \in 0 .. L /\ k - 1 \in 0 .. L - 1 /\ ~(k <= k - 1) /\ (k - 1) + 1 = k
        /\ L - (k - 1) \in Nat /\ (L - (k - 1)) - 1 = L - k
    BY <1>1, <2>3
  <2>5. Popping(t[k - 1], left, L - (k - 1))
    <3>1. k - 1 \notin T
      BY <2>2, <2>4
    <3> QED
      BY <2>4, <3>1
  <2>6. t[k] = PopTurn(t[k - 1])
    BY <1>2, <2>4
  <2>7. Popping(PopTurn(t[k - 1]), left, (L - (k - 1)) - 1)
    BY <2>4, <2>5, PopTurnIs
  <2> QED
    BY <2>3, <2>4, <2>6, <2>7
<1>5. Popping(t[L], left, L - L)
  <2>1. L \in 0 .. L
    BY <1>1
  <2> QED
    BY <1>4, <2>1
<1> DEFINE d == t[L]
<1>6. Popping(d, left, 0)
  <2>1. L - L = 0
    BY <1>1
  <2> QED
    BY <1>5, <2>1
<1> HIDE DEF d
<1>7. GoodDeque(d.segments, d.skip) /\ d.len = 0
  <2>1. d.segments \in Seq(Seq(Byte)) /\ d.len \in Nat
    BY <1>6 DEF Popping, GoodDeque
  <2>2. Len(d.segments) \in Nat
    BY <2>1, LenProperties
  <2> QED
    BY <1>6, <2>1, <2>2 DEF Popping
<1>8. Left(d.segments, d.skip) = left
  <2>1. Left(d.segments, d.skip) \in Seq(Byte)
    BY <1>7, LeftType
  <2>2. Drop(Left(d.segments, d.skip), 0) = Left(d.segments, d.skip)
    BY <2>1, DropNothing
  <2> QED
    BY <1>6, <1>7, <2>2 DEF Popping
<1> QED
  BY <1>2, <1>7, <1>8 DEF d, left

-----------------------------------------------------------------------------
(* The loop of read(). *)

(* The loop in the middle: with the d.len bytes that are still to come,    *)
(* what was collected is `all'.                                            *)
Reading(d, all, bound) ==
    /\ GoodDeque(d.segments, d.skip)
    /\ d.out \in Seq(Byte)
    /\ d.len \in Nat /\ d.len <= Len(Left(d.segments, d.skip))
    /\ d.out \o First(Left(d.segments, d.skip), d.len) = all
    /\ d.len <= bound \/ d.len = 0

(* A turn collects what peek() shows, as far as it is asked for. *)
LEMMA ReadTurnIs ==
  ASSUME NEW d, NEW all, NEW bound \in Nat, Reading(d, all, bound)
  PROVE  Reading(ReadTurn(d), all, bound - 1)
<1> DEFINE segs == d.segments
           skip == d.skip
           len == d.len
           e == ReadTurn(d)
<1>1. GoodDeque(segs, skip) /\ len \in Nat /\ len <= Len(Left(segs, skip))
      /\ d.out \o First(Left(segs, skip), len) = all /\ d.out \in Seq(Byte)
  BY DEF Reading
<1>2. CASE len = 0
  <2>1. e = d
    BY <1>2 DEF ReadTurn
  <2> QED
    BY <1>2, <2>1 DEF Reading
<1>3. CASE len # 0
  <2>1. segs # <<>>
    <3> SUFFICES ASSUME segs = <<>> PROVE FALSE
      OBVIOUS
    <3>1. Len(Left(segs, skip)) = 0
      BY <1>1, LeftOfEmpty
    <3> QED
      BY <1>1, <1>3, <3>1
  <2> DEFINE view == Peek(segs, skip)
             c == Chained(Tail(segs))
             x == Left(segs, skip)
             part == IF Len(view) > len THEN SubSeq(view, 1, len) ELSE view
             p == Len(part)
             rest == PopLoop(segs, skip, p)
             y == Left(rest.segments, rest.skip)
  <2>2. /\ view \in Seq(Byte) /\ c \in Seq(Byte) /\ Len(view) \in Nat \ {0}
        /\ x = view \o c /\ x \in Seq(Byte) /\ Len(x) = Len(view) + Len(c)
    BY <1>1, <2>1, LeftIsViewAndRest
  <2>3. e = [segments |-> rest.segments, skip |-> rest.skip, len |-> len - p, out |-> d.out \o part]
    BY <1>3 DEF ReadTurn
  <2>4. Len(c) \in Nat
    BY <2>2, LenProperties
  <2> HIDE DEF view, c, x, rest
  <2>5. p \in Nat \ {0} /\ p <= len /\ p <= Len(view) /\ part = First(view, p) /\ part \in Seq(Byte)
    <3>1. CASE Len(view) > len
      <4>1. len \in 0 .. Len(view)
        BY <1>1, <2>2, <3>1
      <4>2. part = First(view, len)
        BY <3>1 DEF First
      <4>3. First(view, len) \in Seq(Byte) /\ Len(First(view, len)) = len
        BY <2>2, <4>1, FirstIs
      <4>4. p = len
        BY <4>2, <4>3
      <4> HIDE DEF part, p
      <4> QED
        BY <1>1, <1>3, <2>2, <4>1, <4>2, <4>3, <4>4
    <3>2. CASE ~(Len(view) > len)
      <4>1. part = view /\ p = Len(view)
        BY <3>2
      <4>2. First(view, Len(view)) = view
        <5>1. Len(view) \in 0 .. Len(view)
          BY <2>2
        <5> DEFINE f == First(view, Len(view))
        <5>2. f \in Seq(Byte) /\ Len(f) = Len(view) /\ \A i \in 1 .. Len(view) : f[i] = view[i]
          BY <2>2, <5>1, FirstIs
        <5> HIDE DEF f
        <5>3. f = view
          BY <2>2, <5>2, SeqEqual
        <5> QED
          BY <5>3 DEF f
      <4> HIDE DEF part, p, len
      <4> QED
        BY <1>1, <2>2, <3>2, <4>1, <4>2
    <3> QED
      BY <3>1, <3>2
  <2> HIDE DEF part, p
  <2>6. p \in Nat /\ p <= len /\ p <= Len(x) /\ p \in 0 .. Len(view)
    BY <1>1, <2>2, <2>4, <2>5
  <2>7. GoodDeque(rest.segments, rest.skip) /\ y = Drop(x, p)
    <3>1. p <= Len(Left(segs, skip))
      BY <2>6 DEF x
    <3> QED
      BY <1>1, <2>6, <3>1, PopIs DEF rest, x
  <2> HIDE DEF y
  <2>8. part = First(x, p)
    BY <2>2, <2>5, <2>6, FirstOfFirst
  <2>9. First(x, p) \o First(y, len - p) = First(x, len)
    <3>1. len - p \in Nat /\ p + (len - p) = len /\ p + (len - p) <= Len(x)
      BY <1>1, <2>6 DEF x
    <3>2. First(x, p) \o First(Drop(x, p), len - p) = First(x, p + (len - p))
      BY <2>2, <2>6, <3>1, FirstOfRest
    <3> QED
      BY <2>7, <3>1, <3>2
  <2>10. y \in Seq(Byte) /\ Len(y) = Len(x) - p
    <3>1. p \in 0 .. Len(x)
      BY <2>2, <2>4, <2>6
    <3> QED
      BY <2>2, <2>7, <3>1, DropIs
  <2>11. len - p \in Nat /\ len - p <= Len(y) /\ (len <= bound => len - p <= bound - 1)
    BY <1>1, <2>2, <2>4, <2>5, <2>6, <2>10 DEF x
  <2>12. First(y, len - p) \in Seq(Byte)
    <3>1. len - p \in 0 .. Len(y)
      BY <2>10, <2>11, LenProperties
    <3> QED
      BY <2>10, <3>1, FirstIs
  <2>13. (d.out \o part) \o First(y, len - p) = all
    <3> DEFINE a == d.out
               b == First(y, len - p)
    <3>1. a \in Seq(Byte) /\ b \in Seq(Byte) /\ a \o First(x, len) = all
      BY <1>1, <2>12 DEF x
    <3>2. part \o b = First(x, len)
      BY <2>8, <2>9
    <3> HIDE DEF a, b
    <3>3. (a \o part) \o b = a \o (part \o b)
      <4>1. part \in Seq(Byte)
        BY <2>5
      <4> QED
        BY ONLY <3>1, <4>1, ThreeInARow, Zenon
    <3> QED
      BY <3>1, <3>2, <3>3 DEF a, b
  <2>14. d.out \o part \in Seq(Byte)
    BY <1>1, <2>5, ConcatProperties
  <2>15. len <= bound
    BY <1>3 DEF Reading
  <2> HIDE DEF e, len
  <2>16. /\ e.segments = rest.segments /\ e.skip = rest.skip /\ e.len = len - p /\ e.out = d.out \o part
    BY <2>3
  <2>17. /\ GoodDeque(e.segments, e.skip) /\ e.out \in Seq(Byte)
         /\ e.len \in Nat /\ e.len <= Len(Left(e.segments, e.skip)) /\ e.len <= bound - 1
         /\ e.out \o First(Left(e.segments, e.skip), e.len) = all
    BY <2>7, <2>11, <2>13, <2>14, <2>15, <2>16 DEF y
  <2>18. Reading(e, all, bound - 1)
    BY ONLY <2>17 DEF Reading
  <2> QED
    BY <2>18 DEF e
<1> QED
  BY <1>2, <1>3

(* Reading len bytes collects the first of what is left. *)
LEMMA ReadIs ==
  ASSUME NEW segs, NEW skip, GoodDeque(segs, skip),
         NEW len \in Nat, len <= Len(Left(segs, skip))
  PROVE  ReadLoop(segs, skip, len) = First(Left(segs, skip), len)
<1> DEFINE all == First(Left(segs, skip), len)
<1>1. PICK t : /\ ReadLoop(segs, skip, len) = t[len].out
               /\ t[0] = [segments |-> segs, skip |-> skip, len |-> len, out |-> <<>>]
               /\ \A k \in 0 .. len - 1 : t[k + 1] = ReadTurn(t[k])
  BY ReadTurns
<1>2. all \in Seq(Byte)
  <2>1. Left(segs, skip) \in Seq(Byte) /\ Len(Left(segs, skip)) \in Nat
    BY LeftType
  <2>2. len \in 0 .. Len(Left(segs, skip))
    BY <2>1
  <2> QED
    BY <2>1, <2>2, FirstIs
<1>3. Reading(t[0], all, len - 0)
  <2>1. <<>> \in Seq(Byte) /\ <<>> \o all = all
    BY <1>2, EmptySeq, ConcatEmptySeq
  <2>2. len <= len - 0
    OBVIOUS
  <2> QED
    BY <1>1, <2>1, <2>2 DEF Reading
<1> HIDE DEF all
<1> DEFINE T == {k \in 0 .. len : ~Reading(t[k], all, len - k)}
<1>4. T = {}
  <2> SUFFICES ASSUME T # {} PROVE FALSE
    OBVIOUS
  <2>1. T \subseteq Nat
    OBVIOUS
  <2>2. PICK k \in T : \A j \in T : k <= j
    <3> HIDE DEF T
    <3> QED
      BY <2>1, LeastElement
  <2>3. k \in 0 .. len /\ ~Reading(t[k], all, len - k) /\ k # 0
    BY <1>3, <2>2
  <2>4. k - 1 \in 0 .. len /\ k - 1 \in 0 .. len - 1 /\ ~(k <= k - 1) /\ (k - 1) + 1 = k
        /\ len - (k - 1) \in Nat /\ (len - (k - 1)) - 1 = len - k
    BY <2>3
  <2>5. Reading(t[k - 1], all, len - (k - 1))
    <3>1. k - 1 \notin T
      BY <2>2, <2>4
    <3> QED
      BY <2>4, <3>1
  <2>6. t[k] = ReadTurn(t[k - 1])
    BY <1>1, <2>4
  <2>7. Reading(ReadTurn(t[k - 1]), all, (len - (k - 1)) - 1)
    BY <2>4, <2>5, ReadTurnIs
  <2> QED
    BY <2>3, <2>4, <2>6, <2>7
<1>5. Reading(t[len], all, len - len)
  <2>1. len \in 0 .. len
    OBVIOUS
  <2> QED
    BY <1>4, <2>1
<1> DEFINE d == t[len]
<1>6. Reading(d, all, 0)
  <2>1. len - len = 0
    OBVIOUS
  <2> QED
    BY <1>5, <2>1
<1> HIDE DEF d
<1>7. d.len = 0 /\ d.out \in Seq(Byte) /\ Left(d.segments, d.skip) \in Seq(Byte)
      /\ d.out \o First(Left(d.segments, d.skip), d.len) = all
  <2>1. d.len = 0 /\ GoodDeque(d.segments, d.skip)
    BY <1>6 DEF Reading
  <2> QED
    BY <1>6, <2>1, LeftType DEF Reading
<1> DEFINE y == Left(d.segments, d.skip)
<1>8. First(y, 0) = <<>>
  <2> HIDE DEF y
  <2>1. y \in Seq(Byte) /\ Len(y) \in Nat
    BY <1>7, LenProperties DEF y
  <2>2. 0 \in 0 .. Len(y)
    BY <2>1
  <2> DEFINE f == First(y, 0)
  <2>3. f \in Seq(Byte) /\ Len(f) = 0
    BY <2>1, <2>2, FirstIs
  <2> HIDE DEF f
  <2>4. f = <<>>
    BY <2>3, EmptySeq
  <2> QED
    BY <2>4 DEF f
<1>9. d.out \o <<>> = d.out
  BY <1>7, ConcatEmptySeq
<1> QED
  BY <1>1, <1>7, <1>8, <1>9 DEF d, all

-----------------------------------------------------------------------------
(* The deque, the offset and the counters. *)

(* The counters tell how much the deque holds, and the reader was handed   *)
(* as much as was popped.                                                  *)
DequeInv ==
    /\ GoodDeque(segments_, skip_in_front_)
    /\ bytes_popped_ \in Nat /\ consumed \in Seq(Byte) /\ Len(consumed) = bytes_popped_
    /\ bytes_pushed_ \in Nat
    /\ bytes_pushed_ - bytes_popped_ = Len(Buffered)
    /\ Len(Buffered) <= Capacity
    /\ error_ \in BOOLEAN /\ closed_ \in BOOLEAN

(* Buffered is what the deque of the state holds. *)
LEMMA BufferedIsLeft ==
  Buffered = Left(segments_, skip_in_front_) /\ Buffered' = Left(segments_', skip_in_front_')
BY DEF Buffered, Left, Drop

(* What is pushed is a string. *)
LEMMA ChunkIsSeq ==
  ASSUME NEW data \in Chunk
  PROVE  data \in Seq(Byte)
<1>1. PICK k \in 0 .. MaxPush : data \in [1 .. k -> Byte]
  BY DEF Chunk
<1>2. k \in Nat
  BY CapacityAssumption
<1> QED
  BY <1>1, <1>2, SeqDef

(* What a push() of a string to a buffer that is not full chains. *)
Fitting(data) ==
    IF Len(data) > AvailableCapacity THEN First(data, AvailableCapacity) ELSE data

(* It is not empty, and there is room for it. *)
LEMMA FittingIs ==
  ASSUME DequeInv, NEW data \in Seq(Byte), data # <<>>, AvailableCapacity # 0
  PROVE  /\ Fitting(data) \in Seq(Byte) /\ Len(Fitting(data)) \in Nat \ {0}
         /\ Len(Fitting(data)) <= AvailableCapacity /\ AvailableCapacity \in Nat
<1> DEFINE a == AvailableCapacity
<1>1. a \in Nat /\ a # 0
  <2>1. Len(Buffered) \in Nat /\ Len(Buffered) <= Capacity /\ Capacity \in Nat
        /\ bytes_pushed_ - bytes_popped_ = Len(Buffered)
    BY CapacityAssumption, LeftType, BufferedIsLeft DEF DequeInv
  <2> QED
    BY <2>1 DEF AvailableCapacity
<1>2. Len(data) \in Nat /\ Len(data) # 0
  BY EmptySeq
<1> HIDE DEF a
<1>3. CASE Len(data) > a
  <2>1. a \in 0 .. Len(data)
    BY <1>1, <1>2, <1>3
  <2>2. First(data, a) \in Seq(Byte) /\ Len(First(data, a)) = a
    BY <2>1, FirstIs
  <2>3. Fitting(data) = First(data, a)
    BY <1>3 DEF Fitting, a
  <2> QED
    BY <1>1, <2>2, <2>3 DEF a
<1>4. CASE ~(Len(data) > a)
  <2>1. Fitting(data) = data
    BY <1>4 DEF Fitting, a
  <2>2. Len(data) <= a /\ Len(data) \in Nat \ {0}
    BY <1>1, <1>2, <1>4
  <2> QED
    BY <1>1, <2>1, <2>2 DEF a
<1> QED
  BY <1>3, <1>4

(* One more string behind the others. *)
LEMMA LeftAppend ==
  ASSUME NEW segs, NEW skip, GoodDeque(segs, skip),
         NEW f \in Seq(Byte), Len(f) \in Nat \ {0}
  PROVE  /\ GoodDeque(Append(segs, f), skip)
         /\ Left(Append(segs, f), skip) = Left(segs, skip) \o f
<1> DEFINE r == Append(segs, f)
           n == Len(segs)
           c == Chained(segs)
<1>1. segs \in Seq(Seq(Byte)) /\ skip \in Nat /\ n \in Nat
  BY LenProperties DEF GoodDeque
<1>2. r \in Seq(Seq(Byte)) /\ Len(r) = n + 1 /\ (\A i \in 1 .. n : r[i] = segs[i]) /\ r[n + 1] = f
  BY <1>1, AppendProperties
<1>3. Chained(r) = c \o f
  BY <1>1, ChainedAppend
<1>4. c \in Seq(Byte) /\ Len(c) \in Nat
  BY <1>1, ChainedType, LenProperties
<1>5. f # <<>>
  BY EmptySeq
<1>6. segs = <<>> <=> n = 0
  BY <1>1, EmptySeq
<1>7. skip \in 0 .. Len(c)
  <2>1. CASE segs = <<>>
    BY <1>4, <2>1 DEF GoodDeque
  <2>2. CASE segs # <<>>
    <3>1. /\ Head(segs) \in Seq(Byte) /\ Tail(segs) \in Seq(Seq(Byte))
          /\ c = Head(segs) \o Chained(Tail(segs))
      BY <1>1, <2>2, ChainedFront
    <3>2. Chained(Tail(segs)) \in Seq(Byte)
      BY <3>1, ChainedType
    <3>3. Len(Head(segs)) \in Nat /\ Len(Chained(Tail(segs))) \in Nat
          /\ Len(c) = Len(Head(segs)) + Len(Chained(Tail(segs)))
      BY <3>1, <3>2, ConcatProperties, LenProperties
    <3>4. Head(segs) = segs[1] /\ skip < Len(segs[1])
      BY <1>1, <2>2, HeadTailProperties DEF GoodDeque
    <3> QED
      BY <1>1, <3>3, <3>4
  <2> QED
    BY <2>1, <2>2
<1> HIDE DEF r, n, c
<1>8. Drop(c \o f, skip) = Drop(c, skip) \o f
  BY <1>4, <1>7, DropOfFirst
<1>9. Left(r, skip) = Left(segs, skip) \o f
  BY <1>3, <1>8 DEF Left, c
<1>10. GoodDeque(r, skip)
  <2>1. ASSUME NEW i \in 1 .. Len(r) PROVE r[i] # <<>>
    <3>1. CASE i \in 1 .. n
      BY <1>2, <3>1 DEF GoodDeque, n
    <3>2. CASE i \notin 1 .. n
      <4>1. i = n + 1
        BY <1>1, <1>2, <3>2
      <4> QED
        BY <1>2, <1>5, <4>1
    <3> QED
      BY <3>1, <3>2
  <2>2. r # <<>> /\ skip < Len(r[1])
    <3>1. r # <<>>
      <4>1. Len(r) # 0
        BY <1>1, <1>2
      <4> QED
        BY <1>2, <4>1, EmptySeq
    <3>2. CASE n = 0
      <4>1. skip = 0 /\ r[1] = f
        BY <1>2, <1>6, <3>2 DEF GoodDeque
      <4> QED
        BY <3>1, <4>1
    <3>3. CASE n # 0
      <4>1. 1 \in 1 .. n
        BY <1>1, <3>3
      <4>2. r[1] = segs[1] /\ skip < Len(segs[1])
        BY <1>2, <1>6, <3>3, <4>1 DEF GoodDeque
      <4> QED
        BY <3>1, <4>2
    <3> QED
      BY <3>2, <3>3
  <2> QED
    BY <1>1, <1>2, <2>1, <2>2 DEF GoodDeque
<1> QED
  BY <1>9, <1>10 DEF r

(* The empty deque of the start. *)
LEMMA DequeInit ==
  Init => DequeInv
<1> SUFFICES ASSUME Init PROVE DequeInv
  OBVIOUS
<1>1. <<>> \in Seq(Byte) /\ <<>> \in Seq(Seq(Byte)) /\ Len(<<>>) = 0
  BY EmptySeq
<1>2. segments_ = <<>> /\ skip_in_front_ = 0 /\ consumed = <<>>
      /\ bytes_pushed_ = 0 /\ bytes_popped_ = 0 /\ error_ = FALSE /\ closed_ = FALSE
  BY DEF Init
<1>3. GoodDeque(segments_, skip_in_front_)
  BY <1>1, <1>2 DEF GoodDeque
<1>4. Len(Buffered) = 0
  BY <1>2, <1>3, LeftOfEmpty, BufferedIsLeft
<1> QED
  <2>1. error_ \in BOOLEAN /\ closed_ \in BOOLEAN
    BY <1>2
  <2>2. /\ bytes_popped_ \in Nat /\ consumed \in Seq(Byte) /\ Len(consumed) = bytes_popped_
        /\ bytes_pushed_ \in Nat
    BY <1>1, <1>2
  <2>3. bytes_pushed_ - bytes_popped_ = Len(Buffered) /\ Len(Buffered) <= Capacity
    BY <1>2, <1>4, CapacityAssumption
  <2> QED
    BY <1>3, <2>1, <2>2, <2>3 DEF DequeInv

(* push() of a string that is chained, and one that is not. *)
LEMMA PushIs ==
  ASSUME DequeInv, NEW data \in Chunk, Push(data)
  PROVE  \/ UNCHANGED vars /\ (data = <<>> \/ AvailableCapacity = 0)
         \/ /\ data # <<>> /\ AvailableCapacity # 0
            /\ segments_' = Append(segments_, Fitting(data))
            /\ bytes_pushed_' = bytes_pushed_ + Len(Fitting(data))
            /\ UNCHANGED <<skip_in_front_, bytes_popped_, error_, closed_, consumed>>
BY DEF Push, WriterPush, vars, Fitting, First

(* pop() of k bytes: the first k that are buffered are handed out. *)
LEMMA PopStepIs ==
  ASSUME DequeInv, NEW len \in 0 .. Capacity + 1, Pop(len)
  PROVE  \E k \in 0 .. Len(Buffered) :
            /\ k = IF len < BytesBuffered THEN len ELSE BytesBuffered
            /\ GoodDeque(segments_', skip_in_front_')
            /\ Buffered' = Drop(Buffered, k)
            /\ consumed' = consumed \o First(Buffered, k)
            /\ bytes_popped_' = bytes_popped_ + k
            /\ UNCHANGED <<bytes_pushed_, error_, closed_>>
<1> DEFINE k == IF len < BytesBuffered THEN len ELSE BytesBuffered
           n == Len(Buffered)
           left == PopLoop(segments_, skip_in_front_, k)
<1>1. GoodDeque(segments_, skip_in_front_) /\ n \in Nat /\ BytesBuffered = n
  BY LeftType, BufferedIsLeft DEF DequeInv, BytesBuffered
<1>2. k \in 0 .. n /\ k \in Nat /\ k <= n
  BY <1>1, CapacityAssumption
<1>3. /\ bytes_popped_' = bytes_popped_ + k
      /\ segments_' = left.segments /\ skip_in_front_' = left.skip
      /\ consumed' = consumed \o ReadLoop(segments_, skip_in_front_, k)
      /\ UNCHANGED <<bytes_pushed_, error_, closed_>>
  BY DEF Pop
<1> HIDE DEF k
<1>4. k <= Len(Left(segments_, skip_in_front_))
  BY <1>2, BufferedIsLeft
<1>5. /\ GoodDeque(left.segments, left.skip)
      /\ Left(left.segments, left.skip) = Drop(Left(segments_, skip_in_front_), k)
  BY <1>1, <1>2, <1>4, PopIs
<1>6. ReadLoop(segments_, skip_in_front_, k) = First(Left(segments_, skip_in_front_), k)
  BY <1>1, <1>2, <1>4, ReadIs
<1> HIDE DEF left
<1>7. /\ GoodDeque(segments_', skip_in_front_') /\ Buffered' = Drop(Buffered, k)
      /\ consumed' = consumed \o First(Buffered, k)
  BY <1>3, <1>5, <1>6, BufferedIsLeft
<1> QED
  BY <1>2, <1>3, <1>7 DEF k

(* No call breaks the invariant. *)
LEMMA DequeStep ==
  DequeInv /\ [Next]_vars => DequeInv'
<1> SUFFICES ASSUME DequeInv, [Next]_vars PROVE DequeInv'
  OBVIOUS
<1> DEFINE n == Len(Buffered)
<1>0. /\ n \in Nat /\ n <= Capacity /\ Capacity \in Nat /\ bytes_pushed_ \in Nat /\ bytes_popped_ \in Nat
      /\ bytes_pushed_ - bytes_popped_ = n /\ Buffered \in Seq(Byte) /\ consumed \in Seq(Byte)
      /\ GoodDeque(segments_, skip_in_front_) /\ Len(consumed) = bytes_popped_
  BY LeftType, BufferedIsLeft, CapacityAssumption DEF DequeInv
<1>1. CASE UNCHANGED vars
  BY <1>1 DEF vars, DequeInv, Buffered
<1>2. ASSUME NEW data \in Chunk, Push(data) PROVE DequeInv'
  <2>1. CASE UNCHANGED vars
    BY <2>1, <1>1
  <2>2. CASE ~UNCHANGED vars
    <3> DEFINE f == Fitting(data)
    <3>1. /\ data # <<>> /\ AvailableCapacity # 0
          /\ segments_' = Append(segments_, f)
          /\ bytes_pushed_' = bytes_pushed_ + Len(f)
          /\ UNCHANGED <<skip_in_front_, bytes_popped_, error_, closed_, consumed>>
      BY <1>2, <2>2, PushIs
    <3>2. data \in Seq(Byte)
      BY <1>2, ChunkIsSeq
    <3>3. f \in Seq(Byte) /\ Len(f) \in Nat \ {0} /\ Len(f) <= AvailableCapacity
      BY <3>1, <3>2, FittingIs
    <3> HIDE DEF f
    <3>4. /\ GoodDeque(segments_', skip_in_front_') /\ Buffered' = Buffered \o f
      BY <1>0, <3>1, <3>3, LeftAppend, BufferedIsLeft
    <3>5. Len(Buffered') = n + Len(f)
      BY <1>0, <3>3, <3>4, ConcatProperties
    <3>6. n + Len(f) <= Capacity
      BY <1>0, <3>3 DEF AvailableCapacity
    <3>7. bytes_pushed_' \in Nat /\ bytes_pushed_' - bytes_popped_' = n + Len(f)
      BY <1>0, <3>1, <3>3
    <3> QED
      BY <1>0, <3>1, <3>4, <3>5, <3>6, <3>7 DEF DequeInv
  <2> QED
    BY <2>1, <2>2
<1>3. CASE Close
  BY <1>3 DEF Close, DequeInv, Buffered
<1>4. CASE Fail
  BY <1>4 DEF Fail, DequeInv, Buffered
<1>5. ASSUME NEW len \in 0 .. Capacity + 1, Pop(len) PROVE DequeInv'
  <2>1. PICK k \in 0 .. n :
            /\ GoodDeque(segments_', skip_in_front_')
            /\ Buffered' = Drop(Buffered, k)
            /\ consumed' = consumed \o First(Buffered, k)
            /\ bytes_popped_' = bytes_popped_ + k
            /\ UNCHANGED <<bytes_pushed_, error_, closed_>>
    BY <1>5, PopStepIs
  <2>2. Len(Drop(Buffered, k)) = n - k /\ First(Buffered, k) \in Seq(Byte) /\ Len(First(Buffered, k)) = k
    BY <1>0, DropIs, FirstIs
  <2>3. consumed' \in Seq(Byte) /\ Len(consumed') = bytes_popped_ + k
    <3> DEFINE g == First(Buffered, k)
    <3>1. g \in Seq(Byte) /\ Len(g) = k /\ consumed' = consumed \o g
      BY <2>1, <2>2
    <3> HIDE DEF g
    <3>2. consumed \o g \in Seq(Byte) /\ Len(consumed \o g) = Len(consumed) + Len(g)
      BY <1>0, <3>1, ConcatProperties
    <3> QED
      BY <1>0, <3>1, <3>2
  <2>4. bytes_popped_ + k \in Nat /\ bytes_pushed_ - (bytes_popped_ + k) = n - k /\ n - k <= Capacity
    BY <1>0
  <2> HIDE DEF n
  <2>5. Len(Buffered') = n - k
    BY <2>1, <2>2
  <2> QED
    BY <1>0, <2>1, <2>3, <2>4, <2>5 DEF DequeInv
<1> QED
  BY <1>1, <1>2, <1>3, <1>4, <1>5 DEF Next

(* So it holds at all times. *)
LEMMA DequeAlways ==
  Spec => []DequeInv
BY DequeInit, DequeStep, PTL DEF Spec

(* peek() shows something whenever something is buffered, whatever was     *)
(* pushed and however it was read (byte_stream.cc:5-62).                   *)
THEOREM PeekIsNeverEmpty ==
  Spec => []PeekMakesProgress
<1>1. DequeInv => PeekMakesProgress
  <2> SUFFICES ASSUME DequeInv, BytesBuffered > 0 PROVE Peek(segments_, skip_in_front_) # <<>>
    BY DEF PeekMakesProgress
  <2>1. GoodDeque(segments_, skip_in_front_) /\ BytesBuffered = Len(Left(segments_, skip_in_front_))
    BY BufferedIsLeft DEF DequeInv, BytesBuffered
  <2>2. segments_ # <<>>
    <3> SUFFICES ASSUME segments_ = <<>> PROVE FALSE
      OBVIOUS
    <3>1. BytesBuffered = 0
      BY <2>1, LeftOfEmpty
    <3> QED
      BY <3>1
  <2> DEFINE p == Peek(segments_, skip_in_front_)
  <2>3. p \in Seq(Byte) /\ Len(p) # 0
    BY <2>1, <2>2, LeftIsViewAndRest
  <2> HIDE DEF p
  <2>4. p # <<>>
    BY <2>3, EmptySeq
  <2> QED
    BY <2>4 DEF p
<1> QED
  BY <1>1, DequeAlways, PTL

(* The stream the deque stands for, in a state that keeps the invariant. *)
LEMMA AbstractIs ==
  ASSUME DequeInv
  PROVE  /\ Buffered \in Seq(Byte) /\ consumed \in Seq(Byte)
         /\ consumed \o Buffered \in Seq(Byte)
         /\ Len(consumed \o Buffered) = bytes_popped_ + Len(Buffered)
         /\ Len(consumed \o Buffered) - bytes_popped_ = Len(Buffered)
         /\ Len(Buffered) \in Nat /\ bytes_popped_ \in Nat /\ Len(Buffered) <= Capacity
         /\ bytes_pushed_ - bytes_popped_ = Len(Buffered)
         /\ bytes_pushed_ = Len(consumed \o Buffered) /\ Capacity \in Nat
<1>1. /\ Buffered \in Seq(Byte) /\ consumed \in Seq(Byte) /\ Len(consumed) = bytes_popped_
      /\ Len(Buffered) \in Nat /\ bytes_popped_ \in Nat /\ Len(Buffered) <= Capacity /\ bytes_pushed_ \in Nat
      /\ bytes_pushed_ - bytes_popped_ = Len(Buffered)
  BY LeftType, BufferedIsLeft DEF DequeInv
<1>2. consumed \o Buffered \in Seq(Byte) /\ Len(consumed \o Buffered) = Len(consumed) + Len(Buffered)
  BY <1>1, ConcatProperties
<1> QED
  BY <1>1, <1>2, CapacityAssumption

(* A stream, by its fields. *)
Shown(pushed, popped, closed, error) ==
    [capacity |-> Capacity, pushed |-> pushed, popped |-> popped, closed |-> closed, error |-> error]

(* The operations of the stream on its fields. *)
LEMMA ShownClosed ==
  ASSUME NEW p, NEW k, NEW x, NEW y
  PROVE  Abstract!WriterClose(Shown(p, k, x, y)) = Shown(p, k, TRUE, y)
<1> DEFINE s == Shown(p, k, x, y)
           t == TRUE
<1>1. s = [capacity |-> Capacity, pushed |-> p, popped |-> k, closed |-> x, error |-> y]
  BY DEF Shown
<1>2. Abstract!WriterClose(s) = [s EXCEPT !.closed = t]
  BY DEF Abstract!WriterClose
<1> HIDE DEF s, t
<1>3. Abstract!WriterClose(s) = Shown(p, k, t, y)
  BY <1>1, <1>2 DEF Shown
<1> QED
  BY <1>3, Zenon DEF s, t

(* The operations of the abstract stream on the state that is shown. *)
LEMMA ShownFailed ==
  ASSUME NEW p, NEW k, NEW x, NEW y
  PROVE  Abstract!SetError(Shown(p, k, x, y)) = Shown(p, k, x, TRUE)
<1> DEFINE s == Shown(p, k, x, y)
           t == TRUE
<1>1. s = [capacity |-> Capacity, pushed |-> p, popped |-> k, closed |-> x, error |-> y]
  BY DEF Shown
<1>2. Abstract!SetError(s) = [s EXCEPT !.error = t]
  BY DEF Abstract!SetError
<1> HIDE DEF s, t
<1>3. Abstract!SetError(s) = Shown(p, k, x, t)
  BY <1>1, <1>2 DEF Shown
<1> QED
  BY <1>3, Zenon DEF s, t

LEMMA ShownPopped ==
  ASSUME NEW p, NEW k, NEW x, NEW y, NEW len
  PROVE  Abstract!ReaderPop(Shown(p, k, x, y), len)
           = Shown(p, k + (IF len < Len(p) - k THEN len ELSE Len(p) - k), x, y)
<1> DEFINE s == Shown(p, k, x, y)
           e == s.popped + (IF len < Abstract!BytesBuffered(s) THEN len ELSE Abstract!BytesBuffered(s))
<1>1. s = [capacity |-> Capacity, pushed |-> p, popped |-> k, closed |-> x, error |-> y]
  BY DEF Shown
<1>2. Abstract!ReaderPop(s, len) = [s EXCEPT !.popped = e]
  BY DEF Abstract!ReaderPop
<1> HIDE DEF s
<1>3. e = k + (IF len < Len(p) - k THEN len ELSE Len(p) - k)
  BY <1>1 DEF Abstract!BytesBuffered
<1> HIDE DEF e
<1>4. Abstract!ReaderPop(s, len) = Shown(p, e, x, y)
  BY <1>1, <1>2 DEF Shown
<1> QED
  BY <1>3, <1>4 DEF s

LEMMA ShownPushed ==
  ASSUME NEW p, NEW k, NEW x, NEW y, NEW d
  PROVE  Abstract!WriterPush(Shown(p, k, x, y), d)
           = Shown(p \o Abstract!Take(d, Capacity - (Len(p) - k)), k, x, y)
<1> DEFINE s == Shown(p, k, x, y)
           e == s.pushed \o Abstract!Take(d, Abstract!AvailableCapacity(s))
<1>1. s = [capacity |-> Capacity, pushed |-> p, popped |-> k, closed |-> x, error |-> y]
  BY DEF Shown
<1>2. Abstract!WriterPush(s, d) = [s EXCEPT !.pushed = e]
  BY DEF Abstract!WriterPush
<1> HIDE DEF s
<1>3. e = p \o Abstract!Take(d, Capacity - (Len(p) - k))
  BY <1>1 DEF Abstract!AvailableCapacity
<1> HIDE DEF e
<1>4. Abstract!WriterPush(s, d) = Shown(e, k, x, y)
  BY <1>1, <1>2 DEF Shown
<1> QED
  BY <1>3, <1>4 DEF s
(* The deque, the offset and the counters implement a bounded stream of    *)
(* bytes, first in first out: every call is the call on the stream, or one *)
(* that changes neither (byte_stream.cc:5-62, byte_stream_helpers.cc:7-20).*)
THEOREM DequeImplementsByteStream ==
  Spec => ImplementsByteStream
<1> DEFINE z == [capacity |-> Capacity, pushed |-> consumed \o Buffered,
                 popped |-> bytes_popped_, closed |-> closed_, error |-> error_]
<1>1. Init => Abstract!Init
  <2> SUFFICES ASSUME Init PROVE Abstract!Init
    OBVIOUS
  <2>1. segments_ = <<>> /\ skip_in_front_ = 0 /\ consumed = <<>>
        /\ bytes_popped_ = 0 /\ error_ = FALSE /\ closed_ = FALSE
    BY DEF Init
  <2>2. GoodDeque(segments_, skip_in_front_)
    BY DequeInit DEF DequeInv
  <2>3. Buffered = <<>>
    BY <2>1, <2>2, LeftOfEmpty, BufferedIsLeft
  <2>4. <<>> \o <<>> = <<>>
    BY EmptySeq, ConcatEmptySeq
  <2>5. z = [capacity |-> Capacity, pushed |-> <<>>, popped |-> 0, closed |-> FALSE, error |-> FALSE]
    BY <2>1, <2>3, <2>4
  <2> HIDE DEF z
  <2>6. z = Abstract!NewStream(Capacity)
    BY <2>5 DEF Abstract!NewStream
  <2> QED
    BY <2>6 DEF Abstract!Init, z
<1>2. DequeInv /\ DequeInv' /\ [Next]_vars => [Abstract!Next]_z
  <2> SUFFICES ASSUME DequeInv, DequeInv', [Next]_vars
               PROVE  Abstract!Next \/ z' = z
    OBVIOUS
  <2> DEFINE b == Buffered
             n == Len(Buffered)
             c == consumed \o b
  <2>1. /\ b \in Seq(Byte) /\ consumed \in Seq(Byte) /\ c \in Seq(Byte)
        /\ Len(c) - bytes_popped_ = n
        /\ n \in Nat /\ bytes_popped_ \in Nat /\ n <= Capacity /\ Capacity \in Nat
        /\ bytes_pushed_ - bytes_popped_ = n /\ bytes_pushed_ = Len(c)
    BY AbstractIs
  <2>2. /\ z = Shown(c, bytes_popped_, closed_, error_)
        /\ z' = Shown(consumed' \o Buffered', bytes_popped_', closed_', error_')
    BY DEF Shown
  <2>3. CASE UNCHANGED vars
    <3>1. Buffered' = Buffered
      BY <2>3 DEF vars, Buffered
    <3> QED
      BY <2>3, <3>1 DEF vars
  <2>4. ASSUME NEW data \in Chunk, Push(data) PROVE Abstract!Next \/ z' = z
    <3>1. CASE UNCHANGED vars
      BY <2>3, <3>1
    <3>2. CASE ~UNCHANGED vars
      <4> DEFINE f == Fitting(data)
                 a == AvailableCapacity
      <4>1. /\ data # <<>> /\ a # 0
            /\ segments_' = Append(segments_, f)
            /\ UNCHANGED <<skip_in_front_, bytes_popped_, error_, closed_, consumed>>
        BY <2>4, <3>2, PushIs
      <4>2. data \in Seq(Byte)
        BY <2>4, ChunkIsSeq
      <4>3. f \in Seq(Byte) /\ Len(f) \in Nat \ {0} /\ a \in Nat
        BY <4>1, <4>2, FittingIs
      <4>4. f = Abstract!Take(data, a)
        <5>1. Len(data) \in Nat
          BY <4>2, LenProperties
        <5>2. Len(data) > a <=> a < Len(data)
          BY <4>3, <5>1
        <5> QED
          BY <5>2 DEF Abstract!Take, Fitting, First
      <4>5. a = Capacity - (Len(c) - bytes_popped_)
        BY <2>1 DEF AvailableCapacity
      <4> HIDE DEF f, a
      <4>6. Buffered' = b \o f
        BY <4>1, <4>3, LeftAppend, BufferedIsLeft DEF DequeInv
      <4>7. consumed' \o Buffered' = c \o f
        <5> HIDE DEF b
        <5>1. consumed \o (b \o f) = (consumed \o b) \o f
          <6>1. consumed \in Seq(Byte) /\ b \in Seq(Byte) /\ f \in Seq(Byte)
            BY <2>1, <4>3
          <6> QED
            BY ONLY <6>1, ThreeInARow, Zenon
        <5> QED
          BY <4>1, <4>6, <5>1
      <4> HIDE DEF c, b
      <4>8. z' = Shown(c \o f, bytes_popped_, closed_, error_)
        BY <2>2, <4>1, <4>7
      <4>9. Abstract!BytesPushed(z) + Len(data) <= MaxTotal
        <5>1. bytes_pushed_ + Len(data) <= MaxTotal
          BY <2>4 DEF Push
        <5>2. z.pushed = c
          BY DEF c, b
        <5> QED
          BY <2>1, <5>1, <5>2 DEF Abstract!BytesPushed
      <4> HIDE DEF z
      <4>10. Abstract!WriterPush(z, data)
               = Shown(c \o Abstract!Take(data, Capacity - (Len(c) - bytes_popped_)),
                       bytes_popped_, closed_, error_)
        BY <2>2, ShownPushed
      <4>11. z' = Abstract!WriterPush(z, data)
        BY <4>4, <4>5, <4>8, <4>10
      <4>12. Abstract!Push(data)
        BY <4>9, <4>11 DEF Abstract!Push, z, c, b
      <4>13. data \in Abstract!Chunk
        BY <2>4 DEF Abstract!Chunk, Chunk
      <4> QED
        BY <4>12, <4>13 DEF Abstract!Next
    <3> QED
      BY <3>1, <3>2
  <2>5. CASE Close
    <3>1. Buffered' = Buffered
      BY <2>5 DEF Close, Buffered
    <3>2. z' = Shown(c, bytes_popped_, TRUE, error_)
      BY <2>5, <3>1 DEF Close, Shown
    <3>3. z' = Abstract!WriterClose(z)
      <4> HIDE DEF z, c
      <4>1. Abstract!WriterClose(z) = Shown(c, bytes_popped_, TRUE, error_)
        BY <2>2, ShownClosed
      <4> QED
        BY <3>2, <4>1, Zenon
    <3> HIDE DEF z
    <3>4. Abstract!Close
      BY <3>3 DEF Abstract!Close, z
    <3> QED
      BY <3>4 DEF Abstract!Next
  <2>6. CASE Fail
    <3>1. Buffered' = Buffered
      BY <2>6 DEF Fail, Buffered
    <3>2. z' = Shown(c, bytes_popped_, closed_, TRUE)
      BY <2>6, <3>1 DEF Fail, Shown
    <3>3. z' = Abstract!SetError(z)
      <4> HIDE DEF z, c
      <4>1. Abstract!SetError(z) = Shown(c, bytes_popped_, closed_, TRUE)
        BY <2>2, ShownFailed
      <4> QED
        BY <3>2, <4>1, Zenon
    <3> HIDE DEF z
    <3>4. Abstract!Fail
      BY <3>3 DEF Abstract!Fail, z
    <3> QED
      BY <3>4 DEF Abstract!Next
  <2>7. ASSUME NEW len \in 0 .. Capacity + 1, Pop(len) PROVE Abstract!Next \/ z' = z
    <3>1. PICK k \in 0 .. n :
            /\ k = IF len < BytesBuffered THEN len ELSE BytesBuffered
            /\ Buffered' = Drop(b, k)
            /\ consumed' = consumed \o First(b, k)
            /\ bytes_popped_' = bytes_popped_ + k
            /\ UNCHANGED <<bytes_pushed_, error_, closed_>>
      BY <2>7, PopStepIs
    <3>2. /\ First(b, k) \in Seq(Byte) /\ Drop(b, k) \in Seq(Byte)
          /\ First(b, k) \o Drop(b, k) = b
      BY <2>1, FirstIs, DropIs
    <3>3. consumed' \o Buffered' = c
      <4> DEFINE g == First(b, k)
                 d == Drop(b, k)
      <4>1. g \in Seq(Byte) /\ d \in Seq(Byte) /\ g \o d = b /\ consumed' = consumed \o g /\ Buffered' = d
        BY <3>1, <3>2
      <4> HIDE DEF g, d, b
      <4>2. (consumed \o g) \o d = consumed \o (g \o d)
        <5>1. consumed \in Seq(Byte)
          BY <2>1
        <5>2. g \in Seq(Byte) /\ d \in Seq(Byte)
          BY <4>1
        <5> QED
          BY ONLY <5>1, <5>2, ThreeInARow, Zenon
      <4> QED
        BY <4>1, <4>2
    <3>4. BytesBuffered = Len(c) - bytes_popped_
      BY <2>1 DEF BytesBuffered
    <3> HIDE DEF c, z
    <3>5. z' = Shown(c, bytes_popped_ + k, closed_, error_)
      BY <2>2, <3>1, <3>3
    <3>6. Abstract!ReaderPop(z, len)
            = Shown(c, bytes_popped_
                         + (IF len < Len(c) - bytes_popped_ THEN len ELSE Len(c) - bytes_popped_),
                    closed_, error_)
      BY <2>2, ShownPopped
    <3>7. k = IF len < Len(c) - bytes_popped_ THEN len ELSE Len(c) - bytes_popped_
      BY <3>1, <3>4
    <3>8. z' = Abstract!ReaderPop(z, len)
      BY <3>5, <3>6, <3>7
    <3>9. Abstract!Pop(len)
      BY <3>8 DEF Abstract!Pop, z, c
    <3> QED
      BY <2>7, <3>9 DEF Abstract!Next
  <2> QED
    BY <2>3, <2>4, <2>5, <2>6, <2>7 DEF Next
<1> QED
  BY <1>1, <1>2, DequeAlways, PTL DEF Spec, ImplementsByteStream, Abstract!Spec
=============================================================================
