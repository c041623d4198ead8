----------------------------- MODULE TCPLemmas ------------------------------
(***************************************************************************)
(* What the halves of a connection do, for every width, window, payload    *)
(* size and stream, whoever calls them and in whatever order: lemmas that  *)
(* the proofs about TCPSenderSpec, TCPReceiverSpec and TCPConnection use.  *)
(* They rest on Wrap32 (the inverse of wrap()) and on facts about natural  *)
(* numbers.                                                                *)
(***************************************************************************)
EXTENDS TCPSender, TCPReceiver, NaturalsInduction, WellFoundedInduction,
        FiniteSetTheorems, SequenceTheorems, TLAPS

(* A non-empty set of natural numbers has a least element. *)
LEMMA LeastElement ==
  ASSUME NEW T, T \subseteq Nat, T # {}
  PROVE  \E x \in T : \A y \in T : x <= y
<1> DEFINE R == OpToRel(<, Nat)
<1>1. IsWellFoundedOn(R, Nat)
  BY NatLessThanWellFounded
<1> HIDE DEF R
<1>2. PICK x \in T : \A y \in T : ~(<<y, x>> \in R)
  BY <1>1, WFMin, Zenon
<1>3. \A y \in T : y < x => <<y, x>> \in R
  BY DEF R, OpToRel
<1>4. \A y \in T : y \in Nat /\ x \in Nat
  OBVIOUS
<1>5. \A y \in T : ~(y < x)
  BY <1>2, <1>3
<1>6. \A y \in T : x <= y
  BY <1>4, <1>5
<1> QED
  BY <1>6

(* How far a loop gets that runs through 1, 2, ... up to n and stops before *)
(* the first number that is not in T.                                       *)
LEMMA LoopStops ==
  ASSUME NEW T, NEW n \in Nat
  PROVE  \E m \in 0 .. n : /\ \A k \in 1 .. m : k \in T
                           /\ m < n => m + 1 \notin T
<1> DEFINE S == {k \in 1 .. n : k \notin T}
<1>1. CASE S = {}
  <2>1. \A k \in 1 .. n : k \in T
    BY <1>1
  <2> QED
    BY <2>1
<1>2. CASE S # {}
  <2>1. S \subseteq Nat
    OBVIOUS
  <2>2. PICK x \in S : \A y \in S : x <= y
    BY <1>2, <2>1, LeastElement
  <2>3. x \in 1 .. n /\ x \notin T
    BY <2>2
  <2>4. \A k \in 1 .. (x - 1) : k \in T
    BY <2>2, <2>3
  <2>5. x - 1 \in 0 .. n /\ (x - 1) + 1 \notin T
    BY <2>3
  <2> QED
    BY <2>4, <2>5
<1> QED
  BY <1>1, <1>2

(* Multiplication by a natural number is monotone. *)
LEMMA TimesMonotone ==
  ASSUME NEW m \in Nat, NEW i \in Int, NEW j \in Int, i <= j
  PROVE  i * m <= j * m
  OBVIOUS

(* The number of parts of at most m that p splits into, rounded up. *)
LEMMA PartsCover ==
  ASSUME NEW m \in Nat \ {0}, NEW p \in Nat \ {0}
  PROVE  LET n == 1 + ((p - 1) \div m)
         IN  n \in Nat \ {0} /\ (n - 1) * m < p /\ p <= n * m
<1> DEFINE q == (p - 1) \div m
<1>1. /\ q \in Nat
      /\ p - 1 = m * q + ((p - 1) % m)
      /\ (p - 1) % m \in 0 .. (m - 1)
  OBVIOUS
<1> HIDE DEF q
<1>2. (1 + q) * m = m * q + m
  BY <1>1
<1>3. ((1 + q) - 1) * m = m * q
  BY <1>1
<1>4. 1 + q \in Nat \ {0} /\ ((1 + q) - 1) * m < p /\ p <= (1 + q) * m
  BY <1>1, <1>2, <1>3
<1> QED
  BY <1>4 DEF q

(* Counting up from a number, one leaves a finite set after at most as many *)
(* steps as it has elements.                                                *)
LEMMA RunEnds ==
  ASSUME NEW D, IsFiniteSet(D), NEW from \in Int
  PROVE  \E n \in 0 .. Cardinality(D) : /\ \A i \in from .. (from + n - 1) : i \in D
                                        /\ from + n \notin D
<1> DEFINE T == {n \in Nat : from + n \notin D}
           c == Cardinality(D)
<1>1. c \in Nat
  BY FS_CardinalityType
<1> HIDE DEF c
<1>2. \A n \in Nat : (from .. (from + n - 1) \subseteq D) => n <= c
  <2> SUFFICES ASSUME NEW n \in Nat, from .. (from + n - 1) \subseteq D PROVE n <= c
    OBVIOUS
  <2>1. Cardinality(from .. (from + n - 1)) <= c
    BY FS_Subset DEF c
  <2>2. Cardinality(from .. (from + n - 1)) = IF from > from + n - 1 THEN 0 ELSE (from + n - 1) - from + 1
    <3>1. from + n - 1 \in Int
      OBVIOUS
    <3> QED
      BY <3>1, FS_Interval
  <2> QED
    BY <1>1, <2>1, <2>2
<1>3. T # {}
  <2> SUFFICES ASSUME T = {} PROVE FALSE
    OBVIOUS
  <2>1. \A i \in from .. (from + (c + 1) - 1) : i \in D
    <3> SUFFICES ASSUME NEW i \in from .. (from + (c + 1) - 1), i \notin D PROVE FALSE
      OBVIOUS
    <3>1. i - from \in Nat /\ from + (i - from) = i
      BY <1>1
    <3> QED
      BY <3>1
  <2>2. from .. (from + (c + 1) - 1) \subseteq D /\ c + 1 \in Nat
    BY <1>1, <2>1
  <2>3. c + 1 <= c
    BY <1>2, <2>2
  <2> QED
    BY <1>1, <2>3
<1>4. PICK n \in T : \A m \in T : n <= m
  <2>1. T \subseteq Nat
    OBVIOUS
  <2> QED
    BY <1>3, <2>1, LeastElement
<1>5. \A i \in from .. (from + n - 1) : i \in D
  <2> SUFFICES ASSUME NEW i \in from .. (from + n - 1), i \notin D PROVE FALSE
    OBVIOUS
  <2>1. i - from \in Nat /\ from + (i - from) = i /\ i - from < n
    BY <1>4
  <2> QED
    BY <1>4, <2>1
<1>6. n <= c
  BY <1>2, <1>4, <1>5
<1> QED
  BY <1>1, <1>4, <1>5, <1>6 DEF c

-----------------------------------------------------------------------------
(* A number splits into whole rounds and a residue. *)
LEMMA DivMod ==
  ASSUME NEW m \in Nat \ {0}, NEW x \in Int
  PROVE  /\ x % m \in 0 .. (m - 1)
         /\ x \div m \in Int
         /\ x = m * (x \div m) + (x % m)
  OBVIOUS

(* The residue is determined by the split. *)
LEMMA ModUnique ==
  ASSUME NEW m \in Nat \ {0}, NEW x \in Int, NEW q \in Int,
         NEW r \in 0 .. (m - 1), x = m * q + r
  PROVE  x % m = r
  OBVIOUS

(* The offset unwrap() computes from a wrapped number is the number's own   *)
(* residue, whatever the zero point (wrapping_integers.cc:7,17).            *)
LEMMA OffsetOfWrap ==
  ASSUME NEW n \in Nat, NEW z \in Seqno
  PROVE  (Wrap(n, z) - z) % SeqMod = n % SeqMod
<1> USE WidthAssumption
<1> DEFINE r == n % SeqMod
           w == (z + r) % SeqMod
<1>1. r \in 0 .. (SeqMod - 1)
  BY DivMod
<1>2. z \in 0 .. (SeqMod - 1)
  BY DEF Seqno
<1>3. Wrap(n, z) = w
  BY DEF Wrap, Plus
<1>4. CASE z + r < SeqMod
  <2>1. w = z + r
    BY <1>1, <1>2, <1>4, z + r = SeqMod * 0 + (z + r), ModUnique
  <2> QED
    BY <1>1, <1>2, <1>3, <2>1, r = SeqMod * 0 + r, ModUnique
<1>5. CASE z + r >= SeqMod
  <2>1. w = z + r - SeqMod
    BY <1>1, <1>2, <1>5, z + r = SeqMod * 1 + (z + r - SeqMod), ModUnique
  <2>2. w - z = SeqMod * (-1) + r
    BY <1>1, <1>2, <2>1
  <2> QED
    BY <1>1, <1>2, <1>3, <2>2, w - z \in Int, ModUnique
<1> QED
  BY <1>1, <1>2, <1>4, <1>5

(* Two numbers less than a round apart lie in the same or in neighbouring   *)
(* rounds.                                                                  *)
LEMMA NeighbouringRounds ==
  ASSUME NEW m \in Nat \ {0}, NEW q \in Int, NEW p \in Int,
         NEW r \in 0 .. (m - 1), NEW s \in 0 .. (m - 1),
         m * q + r < m * p + s + m, m * p + s < m * q + r + m
  PROVE  m * q - m * p \in {-m, 0, m}
<1>1. m * (q - p) < 2 * m /\ m * (p - q) < 2 * m
  OBVIOUS
<1>2. q - p \in {-1, 0, 1}
  <2>1. CASE q - p >= 2
    <3>1. m * (q - p) >= m * 2
      BY <2>1
    <3> QED
      BY <1>1, <3>1
  <2>2. CASE p - q >= 2
    <3>1. m * (p - q) >= m * 2
      BY <2>2
    <3> QED
      BY <1>1, <3>1
  <2> QED
    BY <2>1, <2>2
<1> QED
  BY <1>2

(* unwrap() inverts wrap() around any checkpoint that is nearer than half   *)
(* the sequence space, at every boundary: below the first round, across the *)
(* wrap of the residue, and in the last round of the absolute numbers.      *)
THEOREM UnwrapInvertsWrap ==
  ASSUME NEW n \in AbsSeqno, NEW cp \in AbsSeqno, NEW z \in Seqno,
         2 * Distance(n, cp) < SeqMod
  PROVE  Unwrap(Wrap(n, z), z, cp) = n
<1> USE WidthAssumption
<1> DEFINE c == Candidate(Wrap(n, z), z, cp)
           a == SeqMod * (n \div SeqMod)
           b == SeqMod * (cp \div SeqMod)
           nx == (c + SeqMod) % AbsMod
<1>1. n \in Nat /\ cp \in Nat /\ n < AbsMod /\ cp < AbsMod
  BY DEF AbsSeqno
<1>2. /\ n = a + (n % SeqMod) /\ n % SeqMod \in 0 .. (SeqMod - 1) /\ a \in Int
      /\ cp = b + (cp % SeqMod) /\ cp % SeqMod \in 0 .. (SeqMod - 1) /\ b \in Int
  BY <1>1, DivMod
<1>3. c = b + (n % SeqMod)
  <2>1. c = cp - (cp % SeqMod) + (n % SeqMod)
    BY <1>1, OffsetOfWrap DEF Candidate
  <2> QED
    BY <1>1, <1>2, <2>1
<1>4. n - cp < SeqMod /\ cp - n < SeqMod
  BY <1>1 DEF Distance
<1>5. a - b \in {-SeqMod, 0, SeqMod}
  BY <1>1, <1>2, <1>4, NeighbouringRounds, n \div SeqMod \in Int, cp \div SeqMod \in Int
<1>6. c \in {n - SeqMod, n, n + SeqMod}
  BY <1>1, <1>2, <1>3, <1>5
<1>7. b <= cp /\ cp < b + SeqMod
  BY <1>1, <1>2
<1>8. c \in Int /\ c >= 0 /\ c < cp + SeqMod
  <2>1. b >= 0
    BY <1>1, cp \div SeqMod \in Nat
  <2> QED
    BY <1>1, <1>2, <1>3, <1>7, <2>1
<1>9. nx = IF c + SeqMod < AbsMod THEN c + SeqMod ELSE c + SeqMod - AbsMod
  <2>1. c + SeqMod < AbsMod + AbsMod
    BY <1>1, <1>8
  <2> HIDE DEF c
  <2>2. CASE c + SeqMod < AbsMod
    BY <1>8, <2>2, c + SeqMod = AbsMod * 0 + (c + SeqMod), ModUnique
  <2>3. CASE c + SeqMod >= AbsMod
    BY <1>8, <2>1, <2>3, c + SeqMod = AbsMod * 1 + (c + SeqMod - AbsMod), ModUnique
  <2> QED
    BY <1>8, <2>2, <2>3
<1> HIDE DEF c, a, b, nx
<1>10. Unwrap(Wrap(n, z), z, cp)
         = LET best == IF c >= SeqMod /\ Distance(c - SeqMod, cp) < Distance(c, cp)
                       THEN c - SeqMod ELSE c
           IN  IF Distance(nx, cp) < Distance(best, cp) THEN nx ELSE best
  BY DEF Unwrap, c, nx
<1>11. CASE c = n
  BY <1>1, <1>9, <1>10, <1>11 DEF Distance
<1>12. CASE c = n - SeqMod
  BY <1>1, <1>8, <1>9, <1>10, <1>12 DEF Distance
<1>13. CASE c = n + SeqMod
  <2>1. n < cp
    BY <1>1, <1>2, <1>3, <1>7, <1>13
  <2> QED
    BY <1>1, <1>8, <1>9, <1>10, <1>13, <2>1 DEF Distance
<1> QED
  BY <1>6, <1>11, <1>12, <1>13

-----------------------------------------------------------------------------
(* The sending half *)

(* The inductive invariant, as a predicate of one sender. *)
GoodSender(s) ==
    /\ s \in SenderRecord
    /\ TilesFlight(s)
    /\ TimerRunsWithFlight(s)
    /\ Accounted(s)
    /\ s.bytes_in_flight <= WinMax
    /\ s.zero_window <=> (s.window_size = 0)

(* Sender t has the unacknowledged segments of s from the (c + 1)-st on,   *)
(* where they were, and a stream that begins with the stream of s.         *)
Drops(s, t, c) ==
    /\ Len(t.outstanding) = Len(s.outstanding) - c
    /\ \A k \in 1 .. (Len(s.outstanding) - c) :
          t.outstanding[k] = s.outstanding[c + k] /\ SegmentStart(t, k) = SegmentStart(s, c + k)
    /\ t.fin_sent = s.fin_sent
    /\ s.fin_sent => t.input.pushed = s.input.pushed
    /\ Len(t.input.pushed) >= Len(s.input.pushed)
    /\ \A i \in 1 .. Len(s.input.pushed) : t.input.pushed[i] = s.input.pushed[i]

-----------------------------------------------------------------------------
(* What unwrap() returns is an integer. *)
LEMMA UnwrapType ==
  ASSUME NEW raw \in Int, NEW z \in Int, NEW cp \in Nat
  PROVE  Unwrap(raw, z, cp) \in Int
<1> USE WidthAssumption
<1> DEFINE c == Candidate(raw, z, cp)
<1>1. c \in Int
  BY DEF Candidate
<1> HIDE DEF c
<1>2. (c + SeqMod) % AbsMod \in Int
  <2>1. AbsMod \in Nat \ {0}
    OBVIOUS
  <2> QED
    BY <1>1, <2>1
<1> QED
  BY <1>1, <1>2 DEF Unwrap, c

(* A sequence number less than a window behind next_seqno is read back     *)
(* from its residue (tcp_sender.cc:99).                                    *)
LEMMA ReadBack ==
  ASSUME NEW isn \in Seqno,
         NEW a \in Nat, NEW next \in Nat, a <= next, next - a <= WinMax, next < AbsMod
  PROVE  Unwrap(Wrap(a, isn), isn, next) = a
<1>1. a \in AbsSeqno /\ next \in AbsSeqno
  BY WindowAssumption, WidthAssumption DEF AbsSeqno
<1>2. 2 * Distance(a, next) < SeqMod
  BY WindowAssumption, WidthAssumption DEF Distance
<1> QED
  BY <1>1, <1>2, UnwrapInvertsWrap

LEMMA WrapType ==
  ASSUME NEW a \in Nat, NEW isn \in Seqno
  PROVE  Wrap(a, isn) \in Seqno
<1>1. a % SeqMod \in Nat /\ isn \in Nat
  BY WindowAssumption, WidthAssumption DEF Seqno
<1> QED
  BY <1>1, WidthAssumption DEF Wrap, Plus, Seqno

(* Absolute numbers do not run out. *)
LEMMA NextBelowAbsMod ==
  ASSUME NEW s, s \in SenderRecord, Accounted(s)
  PROVE  s.next_seqno <= Len(s.input.pushed) + 2 /\ s.next_seqno < AbsMod
<1>1. s.input.popped \in Nat /\ Len(s.input.pushed) \in Nat
  BY DEF SenderRecord, InputRecord
<1>2. Bit(s.syn_sent) \in {0, 1} /\ Bit(s.fin_sent) \in {0, 1}
  BY DEF Bit
<1>3. s.next_seqno <= Len(s.input.pushed) + 2
  BY <1>1, <1>2 DEF Accounted
<1> QED
  BY <1>1, <1>3, WindowAssumption, WidthAssumption DEF SenderRecord, Accounted

(* The length of a message in sequence numbers. *)
LEMMA LengthIsNatural ==
  ASSUME NEW m \in MessageRecord
  PROVE  /\ SequenceLength(m) \in Nat
         /\ SequenceLength(m) = Bit(m.SYN) + Len(m.payload) + Bit(m.FIN)
         /\ Bit(m.SYN) \in {0, 1} /\ Bit(m.FIN) \in {0, 1} /\ Len(m.payload) \in Nat
<1>1. Len(m.payload) \in Nat
  BY DEF MessageRecord
<1>2. Bit(m.SYN) \in {0, 1} /\ Bit(m.FIN) \in {0, 1}
  BY DEF Bit
<1>3. SequenceLength(m) = Bit(m.SYN) + Len(m.payload) + Bit(m.FIN)
  BY Zenon DEF SequenceLength, Bit
<1> QED
  BY <1>1, <1>2, <1>3

(* Where an outstanding segment starts and ends, and what the fields of a  *)
(* sender are.                                                             *)
LEMMA SegmentTypes ==
  ASSUME NEW s, s \in SenderRecord, NEW k \in 1 .. Len(s.outstanding)
  PROVE  /\ s.outstanding[k] \in MessageRecord
         /\ SequenceLength(s.outstanding[k]) \in Nat
         /\ SegmentStart(s, k) \in Int
         /\ SegmentEnd(s, k) \in Int
<1>1. s.outstanding \in Seq(MessageRecord) /\ s.isn \in Seqno /\ s.next_seqno \in Nat
  BY DEF SenderRecord
<1>2. s.outstanding[k] \in MessageRecord
  BY <1>1, ElementOfSeq
<1>3. SequenceLength(s.outstanding[k]) \in Nat
  BY <1>2, LengthIsNatural
<1>4. s.outstanding[k].seqno \in Int /\ s.isn \in Int
  <2>1. \A x \in Seqno : x \in Int
    BY WidthAssumption DEF Seqno
  <2> QED
    BY <1>1, <1>2, <2>1 DEF MessageRecord
<1>5. SegmentStart(s, k) \in Int
  BY <1>1, <1>4, UnwrapType DEF SegmentStart
<1> QED
  BY <1>2, <1>3, <1>5 DEF SegmentEnd

-----------------------------------------------------------------------------
(* push() *)

(* The fields of a good sender. *)
LEMMA SenderTypes ==
  ASSUME NEW s, s \in SenderRecord
  PROVE  /\ s.next_seqno \in Nat /\ s.bytes_in_flight \in Nat /\ s.window_size \in 0 .. WinMax
         /\ s.isn \in Seqno /\ s.outstanding \in Seq(MessageRecord) /\ Len(s.outstanding) \in Nat
         /\ s.input.pushed \in Seq(Nat) /\ s.input.popped \in Nat /\ Len(s.input.pushed) \in Nat
         /\ s.timer \in TimerRecord
         /\ s.syn_sent \in BOOLEAN /\ s.fin_sent \in BOOLEAN /\ s.zero_window \in BOOLEAN
         /\ s.input.closed \in BOOLEAN /\ s.input.error \in BOOLEAN
         /\ WinMax \in Nat \ {0} /\ MaxPayload \in Nat \ {0}
  BY WindowAssumption DEF SenderRecord, InputRecord

(* What push() hands out stays inside the window and the stream            *)
(* (tcp_sender.cc:28, 38-39, 64-68).                                       *)
LEMMA PushNumbers ==
  ASSUME NEW s, GoodSender(s)
  PROVE  /\ AbsAck(s) \in Nat /\ EffectiveWindow(s) \in 1 .. WinMax
         /\ Budget(s) \in Nat
         /\ Budget(s) > 0 => ~s.fin_sent /\ s.next_seqno + Budget(s) = RightEdge(s)
         /\ Bit(SendsSyn(s)) \in {0, 1} /\ Bit(SendsFin(s)) \in {0, 1}
         /\ PayloadToSend(s) \in 0 .. BytesBuffered(s.input)
         /\ LengthToSend(s) \in Nat /\ LengthToSend(s) <= Budget(s)
         /\ LengthToSend(s) = Bit(SendsSyn(s)) + PayloadToSend(s) + Bit(SendsFin(s))
<1> USE SenderTypes
<1>0. s \in SenderRecord
  BY DEF GoodSender
<1>1. AbsAck(s) \in Nat
  BY <1>0 DEF GoodSender, TilesFlight, AbsAck
<1>2. EffectiveWindow(s) \in 1 .. WinMax
  BY <1>0 DEF GoodSender, EffectiveWindow
<1>3. RightEdge(s) \in Nat
  BY <1>1, <1>2 DEF RightEdge
<1>4. /\ Budget(s) \in Nat
      /\ Budget(s) > 0 => ~s.fin_sent /\ s.next_seqno + Budget(s) = RightEdge(s)
  BY <1>0, <1>3 DEF Budget
<1>5. BytesBuffered(s.input) \in Nat
  BY <1>0 DEF GoodSender, Accounted, BytesBuffered
<1>6. Bit(SendsSyn(s)) \in {0, 1} /\ Bit(SendsFin(s)) \in {0, 1}
  BY DEF Bit
<1>7. Budget(s) - Bit(SendsSyn(s)) \in Nat
  BY <1>4, <1>6 DEF SendsSyn, Bit
<1>8. /\ PayloadToSend(s) \in 0 .. BytesBuffered(s.input)
      /\ PayloadToSend(s) <= Budget(s) - Bit(SendsSyn(s))
  BY <1>5, <1>7 DEF PayloadToSend, Least
<1>9. SendsFin(s) => Bit(SendsSyn(s)) + PayloadToSend(s) < Budget(s)
  BY DEF SendsFin
<1>10. Bit(SendsFin(s)) = 1 <=> SendsFin(s)
  BY DEF Bit
<1> QED
  BY <1>1, <1>2, <1>4, <1>5, <1>6, <1>8, <1>9, <1>10 DEF LengthToSend

(* How push() cuts the payload into segments: without gap or overlap, none *)
(* of them empty, and all of it (tcp_sender.cc:28-35, 68-72).              *)
LEMMA PayloadCuts ==
  ASSUME NEW s, GoodSender(s), LengthToSend(s) > 0
  PROVE  /\ SegmentsToSend(s) \in Nat \ {0}
         /\ PayloadToSend(s) = 0 => SegmentsToSend(s) = 1
         /\ PayloadBefore(s, 1) = 0
         /\ PayloadBefore(s, SegmentsToSend(s) + 1) = PayloadToSend(s)
         /\ \A k \in 1 .. (SegmentsToSend(s) + 1) :
               PayloadBefore(s, k) \in 0 .. PayloadToSend(s)
         /\ \A j, k \in 1 .. (SegmentsToSend(s) + 1) :
               j <= k => PayloadBefore(s, j) <= PayloadBefore(s, k)
         /\ \A k \in 1 .. SegmentsToSend(s) :
               PayloadToSend(s) > 0 => PayloadBefore(s, k) < PayloadBefore(s, k + 1)
<1> DEFINE P == PayloadToSend(s)
           N == SegmentsToSend(s)
           M == MaxPayload
<1>1. P \in Nat /\ M \in Nat \ {0} /\ LengthToSend(s) # 0
  <2>1. BytesBuffered(s.input) \in Int
    BY SenderTypes DEF GoodSender, BytesBuffered
  <2> QED
    BY <2>1, PushNumbers, WindowAssumption
<1>2. /\ N \in Nat \ {0}
      /\ P = 0 => N = 1
      /\ P > 0 => (N - 1) * M < P /\ P <= N * M
  <2>1. CASE P = 0
    BY <1>1, <2>1 DEF SegmentsToSend
  <2>2. CASE P > 0
    <3>1. N = 1 + ((P - 1) \div M)
      BY <1>1, <2>2 DEF SegmentsToSend
    <3> HIDE DEF P, N, M
    <3> QED
      BY <1>1, <2>2, <3>1, PartsCover
  <2> QED
    BY <1>1, <2>1, <2>2
<1>3. \A k : PayloadBefore(s, k) = IF (k - 1) * M < P THEN (k - 1) * M ELSE P
  BY DEF PayloadBefore, Least
<1> HIDE DEF P, N, M
<1>4. \A j, k \in 1 .. (N + 1) : j <= k => (j - 1) * M <= (k - 1) * M
  BY <1>1, <1>2, TimesMonotone
<1>5. \A k \in 1 .. (N + 1) : (k - 1) * M \in Nat /\ ((k + 1) - 1) * M = (k - 1) * M + M
  BY <1>1, <1>2
<1>6. PayloadBefore(s, 1) = 0
  BY <1>1, <1>3
<1>7. PayloadBefore(s, N + 1) = P
  <2>1. ((N + 1) - 1) * M = N * M
    BY <1>1, <1>2
  <2>2. N * M \in Nat
    BY <1>1, <1>2
  <2> QED
    BY <1>1, <1>2, <1>3, <2>1, <2>2
<1>8. \A k \in 1 .. (N + 1) : PayloadBefore(s, k) \in 0 .. P
  BY <1>1, <1>3, <1>5
<1>9. \A j, k \in 1 .. (N + 1) : j <= k => PayloadBefore(s, j) <= PayloadBefore(s, k)
  BY <1>1, <1>3, <1>4, <1>5
<1>10. \A k \in 1 .. N : P > 0 => PayloadBefore(s, k) < PayloadBefore(s, k + 1)
  <2> SUFFICES ASSUME NEW k \in 1 .. N, P > 0
               PROVE  PayloadBefore(s, k) < PayloadBefore(s, k + 1)
    OBVIOUS
  <2>1. (k - 1) * M <= (N - 1) * M
    BY <1>1, <1>2, TimesMonotone
  <2>2. (k - 1) * M \in Nat /\ (N - 1) * M \in Nat /\ ((k + 1) - 1) * M = (k - 1) * M + M
    BY <1>1, <1>2, <1>5
  <2>3. (k - 1) * M < P
    BY <1>1, <1>2, <2>1, <2>2
  <2> QED
    BY <1>1, <1>3, <2>2, <2>3
<1> QED
  BY <1>2, <1>6, <1>7, <1>8, <1>9, <1>10 DEF P, N

(* Where segment k of a push starts and ends, counted from next_seqno. *)
Offset(s, k) == IF k = 1 THEN 0 ELSE Bit(SendsSyn(s)) + PayloadBefore(s, k)
Finish(s, k) == IF k = SegmentsToSend(s) THEN LengthToSend(s) ELSE Offset(s, k + 1)

(* The segments that push() sends follow one another without gap or        *)
(* overlap.                                                                *)
LEMMA OffsetsTile ==
  ASSUME NEW s, GoodSender(s), LengthToSend(s) > 0
  PROVE  /\ Offset(s, 1) = 0 /\ Finish(s, SegmentsToSend(s)) = LengthToSend(s)
         /\ \A k \in 1 .. SegmentsToSend(s) :
               /\ Offset(s, k) \in Nat /\ Finish(s, k) \in Nat
               /\ Offset(s, k) < Finish(s, k) /\ Finish(s, k) <= LengthToSend(s)
               /\ Finish(s, k) - Offset(s, k)
                    = Bit(SendsSyn(s) /\ k = 1) + (PayloadBefore(s, k + 1) - PayloadBefore(s, k))
                        + Bit(SendsFin(s) /\ k = SegmentsToSend(s))
         /\ \A k \in 1 .. (SegmentsToSend(s) - 1) : Finish(s, k) = Offset(s, k + 1)
         /\ \A j, k \in 1 .. SegmentsToSend(s) : j < k => Finish(s, j) <= Offset(s, k)
<1> DEFINE N == SegmentsToSend(s)
           P == PayloadToSend(s)
           L == LengthToSend(s)
           y == Bit(SendsSyn(s))
           f == Bit(SendsFin(s))
           B(k) == PayloadBefore(s, k)
<1>1. /\ N \in Nat \ {0} /\ (P = 0 => N = 1)
      /\ B(1) = 0 /\ B(N + 1) = P
      /\ \A k \in 1 .. (N + 1) : B(k) \in 0 .. P
      /\ \A j, k \in 1 .. (N + 1) : j <= k => B(j) <= B(k)
      /\ \A k \in 1 .. N : P > 0 => B(k) < B(k + 1)
  BY PayloadCuts
<1>2. P \in Nat /\ y \in {0, 1} /\ f \in {0, 1} /\ L = y + P + f /\ L > 0
  <2>1. BytesBuffered(s.input) \in Int
    BY SenderTypes DEF GoodSender, BytesBuffered
  <2> QED
    BY <2>1, PushNumbers
<1>3. \A k : Bit(SendsSyn(s) /\ k = 1) = IF k = 1 THEN y ELSE 0
  BY DEF Bit
<1>4. \A k : Bit(SendsFin(s) /\ k = N) = IF k = N THEN f ELSE 0
  BY DEF Bit
<1>5. \A k : /\ Offset(s, k) = IF k = 1 THEN 0 ELSE y + B(k)
             /\ Finish(s, k) = IF k = N THEN L ELSE Offset(s, k + 1)
  BY DEF Offset, Finish
<1> HIDE DEF N, P, L, y, f, B
<1>6. \A k \in 1 .. N : Offset(s, k) \in Nat
  BY <1>1, <1>2, <1>5
<1>7. \A k \in 1 .. N : k # N => k + 1 \in 1 .. N /\ k + 1 # 1
  BY <1>1
<1>8. \A k \in 1 .. N : Finish(s, k) \in Nat /\ Finish(s, k) <= L
  BY <1>1, <1>2, <1>5, <1>7
<1>9. \A k \in 1 .. N :
        Finish(s, k) - Offset(s, k)
          = (IF k = 1 THEN y ELSE 0) + (B(k + 1) - B(k)) + (IF k = N THEN f ELSE 0)
  <2> SUFFICES ASSUME NEW k \in 1 .. N
               PROVE  Finish(s, k) - Offset(s, k)
                        = (IF k = 1 THEN y ELSE 0) + (B(k + 1) - B(k)) + (IF k = N THEN f ELSE 0)
    OBVIOUS
  <2>1. B(k) \in Nat /\ B(k + 1) \in Nat
    BY <1>1, <1>2
  <2>2. CASE k = N
    BY <1>1, <1>2, <1>5, <2>1, <2>2
  <2>3. CASE k # N
    BY <1>1, <1>2, <1>5, <1>7, <2>1, <2>3
  <2> QED
    BY <2>2, <2>3
<1>10. \A k \in 1 .. N : Offset(s, k) < Finish(s, k)
  <2> SUFFICES ASSUME NEW k \in 1 .. N PROVE Offset(s, k) < Finish(s, k)
    OBVIOUS
  <2>1. B(k) \in Nat /\ B(k + 1) \in Nat
    BY <1>1, <1>2
  <2>2. CASE P = 0
    BY <1>1, <1>2, <1>5, <2>2
  <2>3. CASE P > 0
    BY <1>1, <1>2, <1>6, <1>8, <1>9, <2>1, <2>3
  <2> QED
    BY <1>2, <2>2, <2>3
<1>11. \A k \in 1 .. (N - 1) : Finish(s, k) = Offset(s, k + 1)
  BY <1>1, <1>5
<1>12. \A j, k \in 1 .. N : j < k => Finish(s, j) <= Offset(s, k)
  <2> SUFFICES ASSUME NEW j \in 1 .. N, NEW k \in 1 .. N, j < k
               PROVE  Finish(s, j) <= Offset(s, k)
    OBVIOUS
  <2>1. j # N /\ k # 1 /\ j + 1 # 1 /\ j + 1 \in 1 .. (N + 1) /\ k \in 1 .. (N + 1) /\ j + 1 <= k
    BY <1>1
  <2>2. B(j + 1) <= B(k) /\ B(j + 1) \in Nat /\ B(k) \in Nat
    BY <1>1, <1>2, <2>1
  <2> QED
    BY <1>2, <1>5, <2>1, <2>2
<1> QED
  BY <1>1, <1>3, <1>4, <1>5, <1>6, <1>8, <1>9, <1>10, <1>11, <1>12 DEF N, L, y, f, B

(* The segments that push() builds, numbered by their offsets. *)
LEMMA PushedSegments ==
  ASSUME NEW s, GoodSender(s), LengthToSend(s) > 0
  PROVE  /\ PushSegments(s) \in Seq(MessageRecord)
         /\ Len(PushSegments(s)) = SegmentsToSend(s)
         /\ \A k \in 1 .. SegmentsToSend(s) :
               /\ PushSegments(s)[k].seqno = Wrap(s.next_seqno + Offset(s, k), s.isn)
               /\ SequenceLength(PushSegments(s)[k]) = Finish(s, k) - Offset(s, k)
<1> DEFINE N == SegmentsToSend(s)
<1>0. s \in SenderRecord
  BY DEF GoodSender
<1>1. /\ N \in Nat \ {0}
      /\ s.input.pushed \in Seq(Nat) /\ Len(s.input.pushed) \in Nat /\ s.input.popped \in Nat
      /\ s.next_seqno \in Nat /\ s.isn \in Seqno /\ s.input.error \in BOOLEAN
  BY <1>0, PayloadCuts, SenderTypes
<1>2. \A k \in 1 .. N :
        /\ SegmentToSend(s, k) \in MessageRecord
        /\ SegmentToSend(s, k).seqno = Wrap(s.next_seqno + Offset(s, k), s.isn)
        /\ SequenceLength(SegmentToSend(s, k)) = Finish(s, k) - Offset(s, k)
  <2> SUFFICES ASSUME NEW k \in 1 .. N
               PROVE  /\ SegmentToSend(s, k) \in MessageRecord
                      /\ SegmentToSend(s, k).seqno = Wrap(s.next_seqno + Offset(s, k), s.isn)
                      /\ SequenceLength(SegmentToSend(s, k)) = Finish(s, k) - Offset(s, k)
    OBVIOUS
  <2> DEFINE from == s.input.popped + PayloadBefore(s, k) + 1
             to == s.input.popped + PayloadBefore(s, k + 1)
             payload == SubSeq(s.input.pushed, from, to)
             seqno == Wrap(s.next_seqno + Offset(s, k), s.isn)
             m == SegmentToSend(s, k)
  <2>1. /\ PayloadBefore(s, k) \in Nat /\ PayloadBefore(s, k + 1) \in Nat
        /\ PayloadBefore(s, k) <= PayloadBefore(s, k + 1)
        /\ s.input.popped + PayloadBefore(s, k + 1) <= Len(s.input.pushed)
    <3>1. PayloadToSend(s) \in Nat /\ s.input.popped + PayloadToSend(s) <= Len(s.input.pushed)
      <4>1. PayloadToSend(s) \in 0 .. BytesBuffered(s.input)
        BY PushNumbers
      <4> QED
        BY <1>1, <4>1 DEF BytesBuffered
    <3>2. k + 1 \in 1 .. (N + 1) /\ k \in 1 .. (N + 1)
      BY <1>1
    <3>3. /\ PayloadBefore(s, k) \in 0 .. PayloadToSend(s)
          /\ PayloadBefore(s, k + 1) \in 0 .. PayloadToSend(s)
          /\ PayloadBefore(s, k) <= PayloadBefore(s, k + 1)
      BY <3>2, PayloadCuts
    <3> DEFINE a == PayloadBefore(s, k)
               b == PayloadBefore(s, k + 1)
               q == PayloadToSend(s)
               p == s.input.popped
               z == Len(s.input.pushed)
    <3>4. a \in 0 .. q /\ b \in 0 .. q /\ a <= b /\ q \in Nat /\ p \in Nat /\ z \in Nat /\ p + q <= z
      BY <1>1, <3>1, <3>3
    <3> HIDE DEF a, b, q, p, z
    <3>5. a \in Nat /\ b \in Nat /\ a <= b /\ p + b <= z
      BY <3>4
    <3> QED
      BY <3>5 DEF a, b, p, z
  <2>2. /\ from \in Int /\ to \in Int
        /\ \A i \in from .. to : s.input.pushed[i] \in Nat
    <3> HIDE DEF from, to
    <3>1. \A i \in from .. to : i \in 1 .. Len(s.input.pushed)
      <4> DEFINE a == PayloadBefore(s, k)
                 b == PayloadBefore(s, k + 1)
                 p == s.input.popped
                 z == Len(s.input.pushed)
      <4>1. from = p + a + 1 /\ to = p + b
        BY DEF from, to
      <4>2. a \in Nat /\ b \in Nat /\ p \in Nat /\ z \in Nat /\ p + b <= z
        BY <1>1, <2>1
      <4> HIDE DEF a, b, p, z
      <4>3. \A i \in from .. to : i \in 1 .. z
        BY <4>1, <4>2
      <4> QED
        BY <4>3 DEF z
    <3>2. \A i \in 1 .. Len(s.input.pushed) : s.input.pushed[i] \in Nat
      BY <1>1, ElementOfSeq
    <3>3. \A i \in from .. to : s.input.pushed[i] \in Nat
      BY <3>1, <3>2
    <3>4. s.input.popped \in Nat
      BY <1>1
    <3>5. from \in Int /\ to \in Int
      BY <2>1, <3>4 DEF from, to
    <3> QED
      BY <3>3, <3>5
  <2>3. payload \in Seq(Nat) /\ Len(payload) = PayloadBefore(s, k + 1) - PayloadBefore(s, k)
    <3> HIDE DEF from, to
    <3>1. /\ payload \in Seq(Nat)
          /\ Len(payload) = IF from <= to THEN to - from + 1 ELSE 0
      BY <2>2, SubSeqProperties
    <3>2. (IF from <= to THEN to - from + 1 ELSE 0) = PayloadBefore(s, k + 1) - PayloadBefore(s, k)
      <4> DEFINE a == PayloadBefore(s, k)
                 b == PayloadBefore(s, k + 1)
                 p == s.input.popped
      <4>1. from = p + a + 1 /\ to = p + b
        BY DEF from, to
      <4>2. a \in Nat /\ b \in Nat /\ a <= b /\ p \in Nat
        BY <1>1, <2>1
      <4> HIDE DEF a, b, p
      <4>3. (IF from <= to THEN to - from + 1 ELSE 0) = b - a
        BY <4>1, <4>2
      <4> QED
        BY <4>3 DEF a, b
    <3> QED
      BY <3>1, <3>2
  <2>4. m = SenderMessage(seqno, SendsSyn(s) /\ k = 1, payload, SendsFin(s) /\ k = N, s.input.error)
    <3>1. seqno = Wrap(s.next_seqno + (IF k = 1 THEN 0 ELSE Bit(SendsSyn(s))) + PayloadBefore(s, k), s.isn)
      <4>1. s.next_seqno + Offset(s, k)
              = s.next_seqno + (IF k = 1 THEN 0 ELSE Bit(SendsSyn(s))) + PayloadBefore(s, k)
        <5>1. PayloadBefore(s, 1) = 0 /\ Bit(SendsSyn(s)) \in {0, 1}
          BY PayloadCuts, PushNumbers
        <5> QED
          BY <1>1, <2>1, <5>1 DEF Offset
      <4> QED
        BY <1>1, <4>1
    <3> QED
      BY <3>1 DEF SegmentToSend
  <2>5. seqno \in Seqno
    <3>1. s.next_seqno + Offset(s, k) \in Nat
      BY <1>1, OffsetsTile
    <3> QED
      BY <1>1, <3>1, WrapType
  <2> HIDE DEF payload, seqno, from, to, N
  <2>6. /\ m.seqno = seqno /\ m.payload = payload
        /\ m.SYN = (SendsSyn(s) /\ k = 1) /\ m.FIN = (SendsFin(s) /\ k = N)
        /\ m \in MessageRecord
    BY <1>1, <2>3, <2>4, <2>5 DEF SenderMessage, MessageRecord
  <2>7. SequenceLength(m) = Bit(SendsSyn(s) /\ k = 1) + Len(payload) + Bit(SendsFin(s) /\ k = N)
    BY <2>6, LengthIsNatural
  <2>8. SequenceLength(m) = Finish(s, k) - Offset(s, k)
    BY <2>3, <2>7, OffsetsTile DEF N
  <2> QED
    BY <2>6, <2>8 DEF seqno
<1> HIDE DEF N
<1>3. \A k \in 1 .. N : PushSegments(s)[k] = SegmentToSend(s, k)
  BY DEF PushSegments, N
<1>4. PushSegments(s) \in Seq(MessageRecord) /\ Len(PushSegments(s)) = N
  BY <1>1, <1>2 DEF PushSegments, N
<1> QED
  BY <1>2, <1>3, <1>4 DEF N

(* The fields of the sender that push() leaves behind when it sends. *)
LEMMA PushFields ==
  ASSUME NEW s, GoodSender(s), LengthToSend(s) > 0
  PROVE  LET t == SenderPush(s)
         IN  /\ t \in SenderRecord
             /\ t.next_seqno = s.next_seqno + LengthToSend(s)
             /\ t.bytes_in_flight = s.bytes_in_flight + LengthToSend(s)
             /\ t.outstanding = s.outstanding \o PushSegments(s)
             /\ t.syn_sent = TRUE /\ t.fin_sent = (s.fin_sent \/ SendsFin(s))
             /\ t.input.pushed = s.input.pushed /\ t.input.closed = s.input.closed
             /\ t.input.popped = s.input.popped + PayloadToSend(s)
             /\ t.timer.running = TRUE
             /\ t.isn = s.isn /\ t.window_size = s.window_size /\ t.zero_window = s.zero_window
<1> DEFINE t == SenderPush(s)
           input == ReaderPop(s.input, PayloadToSend(s))
           timer == IF s.timer.running THEN s.timer ELSE TimerStart(s.timer)
<1>0. s \in SenderRecord
  BY DEF GoodSender
<1>1. /\ s.input \in InputRecord /\ s.input.popped \in Nat
      /\ s.next_seqno \in Nat /\ s.bytes_in_flight \in Nat /\ s.isn \in Seqno
      /\ s.timer \in TimerRecord /\ Len(s.input.pushed) \in Nat
      /\ s.outstanding \in Seq(MessageRecord)
  BY <1>0, SenderTypes DEF SenderRecord
<1>2. /\ LengthToSend(s) \in Nat /\ LengthToSend(s) # 0
      /\ PayloadToSend(s) \in 0 .. BytesBuffered(s.input)
  BY PushNumbers
<1>3. BytesBuffered(s.input) \in Int
  BY <1>1 DEF BytesBuffered
<1>4. input = [s.input EXCEPT !.popped = @ + PayloadToSend(s)]
  BY <1>2, <1>3 DEF ReaderPop
<1>5. /\ input \in InputRecord
      /\ input.pushed = s.input.pushed /\ input.closed = s.input.closed
      /\ input.popped = s.input.popped + PayloadToSend(s)
  <2>1. PayloadToSend(s) \in Nat
    BY <1>2, <1>3
  <2>2. s.input.popped + PayloadToSend(s) \in Nat
    BY <1>1, <2>1
  <2> HIDE DEF input
  <2> QED
    BY <1>1, <1>4, <2>2 DEF InputRecord
<1>6. timer \in TimerRecord /\ timer.running = TRUE
  <2>1. CASE s.timer.running
    BY <1>1, <2>1 DEF TimerRecord
  <2>2. CASE ~s.timer.running
    BY <1>1, <2>2 DEF TimerRecord, TimerStart
  <2> QED
    BY <2>1, <2>2
<1>7. s.outstanding \o PushSegments(s) \in Seq(MessageRecord)
  BY <1>1, PushedSegments, ConcatProperties
<1>8. t = [s EXCEPT !.input = input,
                    !.next_seqno = @ + LengthToSend(s),
                    !.bytes_in_flight = @ + LengthToSend(s),
                    !.syn_sent = TRUE,
                    !.fin_sent = @ \/ SendsFin(s),
                    !.outstanding = @ \o PushSegments(s),
                    !.timer = timer]
  BY <1>2 DEF SenderPush
<1> HIDE DEF t, input, timer
<1>9. s.next_seqno + LengthToSend(s) \in Nat /\ s.bytes_in_flight + LengthToSend(s) \in Nat
  BY <1>1, <1>2
<1>10. (s.fin_sent \/ SendsFin(s)) \in BOOLEAN
  OBVIOUS
<1>11. t \in SenderRecord
  BY <1>0, <1>5, <1>6, <1>7, <1>8, <1>9, <1>10 DEF SenderRecord
<1>12. /\ t.next_seqno = s.next_seqno + LengthToSend(s)
       /\ t.bytes_in_flight = s.bytes_in_flight + LengthToSend(s)
       /\ t.outstanding = s.outstanding \o PushSegments(s)
       /\ t.syn_sent = TRUE /\ t.fin_sent = (s.fin_sent \/ SendsFin(s))
       /\ t.input = input /\ t.timer = timer
       /\ t.isn = s.isn /\ t.window_size = s.window_size /\ t.zero_window = s.zero_window
  BY <1>0, <1>1, <1>8 DEF SenderRecord
<1> QED
  BY <1>5, <1>6, <1>11, <1>12 DEF t

(* The account of the sequence numbers after push(). *)
LEMMA PushAccounted ==
  ASSUME NEW s, GoodSender(s), LengthToSend(s) > 0
  PROVE  Accounted(SenderPush(s))
<1> DEFINE t == SenderPush(s)
<1>0. s \in SenderRecord /\ Accounted(s)
  BY DEF GoodSender
<1>1. /\ t.next_seqno = s.next_seqno + LengthToSend(s)
      /\ t.syn_sent = TRUE /\ t.fin_sent = (s.fin_sent \/ SendsFin(s))
      /\ t.input.pushed = s.input.pushed /\ t.input.closed = s.input.closed
      /\ t.input.popped = s.input.popped + PayloadToSend(s)
  BY PushFields
<1> HIDE DEF t
<1>2. s.next_seqno \in Nat /\ s.input.popped \in Nat /\ Len(s.input.pushed) \in Nat
  BY <1>0, SenderTypes
<1>3. /\ Budget(s) \in Nat /\ LengthToSend(s) <= Budget(s) /\ LengthToSend(s) \in Nat
      /\ Budget(s) > 0 => ~s.fin_sent
      /\ Bit(SendsSyn(s)) \in {0, 1} /\ Bit(SendsFin(s)) \in {0, 1}
      /\ PayloadToSend(s) \in 0 .. BytesBuffered(s.input)
      /\ LengthToSend(s) = Bit(SendsSyn(s)) + PayloadToSend(s) + Bit(SendsFin(s))
  BY PushNumbers
<1>4. Budget(s) > 0 /\ ~s.fin_sent
  BY <1>3
<1>5. Bit(SendsSyn(s)) + Bit(s.syn_sent) = 1 /\ Bit(s.fin_sent) = 0 /\ Bit(t.syn_sent) = 1
  BY <1>1, <1>4 DEF SendsSyn, Bit
<1>6. Bit(t.fin_sent) = Bit(SendsFin(s))
  BY <1>1, <1>4 DEF Bit
<1>7. s.next_seqno = Bit(s.syn_sent) + s.input.popped + Bit(s.fin_sent)
  BY <1>0 DEF Accounted
<1>8. Bit(s.syn_sent) \in {0, 1}
  BY DEF Bit
<1>9. BytesBuffered(s.input) = Len(s.input.pushed) - s.input.popped
  BY DEF BytesBuffered
<1>10. PayloadToSend(s) \in Nat /\ s.input.popped + PayloadToSend(s) <= Len(s.input.pushed)
  BY <1>2, <1>3, <1>9
<1>11. t.next_seqno = Bit(t.syn_sent) + t.input.popped + Bit(t.fin_sent)
  <2>1. /\ Bit(t.syn_sent) = Bit(SendsSyn(s)) + Bit(s.syn_sent)
        /\ Bit(t.fin_sent) = Bit(SendsFin(s)) /\ Bit(s.fin_sent) = 0
    BY <1>5, <1>6
  <2>2. t.next_seqno = s.next_seqno + LengthToSend(s) /\ t.input.popped = s.input.popped + PayloadToSend(s)
    BY <1>1
  <2> DEFINE a == Bit(t.syn_sent)
             b == Bit(SendsSyn(s))
             c == Bit(s.syn_sent)
             d == Bit(t.fin_sent)
             e == Bit(SendsFin(s))
             z == Bit(s.fin_sent)
  <2>3. /\ a = b + c /\ d = e /\ z = 0
        /\ b \in {0, 1} /\ c \in {0, 1} /\ e \in {0, 1}
        /\ LengthToSend(s) = b + PayloadToSend(s) + e
        /\ s.next_seqno = c + s.input.popped + z
    BY <1>3, <1>7, <1>8, <2>1
  <2> HIDE DEF a, b, c, d, e, z
  <2>4. t.next_seqno = a + t.input.popped + d
    <3> DEFINE p == s.input.popped
               q == PayloadToSend(s)
               L == LengthToSend(s)
    <3>1. p \in Nat /\ q \in Nat
      BY <1>2, <1>10
    <3>2. t.next_seqno = (c + p + z) + L /\ L = b + q + e
      BY <2>2, <2>3
    <3>3. t.input.popped = p + q
      BY <2>2
    <3>4. a = b + c /\ d = e /\ z = 0 /\ b \in Int /\ c \in Int /\ e \in Int
      BY <2>3
    <3> HIDE DEF p, q, L
    <3> QED
      BY <3>1, <3>2, <3>3, <3>4
  <2> QED
    BY <2>4 DEF a, d
<1>12. t.fin_sent => t.input.closed /\ BytesBuffered(t.input) = 0
  <2>1. SendsFin(s) => s.input.closed /\ PayloadToSend(s) = BytesBuffered(s.input)
    BY DEF SendsFin
  <2>2. BytesBuffered(t.input) = Len(s.input.pushed) - (s.input.popped + PayloadToSend(s))
    BY <1>1 DEF BytesBuffered
  <2> QED
    <3>1. t.fin_sent => SendsFin(s)
      BY <1>1, <1>4
    <3>2. SendsFin(s) => BytesBuffered(t.input) = 0
      BY <1>2, <1>9, <1>10, <2>1, <2>2
    <3> QED
      BY <1>1, <2>1, <3>1, <3>2
<1>13. Len(t.input.pushed) + 2 + WinMax < AbsMod
  BY <1>0, <1>1 DEF Accounted
<1> QED
  BY <1>1, <1>10, <1>11, <1>12, <1>13 DEF Accounted, t

(* The segments of a push continue the tiling where it ended               *)
(* (tcp_sender.cc:48-54), and the ones that were there keep their place    *)
(* although next_seqno, from which they are read back, has moved.          *)
LEMMA PushTiles ==
  ASSUME NEW s, GoodSender(s), LengthToSend(s) > 0
  PROVE  /\ TilesFlight(SenderPush(s))
         /\ AbsAck(SenderPush(s)) = AbsAck(s)
         /\ SenderPush(s).next_seqno <= RightEdge(s)
         /\ SenderPush(s).bytes_in_flight <= WinMax
         /\ SenderPush(s).outstanding # <<>>
         /\ Len(SenderPush(s).outstanding) = Len(s.outstanding) + SegmentsToSend(s)
         /\ \A k \in 1 .. Len(s.outstanding) :
               /\ SenderPush(s).outstanding[k] = s.outstanding[k]
               /\ SegmentStart(SenderPush(s), k) = SegmentStart(s, k)
         /\ \A j \in 1 .. SegmentsToSend(s) :
               /\ SenderPush(s).outstanding[Len(s.outstanding) + j] = PushSegments(s)[j]
               /\ SegmentStart(SenderPush(s), Len(s.outstanding) + j) = s.next_seqno + Offset(s, j)
<1> DEFINE t == SenderPush(s)
           o == s.outstanding
           ps == PushSegments(s)
           n == Len(o)
           N == SegmentsToSend(s)
           L == LengthToSend(s)
           next == s.next_seqno
<1>0. s \in SenderRecord /\ TilesFlight(s) /\ Accounted(s)
  BY DEF GoodSender
<1>1. /\ t \in SenderRecord
      /\ t.next_seqno = next + L /\ t.bytes_in_flight = s.bytes_in_flight + L
      /\ t.outstanding = o \o ps /\ t.isn = s.isn
  BY PushFields
<1>2. /\ next \in Nat /\ s.bytes_in_flight \in Nat /\ s.isn \in Seqno
      /\ o \in Seq(MessageRecord) /\ n \in Nat /\ WinMax \in Nat
  BY <1>0, SenderTypes
<1>3. /\ AbsAck(s) \in Nat /\ EffectiveWindow(s) \in 1 .. WinMax
      /\ L \in Nat /\ L > 0 /\ L <= Budget(s) /\ Budget(s) \in Nat
      /\ Budget(s) > 0 => next + Budget(s) = RightEdge(s)
  BY PushNumbers
<1>4. AbsAck(s) = next - s.bytes_in_flight /\ RightEdge(s) = AbsAck(s) + EffectiveWindow(s)
  BY DEF AbsAck, RightEdge
<1>5. next + L <= RightEdge(s) /\ next + L - AbsAck(s) <= WinMax /\ AbsAck(s) <= next
  <2> DEFINE a == AbsAck(s)
             e == RightEdge(s)
             w == EffectiveWindow(s)
             b == Budget(s)
             f == s.bytes_in_flight
  <2>1. /\ a = next - f /\ e = a + w /\ next + b = e
        /\ next \in Nat /\ f \in Nat /\ L \in Nat /\ b \in Nat /\ L <= b
        /\ w \in 1 .. WinMax /\ WinMax \in Nat
    BY <1>2, <1>3, <1>4
  <2> HIDE DEF a, e, w, b, f, next, L
  <2>2. next + L <= e /\ next + L - a <= WinMax /\ a <= next
    BY <2>1
  <2> QED
    BY <2>2 DEF a, e
<1>6. /\ ps \in Seq(MessageRecord) /\ Len(ps) = N /\ N \in Nat \ {0}
      /\ \A j \in 1 .. N : /\ ps[j].seqno = Wrap(next + Offset(s, j), s.isn)
                           /\ SequenceLength(ps[j]) = Finish(s, j) - Offset(s, j)
  BY PushedSegments, PayloadCuts
<1>7. /\ Offset(s, 1) = 0 /\ Finish(s, N) = L
      /\ \A k \in 1 .. N : /\ Offset(s, k) \in Nat /\ Finish(s, k) \in Nat
                           /\ Offset(s, k) < Finish(s, k) /\ Finish(s, k) <= L
      /\ \A k \in 1 .. (N - 1) : Finish(s, k) = Offset(s, k + 1)
      /\ \A j, k \in 1 .. N : j < k => Finish(s, j) <= Offset(s, k)
  BY OffsetsTile
<1>8. next + L < AbsMod
  BY <1>1, PushAccounted, NextBelowAbsMod
<1>9. AbsAck(t) = AbsAck(s) /\ t.bytes_in_flight <= t.next_seqno /\ t.bytes_in_flight <= WinMax
  <2> HIDE DEF t, L, next
  <2>1. AbsAck(t) = (next + L) - (s.bytes_in_flight + L)
    BY <1>1 DEF AbsAck
  <2> DEFINE a == AbsAck(s)
             f == s.bytes_in_flight
  <2>2. /\ a = next - f /\ next + L - a <= WinMax /\ a \in Nat
        /\ next \in Nat /\ f \in Nat /\ L \in Nat /\ WinMax \in Nat
    BY <1>2, <1>3, <1>4, <1>5
  <2>3. AbsAck(t) = (next + L) - (f + L) /\ t.bytes_in_flight = f + L /\ t.next_seqno = next + L
    BY <1>1, <2>1
  <2> HIDE DEF a, f
  <2>4. (next + L) - (f + L) = a /\ f + L <= next + L /\ f + L <= WinMax
    BY <2>2
  <2> QED
    BY <2>3, <2>4 DEF a
<1>10. /\ \A k \in 1 .. n :
             /\ SequenceLength(o[k]) > 0
             /\ o[k].seqno = Wrap(SegmentStart(s, k), s.isn)
             /\ AbsAck(s) <= SegmentStart(s, k) /\ SegmentEnd(s, k) <= next
             /\ SegmentStart(s, k) \in Int /\ SequenceLength(o[k]) \in Nat
             /\ SegmentEnd(s, k) = SegmentStart(s, k) + SequenceLength(o[k])
       /\ n > 0 => SegmentStart(s, 1) = AbsAck(s) /\ SegmentEnd(s, n) = next
       /\ \A k \in 1 .. (n - 1) : SegmentEnd(s, k) = SegmentStart(s, k + 1)
       /\ \A j, k \in 1 .. n : j < k => SegmentEnd(s, j) <= SegmentStart(s, k)
       /\ n = 0 => s.bytes_in_flight = 0
  <2>1. \A k \in 1 .. n : SegmentStart(s, k) \in Int /\ SequenceLength(o[k]) \in Nat
    BY <1>0, SegmentTypes
  <2>2. \A k \in 1 .. n : SegmentEnd(s, k) = SegmentStart(s, k) + SequenceLength(o[k])
    BY DEF SegmentEnd
  <2> QED
    BY <1>0, <1>2, <2>1, <2>2 DEF TilesFlight
<1>11. /\ Len(t.outstanding) = n + N
       /\ \A k \in 1 .. (n + N) : t.outstanding[k] = IF k <= n THEN o[k] ELSE ps[k - n]
  <2> HIDE DEF t, o, ps, L, next
  <2>1. /\ Len(o \o ps) = Len(o) + Len(ps)
        /\ \A k \in 1 .. Len(o) + Len(ps) : (o \o ps)[k] = IF k <= Len(o) THEN o[k] ELSE ps[k - Len(o)]
    BY <1>2, <1>6, ConcatProperties
  <2>2. t.outstanding = o \o ps /\ Len(ps) = N /\ Len(o) = n
    BY <1>1, <1>6
  <2> QED
    BY <2>1, <2>2
<1> HIDE DEF t, o, ps, n, N, L, next
<1>12. \A k \in 1 .. n : SegmentStart(t, k) = SegmentStart(s, k) /\ SegmentEnd(t, k) = SegmentEnd(s, k)
  <2> SUFFICES ASSUME NEW k \in 1 .. n
               PROVE  SegmentStart(t, k) = SegmentStart(s, k) /\ SegmentEnd(t, k) = SegmentEnd(s, k)
    OBVIOUS
  <2>1. t.outstanding[k] = o[k]
    BY <1>2, <1>6, <1>11
  <2>2. /\ SegmentStart(s, k) \in Nat /\ SegmentStart(s, k) <= next + L
        /\ next + L - SegmentStart(s, k) <= WinMax /\ next + L \in Nat
    <3>1. /\ AbsAck(s) <= SegmentStart(s, k) /\ SegmentEnd(s, k) <= next
          /\ SegmentStart(s, k) \in Int /\ SequenceLength(o[k]) \in Nat
          /\ SegmentEnd(s, k) = SegmentStart(s, k) + SequenceLength(o[k])
      BY <1>10
    <3> DEFINE a == AbsAck(s)
               x == SegmentStart(s, k)
               y == SegmentEnd(s, k)
               l == SequenceLength(o[k])
    <3>2. /\ a <= x /\ y <= next /\ x \in Int /\ l \in Nat /\ y = x + l
          /\ a \in Nat /\ next \in Nat /\ L \in Nat /\ WinMax \in Nat /\ next + L - a <= WinMax
      BY <1>2, <1>3, <1>5, <3>1
    <3> HIDE DEF a, x, y, l, next, L
    <3>3. x \in Nat /\ x <= next + L /\ next + L - x <= WinMax /\ next + L \in Nat
      BY <3>2
    <3> QED
      BY <3>3 DEF x
  <2>3. Unwrap(Wrap(SegmentStart(s, k), s.isn), s.isn, next + L) = SegmentStart(s, k)
    BY <1>2, <1>3, <1>8, <2>2, ReadBack
  <2>4. SegmentStart(t, k) = SegmentStart(s, k)
    BY <1>1, <1>10, <2>1, <2>3 DEF SegmentStart
  <2> QED
    BY <1>10, <2>1, <2>4 DEF SegmentEnd
<1>13. \A j \in 1 .. N : /\ SegmentStart(t, n + j) = next + Offset(s, j)
                        /\ SegmentEnd(t, n + j) = next + Finish(s, j)
                        /\ t.outstanding[n + j] = ps[j]
  <2> SUFFICES ASSUME NEW j \in 1 .. N
               PROVE  /\ SegmentStart(t, n + j) = next + Offset(s, j)
                      /\ SegmentEnd(t, n + j) = next + Finish(s, j)
                      /\ t.outstanding[n + j] = ps[j]
    OBVIOUS
  <2>1. n + j \in 1 .. (n + N) /\ ~(n + j <= n) /\ (n + j) - n = j
    BY <1>2, <1>6
  <2>2. t.outstanding[n + j] = ps[j]
    BY <1>11, <2>1
  <2>3. /\ next + Offset(s, j) \in Nat /\ next + Offset(s, j) <= next + L
        /\ (next + L) - (next + Offset(s, j)) <= WinMax /\ next + L \in Nat
    <3> HIDE DEF next, L, N
    <3>1. Offset(s, j) \in Nat /\ Finish(s, j) \in Nat /\ Offset(s, j) <= Finish(s, j) /\ Finish(s, j) <= L
      BY <1>7
    <3>2. next \in Nat /\ L \in Nat /\ AbsAck(s) \in Int /\ WinMax \in Nat
      BY <1>2, <1>3, <1>4
    <3> QED
      BY <1>5, <3>1, <3>2
  <2>4. Unwrap(Wrap(next + Offset(s, j), s.isn), s.isn, next + L) = next + Offset(s, j)
    BY <1>2, <1>8, <2>3, ReadBack
  <2>5. SegmentStart(t, n + j) = next + Offset(s, j)
    BY <1>1, <1>6, <2>2, <2>4 DEF SegmentStart
  <2>6. SegmentEnd(t, n + j) = next + Offset(s, j) + (Finish(s, j) - Offset(s, j))
    BY <1>6, <2>2, <2>5 DEF SegmentEnd
  <2> QED
    BY <1>2, <1>7, <2>2, <2>5, <2>6
<1>14. n + N > 0 /\ SegmentStart(t, 1) = AbsAck(t) /\ SegmentEnd(t, n + N) = t.next_seqno
  <2>1. SegmentEnd(t, n + N) = next + L
    BY <1>6, <1>7, <1>13
  <2>2. CASE n = 0
    <3>1. SegmentStart(t, n + 1) = next + 0
      BY <1>6, <1>7, <1>13
    <3>2. n + 1 = 1
      BY <2>2
    <3> QED
      BY <1>1, <1>2, <1>3, <1>4, <1>6, <1>9, <1>10, <2>1, <2>2, <3>1, <3>2
  <2>3. CASE n > 0
    BY <1>1, <1>2, <1>6, <1>9, <1>10, <1>12, <2>1, <2>3
  <2> QED
    BY <1>2, <2>2, <2>3
<1>15. \A k \in 1 .. (n + N) : k <= n \/ (k - n \in 1 .. N /\ k = n + (k - n))
  BY <1>2, <1>6
<1>16. \A k \in 1 .. (n + N) :
         /\ SequenceLength(t.outstanding[k]) > 0
         /\ t.outstanding[k].seqno = Wrap(SegmentStart(t, k), s.isn)
         /\ AbsAck(t) <= SegmentStart(t, k) /\ SegmentEnd(t, k) <= t.next_seqno
  <2> SUFFICES ASSUME NEW k \in 1 .. (n + N)
               PROVE  /\ SequenceLength(t.outstanding[k]) > 0
                      /\ t.outstanding[k].seqno = Wrap(SegmentStart(t, k), s.isn)
                      /\ AbsAck(t) <= SegmentStart(t, k) /\ SegmentEnd(t, k) <= t.next_seqno
    OBVIOUS
  <2>1. CASE k <= n
    <3>1. k \in 1 .. n
      BY <1>2, <1>6, <2>1
    <3> QED
      <4>1. t.outstanding[k] = o[k]
        BY <1>11, <2>1
      <4>2. SegmentStart(t, k) = SegmentStart(s, k) /\ SegmentEnd(t, k) = SegmentEnd(s, k)
        BY <1>12, <3>1
      <4>3. /\ SequenceLength(o[k]) > 0 /\ o[k].seqno = Wrap(SegmentStart(s, k), s.isn)
            /\ AbsAck(s) <= SegmentStart(s, k) /\ SegmentEnd(s, k) <= next
            /\ SegmentEnd(s, k) \in Int
        BY <1>10, <3>1
      <4>4. SegmentEnd(s, k) <= next + L
        BY <1>2, <1>3, <4>3
      <4> QED
        BY <1>1, <1>9, <4>1, <4>2, <4>3, <4>4
  <2>2. ASSUME NEW j \in 1 .. N, k = n + j
        PROVE  /\ SequenceLength(t.outstanding[k]) > 0
               /\ t.outstanding[k].seqno = Wrap(SegmentStart(t, k), s.isn)
               /\ AbsAck(t) <= SegmentStart(t, k) /\ SegmentEnd(t, k) <= t.next_seqno
    <3>1. /\ SegmentStart(t, k) = next + Offset(s, j) /\ SegmentEnd(t, k) = next + Finish(s, j)
          /\ t.outstanding[k] = ps[j]
      BY <1>13, <2>2
    <3>2. /\ ps[j].seqno = Wrap(next + Offset(s, j), s.isn)
          /\ SequenceLength(ps[j]) = Finish(s, j) - Offset(s, j)
      BY <1>6
    <3>3. /\ Offset(s, j) \in Nat /\ Finish(s, j) \in Nat
          /\ Offset(s, j) < Finish(s, j) /\ Finish(s, j) <= L
      BY <1>7
    <3>4. Finish(s, j) - Offset(s, j) > 0
      BY <3>3
    <3>5. AbsAck(t) <= next + Offset(s, j) /\ next + Finish(s, j) <= next + L
      <4> DEFINE a == AbsAck(s)
                 x == Offset(s, j)
                 y == Finish(s, j)
      <4>1. /\ x \in Nat /\ y \in Nat /\ y <= L /\ a <= next
            /\ a \in Nat /\ next \in Nat /\ L \in Nat
        BY <1>2, <1>3, <1>5, <3>3
      <4> HIDE DEF a, x, y, next, L
      <4>2. a <= next + x /\ next + y <= next + L
        BY <4>1
      <4> QED
        BY <1>9, <4>2 DEF a, x, y
    <3> QED
      BY <1>1, <3>1, <3>2, <3>4, <3>5
  <2> QED
    BY <1>15, <2>1, <2>2
<1>17. \A k \in 1 .. (n + N - 1) : SegmentEnd(t, k) = SegmentStart(t, k + 1)
  <2> SUFFICES ASSUME NEW k \in 1 .. (n + N - 1)
               PROVE  SegmentEnd(t, k) = SegmentStart(t, k + 1)
    OBVIOUS
  <2>1. CASE k < n
    BY <1>2, <1>6, <1>10, <1>12, <2>1
  <2>2. CASE k = n
    BY <1>2, <1>6, <1>7, <1>10, <1>12, <1>13, <2>2
  <2>3. CASE k > n
    <3> DEFINE j == k - n
    <3>1. j \in 1 .. (N - 1) /\ j \in 1 .. N /\ j + 1 \in 1 .. N /\ k = n + j /\ k + 1 = n + (j + 1)
      BY <1>2, <1>6, <2>3
    <3> HIDE DEF j
    <3> QED
      BY <1>7, <1>13, <3>1
  <2> QED
    BY <1>2, <1>6, <2>1, <2>2, <2>3
<1>18. \A j, k \in 1 .. (n + N) : j < k => SegmentEnd(t, j) <= SegmentStart(t, k)
  <2> SUFFICES ASSUME NEW j \in 1 .. (n + N), NEW k \in 1 .. (n + N), j < k
               PROVE  SegmentEnd(t, j) <= SegmentStart(t, k)
    OBVIOUS
  <2>1. CASE k <= n
    <3>1. j \in 1 .. n /\ k \in 1 .. n
      BY <1>2, <1>6, <2>1
    <3> QED
      BY <1>10, <1>12, <3>1
  <2>2. ASSUME NEW i \in 1 .. N, k = n + i PROVE SegmentEnd(t, j) <= SegmentStart(t, k)
    <3>1. CASE j <= n
      <4>1. j \in 1 .. n
        BY <1>2, <1>6, <3>1
      <4>2. SegmentEnd(t, j) <= next /\ SegmentEnd(t, j) \in Int
        BY <1>10, <1>12, <4>1
      <4> QED
        BY <1>2, <1>7, <1>13, <2>2, <4>2
    <3>2. ASSUME NEW h \in 1 .. N, j = n + h PROVE SegmentEnd(t, j) <= SegmentStart(t, k)
      <4>1. h < i
        BY <1>2, <2>2, <3>2
      <4> QED
        BY <1>2, <1>7, <1>13, <2>2, <3>2, <4>1
    <3> QED
      BY <1>15, <3>1, <3>2
  <2> QED
    BY <1>15, <2>1, <2>2
<1>19. TilesFlight(t)
  BY <1>1, <1>2, <1>6, <1>9, <1>11, <1>14, <1>16, <1>17, <1>18 DEF TilesFlight
<1>20. t.outstanding # <<>>
  <2>1. Len(t.outstanding) # 0
    BY <1>2, <1>6, <1>11
  <2> QED
    BY <2>1
<1>21. \A k \in 1 .. n : t.outstanding[k] = o[k] /\ SegmentStart(t, k) = SegmentStart(s, k)
  BY <1>2, <1>6, <1>11, <1>12
<1> QED
  BY <1>1, <1>5, <1>9, <1>11, <1>13, <1>19, <1>20, <1>21 DEF t, L, next, n, N, o, ps

(* push() keeps the invariant, uses numbers only inside the window, and    *)
(* leaves the left edge alone.                                             *)
LEMMA PushKeepsGood ==
  ASSUME NEW s, GoodSender(s)
  PROVE  /\ GoodSender(SenderPush(s))
         /\ AbsAck(SenderPush(s)) = AbsAck(s)
         /\ SenderPush(s).next_seqno > s.next_seqno => SenderPush(s).next_seqno <= RightEdge(s)
<1>1. LengthToSend(s) \in Nat
  BY PushNumbers
<1>2. CASE LengthToSend(s) = 0
  <2>1. SenderPush(s) = s
    BY <1>2 DEF SenderPush
  <2>2. s.next_seqno \in Nat
    BY SenderTypes DEF GoodSender
  <2> QED
    BY <2>1, <2>2
<1>3. CASE LengthToSend(s) > 0
  <2> DEFINE t == SenderPush(s)
  <2>1. /\ t \in SenderRecord /\ t.timer.running = TRUE
        /\ t.window_size = s.window_size /\ t.zero_window = s.zero_window
    BY <1>3, PushFields
  <2>2. /\ TilesFlight(t) /\ AbsAck(t) = AbsAck(s) /\ t.next_seqno <= RightEdge(s)
        /\ t.bytes_in_flight <= WinMax /\ t.outstanding # <<>>
    BY <1>3, PushTiles
  <2>3. Accounted(t)
    BY <1>3, PushAccounted
  <2> HIDE DEF t
  <2>4. TimerRunsWithFlight(t)
    BY <2>1, <2>2 DEF TimerRunsWithFlight
  <2>5. t.zero_window <=> (t.window_size = 0)
    BY <2>1 DEF GoodSender
  <2>6. GoodSender(t)
    BY <2>1, <2>2, <2>3, <2>4, <2>5 DEF GoodSender
  <2> QED
    BY <2>2, <2>6 DEF t
<1> QED
  BY <1>1, <1>2, <1>3

-----------------------------------------------------------------------------
(* receive() *)

(* The loop of receive() stops at a definite place. *)
LEMMA AckedCountFound ==
  ASSUME NEW s, s \in SenderRecord, NEW a \in Int
  PROVE  /\ AckedCount(s, a) \in 0 .. Len(s.outstanding)
         /\ \A k \in 1 .. AckedCount(s, a) : SegmentEnd(s, k) <= a
         /\ AckedCount(s, a) < Len(s.outstanding) => SegmentEnd(s, AckedCount(s, a) + 1) > a
<1> DEFINE n == Len(s.outstanding)
           T == {k \in 1 .. n : SegmentEnd(s, k) <= a}
<1>1. n \in Nat
  BY SenderTypes
<1>2. PICK m \in 0 .. n : (\A k \in 1 .. m : k \in T) /\ (m < n => m + 1 \notin T)
  BY <1>1, LoopStops
<1>3. m < n => SegmentEnd(s, m + 1) > a
  <2> SUFFICES ASSUME m < n PROVE SegmentEnd(s, m + 1) > a
    OBVIOUS
  <2>1. m + 1 \in 1 .. n
    BY <1>1, <1>2
  <2>2. SegmentEnd(s, m + 1) \in Int /\ ~(SegmentEnd(s, m + 1) <= a)
    BY <1>2, <2>1, SegmentTypes
  <2> QED
    BY <2>2
<1> DEFINE Stops(i) == /\ \A k \in 1 .. i : SegmentEnd(s, k) <= a
                       /\ i < n => SegmentEnd(s, i + 1) > a
<1>4. \E i \in 0 .. n : Stops(i)
  BY <1>2, <1>3
<1>5. AckedCount(s, a) = CHOOSE i \in 0 .. n : Stops(i)
  BY DEF AckedCount
<1> HIDE DEF Stops, n
<1>6. AckedCount(s, a) \in 0 .. n /\ Stops(AckedCount(s, a))
  BY <1>4, <1>5
<1> QED
  BY <1>6 DEF Stops, n

(* Nothing is dropped where the queue and the numbering are untouched. *)
LEMMA SameSegments ==
  ASSUME NEW s, NEW t, s \in SenderRecord, t \in SenderRecord,
         t.isn = s.isn, t.outstanding = s.outstanding, t.next_seqno = s.next_seqno, t.fin_sent = s.fin_sent,
         s.fin_sent => t.input.pushed = s.input.pushed,
         Len(t.input.pushed) >= Len(s.input.pushed),
         \A i \in 1 .. Len(s.input.pushed) : t.input.pushed[i] = s.input.pushed[i]
  PROVE  Drops(s, t, 0)
<1>1. Len(s.outstanding) \in Nat
  BY SenderTypes
<1>2. \A k : SegmentStart(t, k) = SegmentStart(s, k)
  BY <1>1 DEF SegmentStart
<1>3. \A k \in 1 .. (Len(s.outstanding) - 0) : 0 + k = k
  BY <1>1
<1>4. Len(t.outstanding) = Len(s.outstanding) - 0
  BY <1>1
<1> QED
  BY <1>2, <1>3, <1>4 DEF Drops

(* Dropping any number of segments from the front of the queue leaves a    *)
(* tiling of what is then in flight, and moves the left edge forward       *)
(* (tcp_sender.cc:96-115).                                                 *)
LEMMA PopKeepsGood ==
  ASSUME NEW s, GoodSender(s), NEW c \in 0 .. Len(s.outstanding)
  PROVE  /\ GoodSender(PopAcked(s, c))
         /\ PopAcked(s, c).next_seqno = s.next_seqno
         /\ AbsAck(PopAcked(s, c)) >= AbsAck(s)
         /\ c # 0 => AbsAck(PopAcked(s, c)) = SegmentEnd(s, c)
         /\ Drops(s, PopAcked(s, c), c)
<1> DEFINE t == PopAcked(s, c)
           o == s.outstanding
           n == Len(o)
           timer == IF c = n THEN TimerStop(TimerResetBackoff(s.timer))
                    ELSE TimerStart(TimerResetBackoff(s.timer))
<1>0. s \in SenderRecord /\ TilesFlight(s)
  BY DEF GoodSender
<1>1. /\ s.next_seqno \in Nat /\ s.bytes_in_flight \in Nat /\ s.isn \in Seqno /\ AbsAck(s) \in Nat
      /\ o \in Seq(MessageRecord) /\ n \in Nat /\ s.timer \in TimerRecord
      /\ AbsAck(s) = s.next_seqno - s.bytes_in_flight
  BY <1>0, SenderTypes, PushNumbers DEF AbsAck
<1>2. CASE c = 0
  <2>1. Drops(s, s, 0)
    BY <1>0, SameSegments
  <2> QED
    BY <1>1, <1>2, <2>1 DEF PopAcked
<1>3. CASE c # 0
  <2>0. c \in 1 .. n
    BY <1>1, <1>3
  <2>1. /\ SegmentStart(s, 1) = AbsAck(s) /\ SegmentEnd(s, n) = s.next_seqno
        /\ \A k \in 1 .. n :
              /\ SequenceLength(o[k]) > 0
              /\ o[k].seqno = Wrap(SegmentStart(s, k), s.isn)
              /\ AbsAck(s) <= SegmentStart(s, k) /\ SegmentEnd(s, k) <= s.next_seqno
              /\ SegmentStart(s, k) \in Int /\ SegmentEnd(s, k) \in Int
              /\ SegmentEnd(s, k) > SegmentStart(s, k)
        /\ \A k \in 1 .. (n - 1) : SegmentEnd(s, k) = SegmentStart(s, k + 1)
        /\ \A j, k \in 1 .. n : j < k => SegmentEnd(s, j) <= SegmentStart(s, k)
    <3>1. \A k \in 1 .. n : /\ SegmentStart(s, k) \in Int /\ SegmentEnd(s, k) \in Int
                            /\ SequenceLength(o[k]) \in Nat
      BY <1>0, SegmentTypes
    <3>2. \A k \in 1 .. n : SegmentEnd(s, k) = SegmentStart(s, k) + SequenceLength(o[k])
      BY DEF SegmentEnd
    <3>3. n > 0
      BY <1>1, <2>0
    <3>4. \A k \in 1 .. n : SequenceLength(o[k]) > 0
      BY <1>0 DEF TilesFlight
    <3>5. \A k \in 1 .. n : SegmentEnd(s, k) > SegmentStart(s, k)
      <4> SUFFICES ASSUME NEW k \in 1 .. n PROVE SegmentEnd(s, k) > SegmentStart(s, k)
        OBVIOUS
      <4> DEFINE a == SegmentStart(s, k)
                 e == SegmentEnd(s, k)
                 l == SequenceLength(o[k])
      <4>1. a \in Int /\ l \in Nat /\ e = a + l /\ l > 0
        BY <3>1, <3>2, <3>4
      <4> HIDE DEF a, e, l
      <4>2. e > a
        BY <4>1
      <4> QED
        BY <4>2 DEF a, e
    <3> QED
      BY <1>0, <1>1, <3>1, <3>3, <3>4, <3>5 DEF TilesFlight
  <2> DEFINE left == SegmentEnd(s, c)
             flight == s.bytes_in_flight - AckedLength(s, c)
             rest == SubSeq(o, c + 1, n)
  <2>2. /\ left \in Nat /\ AbsAck(s) < left /\ left <= s.next_seqno
        /\ flight = s.next_seqno - left /\ flight \in Nat /\ flight <= s.bytes_in_flight
    <3>1. AckedLength(s, c) = left - AbsAck(s)
      BY <1>3, <2>1 DEF AckedLength
    <3>2. left \in Int /\ left <= s.next_seqno /\ AbsAck(s) < left
      BY <1>1, <2>0, <2>1
    <3> HIDE DEF left
    <3> QED
      BY <1>1, <3>1, <3>2
  <2>3. /\ rest \in Seq(MessageRecord) /\ Len(rest) = n - c
        /\ \A k \in 1 .. (n - c) : rest[k] = o[c + k]
    <3>1. \A i \in (c + 1) .. n : o[i] \in MessageRecord
      BY <1>1, <2>0, ElementOfSeq
    <3>2. /\ rest \in Seq(MessageRecord)
          /\ Len(rest) = IF c + 1 <= n THEN n - (c + 1) + 1 ELSE 0
          /\ \A i \in 1 .. (n - (c + 1) + 1) : rest[i] = o[(c + 1) + i - 1]
      BY <1>1, <2>0, <3>1, SubSeqProperties
    <3> HIDE DEF rest, o, n
    <3>3. Len(rest) = n - c
      BY <1>1, <2>0, <3>2
    <3>4. \A k \in 1 .. (n - c) : rest[k] = o[c + k]
      <4> SUFFICES ASSUME NEW k \in 1 .. (n - c) PROVE rest[k] = o[c + k]
        OBVIOUS
      <4>1. k \in 1 .. (n - (c + 1) + 1) /\ (c + 1) + k - 1 = c + k
        BY <1>1, <2>0
      <4> QED
        BY <3>2, <4>1
    <3> QED
      BY <3>2, <3>3, <3>4
  <2>4. timer \in TimerRecord /\ (timer.running <=> c # n)
    <3>1. CASE c = n
      BY <1>1, <3>1, WindowAssumption DEF TimerRecord, TimerStop, TimerResetBackoff
    <3>2. CASE c # n
      BY <1>1, <3>2, WindowAssumption DEF TimerRecord, TimerStart, TimerResetBackoff
    <3> QED
      BY <3>1, <3>2
  <2>5. t = [s EXCEPT !.outstanding = rest, !.bytes_in_flight = flight, !.timer = timer]
    BY <1>3 DEF PopAcked
  <2> HIDE DEF rest, flight, timer, t
  <2>6. /\ t \in SenderRecord
        /\ t.outstanding = rest /\ t.bytes_in_flight = flight /\ t.timer = timer
        /\ t.next_seqno = s.next_seqno /\ t.isn = s.isn /\ t.input = s.input
        /\ t.syn_sent = s.syn_sent /\ t.fin_sent = s.fin_sent
        /\ t.window_size = s.window_size /\ t.zero_window = s.zero_window
    BY <1>0, <1>1, <2>2, <2>3, <2>4, <2>5 DEF SenderRecord
  <2>7. AbsAck(t) = left
    <3> HIDE DEF left
    <3> QED
      BY <1>1, <2>2, <2>6 DEF AbsAck
  <2>8. \A k \in 1 .. (n - c) :
          /\ c + k \in 1 .. n /\ t.outstanding[k] = o[c + k]
          /\ SegmentStart(t, k) = SegmentStart(s, c + k) /\ SegmentEnd(t, k) = SegmentEnd(s, c + k)
    <3> SUFFICES ASSUME NEW k \in 1 .. (n - c)
                 PROVE  /\ c + k \in 1 .. n /\ t.outstanding[k] = o[c + k]
                        /\ SegmentStart(t, k) = SegmentStart(s, c + k)
                        /\ SegmentEnd(t, k) = SegmentEnd(s, c + k)
      OBVIOUS
    <3>1. c + k \in 1 .. n /\ t.outstanding[k] = o[c + k]
      BY <1>1, <2>0, <2>3, <2>6
    <3>2. SegmentStart(t, k) = SegmentStart(s, c + k)
      BY <1>1, <2>6, <3>1 DEF SegmentStart
    <3> QED
      BY <3>1, <3>2 DEF SegmentEnd
  <2>9. TilesFlight(t)
    <3> HIDE DEF left, o, n
    <3>1. Len(t.outstanding) = n - c /\ t.bytes_in_flight <= t.next_seqno
      BY <1>1, <2>2, <2>3, <2>6
    <3>2. n - c = 0 => t.bytes_in_flight = 0
      <4> SUFFICES ASSUME n - c = 0 PROVE flight = 0
        BY <2>6
      <4>1. c = n
        BY <1>1, <2>0
      <4>2. left = s.next_seqno
        BY <2>1, <4>1 DEF left
      <4> QED
        BY <1>1, <2>2, <4>2
    <3>3. n - c > 0 => SegmentStart(t, 1) = AbsAck(t) /\ SegmentEnd(t, n - c) = t.next_seqno
      <4> SUFFICES ASSUME n - c > 0
                   PROVE  SegmentStart(t, 1) = AbsAck(t) /\ SegmentEnd(t, n - c) = t.next_seqno
        OBVIOUS
      <4>1. 1 \in 1 .. (n - c) /\ n - c \in 1 .. (n - c) /\ c + (n - c) = n /\ c \in 1 .. (n - 1)
        BY <1>1, <2>0
      <4>2. SegmentStart(t, 1) = SegmentStart(s, c + 1) /\ SegmentEnd(t, n - c) = SegmentEnd(s, n)
        BY <2>8, <4>1
      <4>3. left = SegmentStart(s, c + 1)
        BY <2>1, <4>1 DEF left
      <4> QED
        BY <2>1, <2>6, <2>7, <4>2, <4>3
    <3>4. \A k \in 1 .. (n - c) :
            /\ SequenceLength(t.outstanding[k]) > 0
            /\ t.outstanding[k].seqno = Wrap(SegmentStart(t, k), t.isn)
            /\ AbsAck(t) <= SegmentStart(t, k) /\ SegmentEnd(t, k) <= t.next_seqno
      <4> SUFFICES ASSUME NEW k \in 1 .. (n - c)
                   PROVE  /\ SequenceLength(t.outstanding[k]) > 0
                          /\ t.outstanding[k].seqno = Wrap(SegmentStart(t, k), t.isn)
                          /\ AbsAck(t) <= SegmentStart(t, k) /\ SegmentEnd(t, k) <= t.next_seqno
        OBVIOUS
      <4>1. /\ c + k \in 1 .. n /\ t.outstanding[k] = o[c + k]
            /\ SegmentStart(t, k) = SegmentStart(s, c + k) /\ SegmentEnd(t, k) = SegmentEnd(s, c + k)
        BY <2>8
      <4>2. c < c + k
        BY <1>1, <2>0
      <4>3. left <= SegmentStart(s, c + k)
        BY <2>0, <2>1, <4>1, <4>2 DEF left
      <4> QED
        BY <2>1, <2>6, <2>7, <4>1, <4>3
    <3>5. \A k \in 1 .. (n - c - 1) : SegmentEnd(t, k) = SegmentStart(t, k + 1)
      <4> SUFFICES ASSUME NEW k \in 1 .. (n - c - 1)
                   PROVE  SegmentEnd(t, k) = SegmentStart(t, k + 1)
        OBVIOUS
      <4>1. /\ k \in 1 .. (n - c) /\ k + 1 \in 1 .. (n - c) /\ c + k \in 1 .. (n - 1)
            /\ c + (k + 1) = (c + k) + 1
        BY <1>1, <2>0
      <4> QED
        BY <2>1, <2>8, <4>1
    <3>6. \A j, k \in 1 .. (n - c) : j < k => SegmentEnd(t, j) <= SegmentStart(t, k)
      <4> SUFFICES ASSUME NEW j \in 1 .. (n - c), NEW k \in 1 .. (n - c), j < k
                   PROVE  SegmentEnd(t, j) <= SegmentStart(t, k)
        OBVIOUS
      <4>1. c + j < c + k /\ c + j \in 1 .. n /\ c + k \in 1 .. n
        BY <1>1, <2>0
      <4> QED
        BY <2>1, <2>8, <4>1
    <3> QED
      BY <3>1, <3>2, <3>3, <3>4, <3>5, <3>6 DEF TilesFlight
  <2>10. TimerRunsWithFlight(t)
    <3>1. rest # <<>> <=> c # n
      <4>1. rest = <<>> <=> Len(rest) = 0
        BY <2>3, EmptySeq
      <4> HIDE DEF o, n
      <4> QED
        BY <1>1, <2>0, <2>3, <4>1
    <3> QED
      BY <2>4, <2>6, <3>1 DEF TimerRunsWithFlight
  <2>11. Accounted(t)
    BY <2>6 DEF GoodSender, Accounted
  <2>12. t.bytes_in_flight <= WinMax /\ (t.zero_window <=> (t.window_size = 0))
    <3>1. s.bytes_in_flight <= WinMax /\ WinMax \in Nat /\ (s.zero_window <=> (s.window_size = 0))
      BY WindowAssumption DEF GoodSender
    <3> HIDE DEF left
    <3> QED
      BY <1>1, <2>2, <2>6, <3>1
  <2>13. GoodSender(t)
    BY <2>6, <2>9, <2>10, <2>11, <2>12 DEF GoodSender
  <2>14. AbsAck(t) >= AbsAck(s)
    BY <1>1, <2>2, <2>7
  <2>15. Drops(s, t, c)
    <3>1. t.input = s.input /\ t.fin_sent = s.fin_sent /\ Len(s.input.pushed) \in Nat
      BY <1>0, <2>6, SenderTypes
    <3> QED
      BY <2>3, <2>6, <2>8, <3>1 DEF Drops
  <2> QED
    BY <2>6, <2>7, <2>13, <2>14, <2>15 DEF t
<1> QED
  BY <1>2, <1>3

(* The tiling does not depend on the stream, the timer or the window. *)
LEMMA SameFlight ==
  ASSUME NEW s, NEW t, s \in SenderRecord, t \in SenderRecord, TilesFlight(s),
         t.isn = s.isn, t.outstanding = s.outstanding, t.next_seqno = s.next_seqno,
         t.bytes_in_flight = s.bytes_in_flight
  PROVE  TilesFlight(t) /\ AbsAck(t) = AbsAck(s)
<1>2. \A k : SegmentStart(t, k) = SegmentStart(s, k)
  BY DEF SegmentStart
<1>3. \A k : SegmentEnd(t, k) = SegmentEnd(s, k)
  BY <1>2 DEF SegmentEnd
<1>4. AbsAck(t) = AbsAck(s)
  BY DEF AbsAck
<1> QED
  BY <1>2, <1>3, <1>4, Zenon DEF TilesFlight

(* A reset empties the flight (tcp_sender.cc:77-83). *)
LEMMA ResetKeepsGood ==
  ASSUME NEW s, GoodSender(s)
  PROVE  /\ GoodSender(SenderReset(s))
         /\ SenderReset(s).next_seqno = s.next_seqno
         /\ AbsAck(SenderReset(s)) >= AbsAck(s)
         /\ Drops(s, SenderReset(s), Len(s.outstanding))
<1> DEFINE t == SenderReset(s)
<1>0. s \in SenderRecord /\ AbsAck(s) \in Nat
  BY PushNumbers DEF GoodSender
<1>1. s.next_seqno \in Nat /\ s.bytes_in_flight \in Nat /\ s.input \in InputRecord
      /\ s.timer \in TimerRecord
  BY <1>0 DEF SenderRecord
<1>2. SetError(s.input) \in InputRecord
  BY <1>1 DEF InputRecord, SetError
<1>3. TimerStop(s.timer) \in TimerRecord /\ TimerStop(s.timer).running = FALSE
  BY <1>1 DEF TimerRecord, TimerStop
<1>4. <<>> \in Seq(MessageRecord)
  BY EmptySeq
<1>5. /\ t \in SenderRecord
      /\ t.outstanding = <<>> /\ t.bytes_in_flight = 0 /\ t.timer = TimerStop(s.timer)
      /\ t.input = SetError(s.input) /\ t.next_seqno = s.next_seqno
      /\ t.syn_sent = s.syn_sent /\ t.fin_sent = s.fin_sent
      /\ t.window_size = s.window_size /\ t.zero_window = s.zero_window
  BY <1>0, <1>2, <1>3, <1>4 DEF SenderRecord, SenderReset
<1>6. /\ t.input.pushed = s.input.pushed /\ t.input.popped = s.input.popped
      /\ t.input.closed = s.input.closed
  BY <1>1, <1>5 DEF SetError, InputRecord
<1> HIDE DEF t
<1>7. TilesFlight(t)
  <2>1. Len(t.outstanding) = 0
    BY <1>5
  <2> QED
    BY <1>1, <1>5, <2>1 DEF TilesFlight
<1>8. TimerRunsWithFlight(t)
  BY <1>3, <1>5 DEF TimerRunsWithFlight
<1>9. Accounted(t)
  BY <1>5, <1>6 DEF GoodSender, Accounted, BytesBuffered
<1>10. t.bytes_in_flight <= WinMax /\ (t.zero_window <=> (t.window_size = 0))
  BY <1>5, WindowAssumption DEF GoodSender
<1>11. AbsAck(t) >= AbsAck(s)
  BY <1>1, <1>5 DEF AbsAck
<1>12. Drops(s, t, Len(s.outstanding))
  <2>1. Len(s.outstanding) \in Nat /\ Len(s.input.pushed) \in Nat /\ Len(t.outstanding) = 0
    BY <1>0, <1>5, SenderTypes
  <2> QED
    BY <1>5, <1>6, <2>1 DEF Drops
<1> QED
  BY <1>5, <1>7, <1>8, <1>9, <1>10, <1>11, <1>12 DEF GoodSender, t

(* receive() keeps the invariant for every message, however late, repeated *)
(* or wrong (tcp_sender.cc:75-116).                                        *)
LEMMA ReceiveKeepsGood ==
  ASSUME NEW s, GoodSender(s), NEW m \in AnyReceiverMessage
  PROVE  /\ GoodSender(SenderReceive(s, m))
         /\ SenderReceive(s, m).next_seqno = s.next_seqno
         /\ AbsAck(SenderReceive(s, m)) >= AbsAck(s)
         /\ \E c \in 0 .. Len(s.outstanding) : Drops(s, SenderReceive(s, m), c)
<1> DEFINE u == [s EXCEPT !.zero_window = (m.window_size = 0), !.window_size = m.window_size]
           a == Unwrap(m.ackno, s.isn, s.next_seqno)
<1>0. s \in SenderRecord /\ AbsAck(s) \in Nat
  BY PushNumbers DEF GoodSender
<1>1. /\ m.window_size \in 0 .. WinMax /\ m.ackno \in Int
  BY DEF AnyReceiverMessage, Seqno, NoSeqno
<1>2. /\ u \in SenderRecord
      /\ u.outstanding = s.outstanding /\ u.bytes_in_flight = s.bytes_in_flight
      /\ u.next_seqno = s.next_seqno /\ u.input = s.input /\ u.timer = s.timer
      /\ u.syn_sent = s.syn_sent /\ u.fin_sent = s.fin_sent /\ u.isn = s.isn
      /\ u.zero_window = (m.window_size = 0) /\ u.window_size = m.window_size
  BY <1>0, <1>1 DEF SenderRecord
<1>3. SenderReceive(s, m) = IF m.RST THEN SenderReset(s)
                            ELSE IF m.ackno = NoSeqno \/ a > s.next_seqno THEN u
                            ELSE PopAcked(u, AckedCount(u, a))
  BY DEF SenderReceive
<1>4. a \in Int
  <2>1. s.isn \in Int /\ s.next_seqno \in Nat
    BY <1>0, WindowAssumption DEF SenderRecord, Seqno
  <2> QED
    BY <1>1, <2>1, UnwrapType
<1> HIDE DEF u, a
<1>5. GoodSender(u) /\ AbsAck(u) = AbsAck(s)
  <2>1. TilesFlight(u) /\ AbsAck(u) = AbsAck(s)
    BY <1>0, <1>2, SameFlight DEF GoodSender
  <2>2. TimerRunsWithFlight(u) /\ Accounted(u)
    BY <1>2 DEF GoodSender, TimerRunsWithFlight, Accounted
  <2>3. u.bytes_in_flight <= WinMax /\ (u.zero_window <=> (u.window_size = 0))
    BY <1>2 DEF GoodSender
  <2> QED
    BY <1>2, <2>1, <2>2, <2>3 DEF GoodSender
<1>n. Len(s.outstanding) \in 0 .. Len(s.outstanding) /\ 0 \in 0 .. Len(s.outstanding)
  BY <1>0, SenderTypes
<1>6. CASE m.RST
  BY <1>3, <1>6, <1>n, ResetKeepsGood
<1>7. CASE ~m.RST /\ (m.ackno = NoSeqno \/ a > s.next_seqno)
  <2>1. Drops(s, u, 0)
    <3>1. Len(s.input.pushed) \in Nat
      BY <1>0, SenderTypes
    <3> QED
      BY <1>0, <1>2, <3>1, SameSegments
  <2> QED
    BY <1>0, <1>2, <1>3, <1>5, <1>7, <1>n, <2>1
<1>8. CASE ~m.RST /\ ~(m.ackno = NoSeqno \/ a > s.next_seqno)
  <2>1. AckedCount(u, a) \in 0 .. Len(u.outstanding)
    BY <1>2, <1>4, AckedCountFound
  <2> DEFINE c == AckedCount(u, a)
             t == PopAcked(u, c)
  <2>2. /\ GoodSender(t) /\ t.next_seqno = s.next_seqno /\ AbsAck(t) >= AbsAck(s)
        /\ Drops(u, t, c)
    BY <1>2, <1>5, <2>1, PopKeepsGood
  <2> HIDE DEF c, t
  <2>3. \A k : SegmentStart(u, k) = SegmentStart(s, k)
    BY <1>2 DEF SegmentStart
  <2>4. Drops(s, t, c)
    BY <1>2, <2>2, <2>3 DEF Drops
  <2>5. SenderReceive(s, m) = t /\ c \in 0 .. Len(s.outstanding)
    BY <1>2, <1>3, <1>8, <2>1 DEF c, t
  <2> QED
    BY <2>2, <2>4, <2>5
<1> QED
  BY <1>6, <1>7, <1>8

-----------------------------------------------------------------------------
(* tick() and the writer *)

(* tick() touches the timer alone, and leaves it running if it was         *)
(* (tcp_sender.cc:118-132).                                                *)
LEMMA TickKeepsGood ==
  ASSUME NEW s, GoodSender(s), NEW ms \in Nat
  PROVE  /\ GoodSender(SenderTick(s, ms))
         /\ SenderTick(s, ms).next_seqno = s.next_seqno
         /\ AbsAck(SenderTick(s, ms)) = AbsAck(s)
         /\ Drops(s, SenderTick(s, ms), 0)
<1> DEFINE t == SenderTick(s, ms)
<1>0. s \in SenderRecord /\ s.timer \in TimerRecord
  BY DEF GoodSender, SenderRecord
<1>1. TimerTick(s.timer, ms) \in TimerRecord /\ TimerTick(s.timer, ms).running = s.timer.running
  BY <1>0 DEF TimerRecord, TimerTick
<1>2. PICK timer \in TimerRecord : /\ timer.running = s.timer.running
                                   /\ t = [s EXCEPT !.timer = timer]
  <2>1. CASE ~Retransmits(s, ms)
    BY <1>1, <2>1 DEF SenderTick
  <2>2. CASE Retransmits(s, ms)
    <3> DEFINE k == TimerTick(s.timer, ms)
               w == IF s.zero_window THEN k ELSE TimerRecordRetransmission(k)
    <3>1. k.running
      BY <2>2 DEF Retransmits, TimerIsExpired
    <3>2. k \in TimerRecord /\ s.timer.running
      BY <1>1, <3>1
    <3> HIDE DEF k
    <3>3. TimerRecordRetransmission(k) \in TimerRecord
      <4>1. k.retransmissions + 1 \in Nat /\ k.timeout * 2 \in Nat
        BY <3>2 DEF TimerRecord
      <4> QED
        BY <3>2, <4>1 DEF TimerRecord, TimerRecordRetransmission
    <3>4. w \in TimerRecord
      <4>1. CASE s.zero_window
        BY <3>2, <4>1
      <4>2. CASE ~s.zero_window
        BY <3>3, <4>2
      <4> QED
        BY <4>1, <4>2
    <3> HIDE DEF w
    <3>5. TimerStart(w) \in TimerRecord /\ TimerStart(w).running = TRUE
      BY <3>4 DEF TimerRecord, TimerStart
    <3>6. t = [s EXCEPT !.timer = TimerStart(w)]
      BY <2>2 DEF SenderTick, w, k
    <3>7. s.timer.running = TRUE
      BY <1>0, <3>2 DEF TimerRecord
    <3> QED
      BY <3>5, <3>6, <3>7
  <2> QED
    BY <2>1, <2>2
<1> HIDE DEF t
<1>3. /\ t \in SenderRecord
      /\ t.outstanding = s.outstanding /\ t.bytes_in_flight = s.bytes_in_flight
      /\ t.next_seqno = s.next_seqno /\ t.input = s.input /\ t.timer = timer
      /\ t.syn_sent = s.syn_sent /\ t.fin_sent = s.fin_sent
      /\ t.zero_window = s.zero_window /\ t.window_size = s.window_size /\ t.isn = s.isn
  BY <1>0, <1>2 DEF SenderRecord
<1>4. TilesFlight(t) /\ AbsAck(t) = AbsAck(s)
  BY <1>0, <1>3, SameFlight DEF GoodSender
<1>5. TimerRunsWithFlight(t) /\ Accounted(t)
  BY <1>2, <1>3 DEF GoodSender, TimerRunsWithFlight, Accounted
<1>6. t.bytes_in_flight <= WinMax /\ (t.zero_window <=> (t.window_size = 0))
  BY <1>3 DEF GoodSender
<1>7. Drops(s, t, 0)
  <2>1. Len(s.input.pushed) \in Nat
    BY <1>0, SenderTypes
  <2> QED
    BY <1>0, <1>3, <2>1, SameSegments
<1> QED
  BY <1>3, <1>4, <1>5, <1>6, <1>7 DEF GoodSender, t

(* The writer may add to the stream until FIN is sent, end it, or fail. *)
LEMMA InputKeepsGood ==
  ASSUME NEW s, GoodSender(s), NEW i \in InputRecord,
         i.popped = s.input.popped, Len(i.pushed) >= Len(s.input.pushed), Len(i.pushed) + 2 + WinMax < AbsMod,
         s.fin_sent => i.closed /\ i.pushed = s.input.pushed,
         \A j \in 1 .. Len(s.input.pushed) : i.pushed[j] = s.input.pushed[j]
  PROVE  LET t == [s EXCEPT !.input = i]
         IN  /\ GoodSender(t) /\ t.next_seqno = s.next_seqno /\ AbsAck(t) = AbsAck(s)
             /\ Drops(s, t, 0)
<1> DEFINE t == [s EXCEPT !.input = i]
<1>0. s \in SenderRecord /\ Accounted(s)
  BY DEF GoodSender
<1>1. /\ t \in SenderRecord
      /\ t.outstanding = s.outstanding /\ t.bytes_in_flight = s.bytes_in_flight
      /\ t.next_seqno = s.next_seqno /\ t.input = i /\ t.timer = s.timer
      /\ t.syn_sent = s.syn_sent /\ t.fin_sent = s.fin_sent
      /\ t.zero_window = s.zero_window /\ t.window_size = s.window_size /\ t.isn = s.isn
  BY <1>0 DEF SenderRecord
<1> HIDE DEF t
<1>2. TilesFlight(t) /\ AbsAck(t) = AbsAck(s)
  BY <1>0, <1>1, SameFlight DEF GoodSender
<1>3. TimerRunsWithFlight(t)
  BY <1>1 DEF GoodSender, TimerRunsWithFlight
<1>4. Accounted(t)
  <2>1. s.input.popped \in Nat /\ Len(s.input.pushed) \in Nat /\ Len(i.pushed) \in Nat
    BY <1>0, SenderTypes DEF InputRecord
  <2>2. i.popped <= Len(i.pushed)
    BY <1>0, <2>1 DEF Accounted
  <2>3. s.fin_sent => i.closed /\ BytesBuffered(i) = 0
    BY <1>0 DEF Accounted, BytesBuffered
  <2> QED
    BY <1>0, <1>1, <2>2, <2>3 DEF Accounted
<1>5. t.bytes_in_flight <= WinMax /\ (t.zero_window <=> (t.window_size = 0))
  BY <1>1 DEF GoodSender
<1>6. Drops(s, t, 0)
  BY <1>0, <1>1, SameSegments
<1> QED
  BY <1>1, <1>2, <1>3, <1>4, <1>5, <1>6 DEF GoodSender, t

-----------------------------------------------------------------------------
(* What the unacknowledged segments carry *)

(* A segment of a good sender that is where the stream says starts in the  *)
(* stream, and ends in it unless it is FIN that lies beyond.               *)
LEMMA SegmentInStream ==
  ASSUME NEW s, GoodSender(s), CarriesStream(s), NEW k \in 1 .. Len(s.outstanding),
         NEW m, m = s.outstanding[k], NEW first, first = SegmentStart(s, k) + Bit(m.SYN),
         ~s.fin_sent
  PROVE  /\ first \in Nat \ {0} /\ Len(m.payload) \in Nat
         /\ first + Len(m.payload) - 1 <= Len(s.input.pushed)
<1>0. s \in SenderRecord /\ Accounted(s) /\ TilesFlight(s)
  BY DEF GoodSender
<1>1. /\ m \in MessageRecord /\ SegmentStart(s, k) \in Int
      /\ AbsAck(s) \in Nat /\ s.next_seqno \in Nat
      /\ s.input.popped \in Nat /\ Len(s.input.pushed) \in Nat
  BY <1>0, SegmentTypes, SenderTypes, PushNumbers
<1>2. /\ SequenceLength(m) = Bit(m.SYN) + Len(m.payload) + Bit(m.FIN)
      /\ Bit(m.SYN) \in {0, 1} /\ Bit(m.FIN) \in {0, 1} /\ Len(m.payload) \in Nat
  BY <1>1, LengthIsNatural
<1>3. AbsAck(s) <= SegmentStart(s, k) /\ SegmentEnd(s, k) <= s.next_seqno
  BY <1>0 DEF TilesFlight
<1>4. SegmentEnd(s, k) = SegmentStart(s, k) + (Bit(m.SYN) + Len(m.payload) + Bit(m.FIN))
  BY <1>2 DEF SegmentEnd
<1>5. m.SYN <=> SegmentStart(s, k) = 0
  BY DEF CarriesStream
<1>6. SegmentStart(s, k) = 0 => Bit(m.SYN) = 1
  BY <1>5 DEF Bit
<1>7. /\ s.next_seqno = Bit(s.syn_sent) + s.input.popped + Bit(s.fin_sent)
      /\ s.input.popped <= Len(s.input.pushed) /\ Bit(s.syn_sent) \in {0, 1} /\ Bit(s.fin_sent) = 0
  BY <1>0 DEF Accounted, Bit
<1> DEFINE a == SegmentStart(s, k)
           y == Bit(m.SYN)
           f == Bit(m.FIN)
           l == Len(m.payload)
           b == Bit(s.syn_sent)
           q == s.input.popped
           n == Len(s.input.pushed)
           z == AbsAck(s)
<1>8. /\ a \in Int /\ y \in {0, 1} /\ f \in {0, 1} /\ l \in Nat /\ b \in {0, 1} /\ q \in Nat /\ n \in Nat
      /\ z \in Nat /\ z <= a /\ a + (y + l + f) <= b + q + 0 /\ q <= n /\ (a = 0 => y = 1)
      /\ first = a + y
  BY <1>1, <1>2, <1>3, <1>4, <1>6, <1>7
<1> HIDE DEF a, y, f, l, b, q, n, z
<1>9. first \in Nat \ {0} /\ l \in Nat /\ first + l - 1 <= n
  <2>1. a \in Nat /\ y \in Nat /\ f \in Nat
    BY ONLY <1>8
  <2>2. a + y >= 1
    <3>1. CASE a = 0
      BY ONLY <1>8, <3>1
    <3>2. CASE a # 0
      BY ONLY <2>1, <3>2
    <3> QED
      BY ONLY <3>1, <3>2
  <2>3. b <= 1 /\ b \in Nat
    BY ONLY <1>8
  <2>4. a + y + l <= n + 1
    BY ONLY <1>8, <2>1, <2>3
  <2> QED
    BY ONLY <1>8, <2>1, <2>2, <2>4
<1> QED
  BY <1>9 DEF l, n

(* What is appended to a sequence of bytes leaves its bytes where they were. *)
LEMMA Appended ==
  ASSUME NEW p \in Seq(Nat), NEW d \in Seq(Nat)
  PROVE  /\ p \o d \in Seq(Nat)
         /\ Len(p \o d) = Len(p) + Len(d)
         /\ \A j \in 1 .. Len(p) : (p \o d)[j] = p[j]
  OBVIOUS

(* A stretch of a sequence is the same in every sequence that begins with it. *)
LEMMA SameStretch ==
  ASSUME NEW p \in Seq(Nat), NEW q \in Seq(Nat), Len(q) >= Len(p),
         \A i \in 1 .. Len(p) : q[i] = p[i],
         NEW a \in Nat \ {0}, NEW b \in Int, b <= Len(p)
  PROVE  SubSeq(p, a, b) = SubSeq(q, a, b)
<1>1. \A i \in a .. b : p[i] \in Nat /\ q[i] \in Nat /\ q[i] = p[i]
  <2> SUFFICES ASSUME NEW i \in a .. b PROVE p[i] \in Nat /\ q[i] \in Nat /\ q[i] = p[i]
    OBVIOUS
  <2>1. i \in 1 .. Len(p) /\ i \in 1 .. Len(q)
    OBVIOUS
  <2> QED
    BY <2>1, ElementOfSeq
<1>2. /\ SubSeq(p, a, b) \in Seq(Nat)
      /\ Len(SubSeq(p, a, b)) = IF a <= b THEN b - a + 1 ELSE 0
      /\ \A i \in 1 .. b - a + 1 : SubSeq(p, a, b)[i] = p[a + i - 1]
  BY <1>1, SubSeqProperties
<1>3. /\ SubSeq(q, a, b) \in Seq(Nat)
      /\ Len(SubSeq(q, a, b)) = IF a <= b THEN b - a + 1 ELSE 0
      /\ \A i \in 1 .. b - a + 1 : SubSeq(q, a, b)[i] = q[a + i - 1]
  BY <1>1, SubSeqProperties
<1> DEFINE x == SubSeq(p, a, b)
           y == SubSeq(q, a, b)
<1>4. \A i \in 1 .. Len(x) : x[i] = y[i]
  <2> SUFFICES ASSUME NEW i \in 1 .. Len(x) PROVE x[i] = y[i]
    OBVIOUS
  <2>1. i \in 1 .. b - a + 1 /\ a + i - 1 \in a .. b
    BY <1>2
  <2>2. x[i] = p[a + i - 1] /\ y[i] = q[a + i - 1]
    BY <1>2, <1>3, <2>1
  <2> QED
    BY <1>1, <2>1, <2>2
<1> HIDE DEF x, y
<1>5. x \in Seq(Nat) /\ y \in Seq(Nat) /\ Len(x) = Len(y)
  BY <1>2, <1>3 DEF x, y
<1>6. x = y
  BY <1>4, <1>5, SeqEqual
<1> QED
  BY <1>6 DEF x, y

(* Segments that stay in the queue still carry the stream, whatever is     *)
(* dropped before them and appended to the stream.                         *)
LEMMA DropsCarries ==
  ASSUME NEW s, NEW t, GoodSender(s), t \in SenderRecord, CarriesStream(s),
         NEW c \in 0 .. Len(s.outstanding), Drops(s, t, c)
  PROVE  CarriesStream(t)
<1>0. s \in SenderRecord
  BY DEF GoodSender
<1>1. /\ Len(s.outstanding) \in Nat /\ s.input.pushed \in Seq(Nat) /\ t.input.pushed \in Seq(Nat)
      /\ s.fin_sent \in BOOLEAN
  BY <1>0, SenderTypes
<1> SUFFICES ASSUME NEW k \in 1 .. Len(t.outstanding), NEW m, m = t.outstanding[k],
                    NEW first, first = SegmentStart(t, k) + Bit(m.SYN)
             PROVE  /\ m.SYN <=> SegmentStart(t, k) = 0
                    /\ m.payload = SubSeq(t.input.pushed, first, first + Len(m.payload) - 1)
                    /\ m.FIN <=> t.fin_sent /\ k = Len(t.outstanding)
  BY DEF CarriesStream
<1>2. /\ Len(t.outstanding) = Len(s.outstanding) - c
      /\ k \in 1 .. (Len(s.outstanding) - c) /\ c + k \in 1 .. Len(s.outstanding)
  BY <1>1 DEF Drops
<1>3. m = s.outstanding[c + k] /\ SegmentStart(t, k) = SegmentStart(s, c + k)
  BY <1>2 DEF Drops
<1>4. /\ m.SYN <=> SegmentStart(t, k) = 0
      /\ m.payload = SubSeq(s.input.pushed, first, first + Len(m.payload) - 1)
      /\ m.FIN <=> s.fin_sent /\ c + k = Len(s.outstanding)
  BY <1>2, <1>3 DEF CarriesStream
<1>5. SubSeq(s.input.pushed, first, first + Len(m.payload) - 1)
        = SubSeq(t.input.pushed, first, first + Len(m.payload) - 1)
  <2>1. CASE s.fin_sent
    BY <2>1 DEF Drops
  <2>2. CASE ~s.fin_sent
    <3>1. /\ first \in Nat \ {0} /\ Len(m.payload) \in Nat
          /\ first + Len(m.payload) - 1 <= Len(s.input.pushed)
      BY <1>2, <1>3, <2>2, SegmentInStream
    <3>2. /\ Len(t.input.pushed) >= Len(s.input.pushed)
          /\ \A i \in 1 .. Len(s.input.pushed) : t.input.pushed[i] = s.input.pushed[i]
      BY DEF Drops
    <3>3. first + Len(m.payload) - 1 \in Int
      BY <3>1
    <3> QED
      BY <1>1, <3>1, <3>2, <3>3, SameStretch
  <2> QED
    BY <2>1, <2>2
<1>6. t.fin_sent = s.fin_sent /\ (c + k = Len(s.outstanding) <=> k = Len(t.outstanding))
  BY <1>1, <1>2 DEF Drops
<1> QED
  BY <1>4, <1>5, <1>6

(* The segments that push() adds carry the stream, and the ones before     *)
(* them still do (tcp_sender.cc:22-54).                                    *)
LEMMA PushCarries ==
  ASSUME NEW s, GoodSender(s), CarriesStream(s), LengthToSend(s) > 0
  PROVE  CarriesStream(SenderPush(s))
<1> DEFINE t == SenderPush(s)
           n == Len(s.outstanding)
           N == SegmentsToSend(s)
<1>0. s \in SenderRecord /\ Accounted(s)
  BY DEF GoodSender
<1>1. /\ t.fin_sent = (s.fin_sent \/ SendsFin(s)) /\ t.input.pushed = s.input.pushed
  BY PushFields
<1>2. /\ Len(t.outstanding) = n + N
      /\ \A k \in 1 .. n : t.outstanding[k] = s.outstanding[k] /\ SegmentStart(t, k) = SegmentStart(s, k)
      /\ \A j \in 1 .. N : /\ t.outstanding[n + j] = PushSegments(s)[j]
                           /\ SegmentStart(t, n + j) = s.next_seqno + Offset(s, j)
  BY PushTiles
<1>3. /\ n \in Nat /\ N \in Nat \ {0} /\ s.next_seqno \in Nat /\ s.input.popped \in Nat
      /\ s.syn_sent \in BOOLEAN
  BY <1>0, SenderTypes, PayloadCuts
<1>4. Budget(s) > 0 /\ ~s.fin_sent
  <2>1. /\ Budget(s) \in Nat /\ LengthToSend(s) \in Nat /\ LengthToSend(s) <= Budget(s)
        /\ Budget(s) > 0 => ~s.fin_sent
    BY PushNumbers
  <2> QED
    BY <2>1
<1>5. SendsSyn(s) <=> ~s.syn_sent
  BY <1>4 DEF SendsSyn
<1>6. /\ s.next_seqno = Bit(s.syn_sent) + s.input.popped
      /\ ~s.syn_sent => s.next_seqno = 0
  BY <1>0, <1>3, <1>4 DEF Accounted, Bit
<1> HIDE DEF t, n, N
<1> SUFFICES ASSUME NEW k \in 1 .. Len(t.outstanding), NEW m, m = t.outstanding[k],
                    NEW first, first = SegmentStart(t, k) + Bit(m.SYN)
             PROVE  /\ m.SYN <=> SegmentStart(t, k) = 0
                    /\ m.payload = SubSeq(t.input.pushed, first, first + Len(m.payload) - 1)
                    /\ m.FIN <=> t.fin_sent /\ k = Len(t.outstanding)
  BY DEF CarriesStream, t
<1>7. CASE k \in 1 .. n
  <2>1. m = s.outstanding[k] /\ SegmentStart(t, k) = SegmentStart(s, k)
    BY <1>2, <1>7
  <2>2. /\ m.SYN <=> SegmentStart(t, k) = 0
        /\ m.payload = SubSeq(t.input.pushed, first, first + Len(m.payload) - 1)
        /\ m.FIN <=> s.fin_sent /\ k = n
    BY <1>1, <1>7, <2>1 DEF CarriesStream, n
  <2>3. k # Len(t.outstanding)
    BY <1>2, <1>3, <1>7
  <2> QED
    BY <1>4, <2>2, <2>3
<1>8. ASSUME NEW j \in 1 .. N, k = n + j
      PROVE  /\ m.SYN <=> SegmentStart(t, k) = 0
             /\ m.payload = SubSeq(t.input.pushed, first, first + Len(m.payload) - 1)
             /\ m.FIN <=> t.fin_sent /\ k = Len(t.outstanding)
  <2> DEFINE B == PayloadBefore(s, j)
             E == PayloadBefore(s, j + 1)
             q == s.input.popped
             start == s.next_seqno + Offset(s, j)
             y == Bit(SendsSyn(s))
  <2>1. m = SegmentToSend(s, j) /\ m \in MessageRecord /\ SegmentStart(t, k) = start
    <3>1. m = PushSegments(s)[j] /\ SegmentStart(t, k) = start
      BY <1>2, <1>8
    <3>2. PushSegments(s)[j] = SegmentToSend(s, j)
      BY DEF PushSegments, N
    <3>3. PushSegments(s) \in Seq(MessageRecord) /\ Len(PushSegments(s)) = N
      BY PushedSegments DEF N
    <3>4. PushSegments(s)[j] \in MessageRecord
      BY <3>3, ElementOfSeq
    <3> QED
      BY <3>1, <3>2, <3>4
  <2>2. /\ m.SYN = (SendsSyn(s) /\ j = 1) /\ m.FIN = (SendsFin(s) /\ j = N)
        /\ m.payload = SubSeq(s.input.pushed, q + B + 1, q + E)
    <3> DEFINE x == SegmentToSend(s, j)
    <3>1. x.SYN = (SendsSyn(s) /\ j = 1)
      BY Zenon DEF SegmentToSend, SenderMessage
    <3>2. x.FIN = (SendsFin(s) /\ j = N)
      BY Zenon DEF SegmentToSend, SenderMessage, N
    <3>3. x.payload = SubSeq(s.input.pushed, q + B + 1, q + E)
      BY Zenon DEF SegmentToSend, SenderMessage
    <3> HIDE DEF x
    <3>4. m = x
      BY <2>1 DEF x
    <3> QED
      BY <3>1, <3>2, <3>3, <3>4
  <2>3. /\ B \in Nat /\ E \in Nat /\ (j = 1 => B = 0) /\ j + 1 \in 1 .. (N + 1) /\ j \in 1 .. (N + 1)
    <3>1. j + 1 \in 1 .. (N + 1) /\ j \in 1 .. (N + 1)
      BY <1>3
    <3>2. B \in 0 .. PayloadToSend(s) /\ E \in 0 .. PayloadToSend(s) /\ PayloadBefore(s, 1) = 0
      BY <3>1, PayloadCuts DEF N
    <3>3. PayloadToSend(s) \in Nat
      BY <1>0, PushNumbers DEF BytesBuffered
    <3> QED
      BY <3>1, <3>2, <3>3
  <2>4. Len(m.payload) = E - B
    <3>1. SequenceLength(m) = Bit(m.SYN) + (E - B) + Bit(m.FIN)
      <4>1. SequenceLength(PushSegments(s)[j]) = Finish(s, j) - Offset(s, j)
        BY PushedSegments DEF N
      <4>2. Finish(s, j) - Offset(s, j) = Bit(SendsSyn(s) /\ j = 1) + (E - B) + Bit(SendsFin(s) /\ j = N)
        BY OffsetsTile DEF N
      <4>3. PushSegments(s)[j] = m
        BY <1>2, <1>8
      <4> QED
        BY <2>2, <4>1, <4>2, <4>3
    <3>2. /\ SequenceLength(m) = Bit(m.SYN) + Len(m.payload) + Bit(m.FIN)
          /\ Bit(m.SYN) \in {0, 1} /\ Bit(m.FIN) \in {0, 1} /\ Len(m.payload) \in Nat
      BY <2>1, LengthIsNatural
    <3> DEFINE x == Bit(m.SYN)
               f == Bit(m.FIN)
               l == Len(m.payload)
    <3>3. x \in Int /\ f \in Int /\ l \in Int /\ E - B \in Int /\ x + (E - B) + f = x + l + f
      BY <2>3, <3>1, <3>2
    <3> HIDE DEF x, f, l, B, E
    <3>4. l = E - B
      BY <2>3, <3>3
    <3> QED
      BY <3>4 DEF l
  <2>5. y \in {0, 1} /\ (y = 1 <=> SendsSyn(s)) /\ Bit(s.syn_sent) = 1 - y
    BY <1>5 DEF Bit
  <2>6. Offset(s, j) = IF j = 1 THEN 0 ELSE y + B
    BY DEF Offset
  <2>7. Bit(m.SYN) = IF j = 1 THEN y ELSE 0
    BY <2>2 DEF Bit
  <2>8. s.next_seqno = (1 - y) + q /\ (y = 1 => s.next_seqno = 0) /\ q \in Nat
    BY <1>3, <1>5, <1>6, <2>5
  <2>9. m.SYN <=> start = 0
    <3>1. CASE j = 1
      <4>1. start = s.next_seqno
        BY <1>3, <2>6, <3>1
      <4>2. m.SYN <=> SendsSyn(s)
        BY <2>2, <3>1
      <4> HIDE DEF y, q, start
      <4> QED
        BY <2>5, <2>8, <4>1, <4>2
    <3>2. CASE j # 1
      <4>1. 1 \in 1 .. N /\ 1 < j
        BY <1>3, <3>2
      <4>2. Finish(s, 1) <= Offset(s, j) /\ 0 < Finish(s, 1) /\ Finish(s, 1) \in Nat /\ Offset(s, j) \in Nat
        BY <4>1, OffsetsTile DEF N
      <4>3. start > 0 /\ start \in Nat
        BY <1>3, <4>2
      <4>4. start # 0
        BY <4>3
      <4>5. ~m.SYN
        BY <2>2, <3>2, Zenon
      <4> QED
        BY <4>4, <4>5
    <3> QED
      BY <3>1, <3>2
  <2>10. first = q + B + 1
    <3>1. first = (s.next_seqno + Offset(s, j)) + Bit(m.SYN)
      BY <2>1
    <3> HIDE DEF y, q, B
    <3>2. CASE j = 1
      BY <2>3, <2>5, <2>6, <2>7, <2>8, <3>1, <3>2
    <3>3. CASE j # 1
      BY <2>3, <2>5, <2>6, <2>7, <2>8, <3>1, <3>3
    <3> QED
      BY <3>2, <3>3
  <2>11. first + Len(m.payload) - 1 = q + E
    <3> HIDE DEF q, B, E
    <3> QED
      BY <2>3, <2>4, <2>8, <2>10
  <2>12. m.FIN <=> t.fin_sent /\ k = Len(t.outstanding)
    <3>1. t.fin_sent <=> SendsFin(s)
      BY <1>1, <1>4
    <3>2. k = Len(t.outstanding) <=> j = N
      BY <1>2, <1>3, <1>8
    <3> QED
      BY <2>2, <3>1, <3>2
  <2> QED
    BY <1>1, <2>1, <2>2, <2>9, <2>10, <2>11, <2>12
<1>9. k \in 1 .. n \/ (k - n \in 1 .. N /\ k = n + (k - n))
  BY <1>2, <1>3
<1> QED
  BY <1>7, <1>8, <1>9

(* A new sender satisfies the invariant. *)
LEMMA NewSenderIsGood ==
  ASSUME NEW capacity \in Nat, NEW isn \in Seqno, NEW rto \in Nat, 2 + WinMax < AbsMod
  PROVE  GoodSender(NewSender(capacity, isn, rto)) /\ CarriesStream(NewSender(capacity, isn, rto))
<1> DEFINE s == NewSender(capacity, isn, rto)
<1>1. /\ NewStream(capacity) \in InputRecord
      /\ NewTimer(rto) \in TimerRecord
  BY WindowAssumption, EmptySeq DEF NewStream, InputRecord, NewTimer, TimerRecord
<1>2. s \in SenderRecord
  BY <1>1, WindowAssumption, EmptySeq DEF NewSender, SenderRecord
<1>3. /\ s.outstanding = <<>> /\ s.bytes_in_flight = 0 /\ s.next_seqno = 0
      /\ s.syn_sent = FALSE /\ s.fin_sent = FALSE /\ s.zero_window = FALSE /\ s.window_size = 1
      /\ s.input = NewStream(capacity) /\ s.timer = NewTimer(rto)
  BY DEF NewSender
<1>4. s.input.popped = 0 /\ s.input.pushed = <<>> /\ s.timer.running = FALSE
  BY <1>3 DEF NewStream, NewTimer
<1> HIDE DEF s
<1>5. Len(s.outstanding) = 0 /\ Len(s.input.pushed) = 0
  BY <1>3, <1>4
<1>6. TilesFlight(s)
  BY <1>3, <1>5 DEF TilesFlight
<1>7. TimerRunsWithFlight(s)
  BY <1>3, <1>4 DEF TimerRunsWithFlight
<1>8. Accounted(s)
  BY <1>3, <1>4, <1>5, WindowAssumption DEF Accounted, Bit
<1>9. GoodSender(s)
  BY <1>2, <1>3, <1>6, <1>7, <1>8, WindowAssumption DEF GoodSender
<1>10. CarriesStream(s)
  BY <1>5 DEF CarriesStream
<1> QED
  BY <1>9, <1>10 DEF s

(* What a sender is set up with. *)
SameSetting(s, t) ==
    /\ t.isn = s.isn
    /\ t.input.capacity = s.input.capacity
    /\ t.timer.initial_RTO = s.timer.initial_RTO

(* push() reads from the stream, and otherwise leaves it and the settings  *)
(* alone.                                                                  *)
LEMMA PushEffects ==
  ASSUME NEW s, s \in SenderRecord
  PROVE  LET t == SenderPush(s)
         IN  /\ SameSetting(s, t)
             /\ t.input.pushed = s.input.pushed
             /\ t.input.closed = s.input.closed /\ t.input.error = s.input.error
             /\ LengthToSend(s) = 0 => t = s
<1> DEFINE t == SenderPush(s)
<1>1. s.input \in InputRecord /\ s.timer \in TimerRecord
  BY DEF SenderRecord
<1>2. CASE LengthToSend(s) = 0
  BY <1>2 DEF SenderPush, SameSetting
<1>3. CASE LengthToSend(s) # 0
  <2>1. /\ t.input = ReaderPop(s.input, PayloadToSend(s)) /\ t.isn = s.isn
        /\ t.timer = IF s.timer.running THEN s.timer ELSE TimerStart(s.timer)
    BY <1>3 DEF SenderPush, SenderRecord
  <2>2. /\ t.input.pushed = s.input.pushed /\ t.input.closed = s.input.closed
        /\ t.input.error = s.input.error /\ t.input.capacity = s.input.capacity
    BY <1>1, <2>1 DEF ReaderPop, InputRecord
  <2>3. t.timer.initial_RTO = s.timer.initial_RTO
    BY <1>1, <2>1 DEF TimerStart, TimerRecord
  <2> QED
    BY <1>3, <2>1, <2>2, <2>3 DEF SameSetting
<1> QED
  BY <1>2, <1>3

(* receive() leaves the stream alone, unless it is told of an error. *)
LEMMA ReceiveEffects ==
  ASSUME NEW s, s \in SenderRecord, NEW m \in AnyReceiverMessage
  PROVE  LET t == SenderReceive(s, m)
         IN  /\ SameSetting(s, t)
             /\ t.input = IF m.RST THEN SetError(s.input) ELSE s.input
             /\ t.syn_sent = s.syn_sent /\ t.fin_sent = s.fin_sent /\ t.next_seqno = s.next_seqno
<1> DEFINE u == [s EXCEPT !.zero_window = (m.window_size = 0), !.window_size = m.window_size]
           a == Unwrap(m.ackno, s.isn, s.next_seqno)
           t == SenderReceive(s, m)
<1>0. s.input \in InputRecord /\ s.timer \in TimerRecord /\ m.window_size \in 0 .. WinMax
  BY DEF SenderRecord, AnyReceiverMessage
<1>1. /\ u \in SenderRecord /\ u.isn = s.isn /\ u.input = s.input /\ u.timer = s.timer
      /\ u.syn_sent = s.syn_sent /\ u.fin_sent = s.fin_sent /\ u.next_seqno = s.next_seqno
  BY <1>0 DEF SenderRecord
<1>2. t = IF m.RST THEN SenderReset(s)
          ELSE IF m.ackno = NoSeqno \/ a > s.next_seqno THEN u
          ELSE PopAcked(u, AckedCount(u, a))
  BY DEF SenderReceive
<1> HIDE DEF u, a, t
<1>3. CASE m.RST
  <2>1. /\ t.isn = s.isn /\ t.input = SetError(s.input) /\ t.timer = TimerStop(s.timer)
        /\ t.syn_sent = s.syn_sent /\ t.fin_sent = s.fin_sent /\ t.next_seqno = s.next_seqno
    BY <1>2, <1>3 DEF SenderReset, SenderRecord
  <2>2. t.input.capacity = s.input.capacity /\ t.timer.initial_RTO = s.timer.initial_RTO
    BY <1>0, <2>1 DEF SetError, TimerStop, InputRecord, TimerRecord
  <2> QED
    BY <1>3, <2>1, <2>2 DEF SameSetting, t
<1>4. CASE ~m.RST
  <2>1. \A n : LET v == PopAcked(u, n)
               IN  /\ v.isn = u.isn /\ v.input = u.input
                   /\ v.timer.initial_RTO = u.timer.initial_RTO
                   /\ v.syn_sent = u.syn_sent /\ v.fin_sent = u.fin_sent /\ v.next_seqno = u.next_seqno
    <3> SUFFICES ASSUME NEW n, NEW v, v = PopAcked(u, n)
                 PROVE  /\ v.isn = u.isn /\ v.input = u.input
                        /\ v.timer.initial_RTO = u.timer.initial_RTO
                        /\ v.syn_sent = u.syn_sent /\ v.fin_sent = u.fin_sent
                        /\ v.next_seqno = u.next_seqno
      OBVIOUS
    <3>1. CASE n = 0
      BY <3>1 DEF PopAcked
    <3>2. CASE n # 0
      <4> DEFINE timer == IF n = Len(u.outstanding) THEN TimerStop(TimerResetBackoff(u.timer))
                          ELSE TimerStart(TimerResetBackoff(u.timer))
      <4>1. timer.initial_RTO = u.timer.initial_RTO
        <5>1. TimerResetBackoff(u.timer) \in TimerRecord
              /\ TimerResetBackoff(u.timer).initial_RTO = u.timer.initial_RTO
          BY <1>0, <1>1 DEF TimerResetBackoff, TimerRecord
        <5> QED
          BY <5>1 DEF TimerStop, TimerStart, TimerRecord
      <4>2. v = [u EXCEPT !.outstanding = SubSeq(@, n + 1, Len(@)),
                          !.bytes_in_flight = @ - AckedLength(u, n), !.timer = timer]
        BY <3>2 DEF PopAcked
      <4> HIDE DEF timer
      <4> QED
        BY <1>1, <4>1, <4>2 DEF SenderRecord
    <3> QED
      BY <3>1, <3>2
  <2>2. /\ t.isn = u.isn /\ t.input = u.input /\ t.timer.initial_RTO = u.timer.initial_RTO
        /\ t.syn_sent = u.syn_sent /\ t.fin_sent = u.fin_sent /\ t.next_seqno = u.next_seqno
    BY <1>2, <1>4, <2>1
  <2> QED
    BY <1>1, <1>4, <2>2 DEF SameSetting, t
<1> QED
  BY <1>3, <1>4

(* tick() changes nothing but the timer. *)
LEMMA TickEffects ==
  ASSUME NEW s, s \in SenderRecord, NEW ms \in Nat
  PROVE  LET t == SenderTick(s, ms)
         IN  /\ SameSetting(s, t)
             /\ t.input = s.input /\ t.syn_sent = s.syn_sent /\ t.fin_sent = s.fin_sent
             /\ t.next_seqno = s.next_seqno /\ t.outstanding = s.outstanding
             /\ t.timer.running = s.timer.running
<1> DEFINE t == SenderTick(s, ms)
           k == TimerTick(s.timer, ms)
           w == IF s.zero_window THEN k ELSE TimerRecordRetransmission(k)
<1>1. k \in TimerRecord /\ k.initial_RTO = s.timer.initial_RTO /\ k.running = s.timer.running
  BY DEF SenderRecord, TimerRecord, TimerTick
<1>2. PICK timer : /\ t = [s EXCEPT !.timer = timer]
                   /\ timer.initial_RTO = s.timer.initial_RTO /\ timer.running = s.timer.running
  <2>1. CASE ~Retransmits(s, ms)
    BY <1>1, <2>1 DEF SenderTick
  <2>2. CASE Retransmits(s, ms)
    <3>1. k.running
      BY <2>2 DEF Retransmits, TimerIsExpired
    <3> HIDE DEF k
    <3>2. TimerRecordRetransmission(k) \in TimerRecord
          /\ TimerRecordRetransmission(k).initial_RTO = k.initial_RTO
      <4>1. k.retransmissions + 1 \in Nat /\ k.timeout * 2 \in Nat
        BY <1>1 DEF TimerRecord
      <4> QED
        BY <1>1, <4>1 DEF TimerRecord, TimerRecordRetransmission
    <3>3. w \in TimerRecord /\ w.initial_RTO = k.initial_RTO
      BY <1>1, <3>2
    <3> HIDE DEF w
    <3>4. TimerStart(w).initial_RTO = s.timer.initial_RTO /\ TimerStart(w).running = TRUE
      BY <1>1, <3>3 DEF TimerRecord, TimerStart
    <3>5. s.timer.running = TRUE
      BY <1>1, <3>1 DEF TimerRecord
    <3>6. t = [s EXCEPT !.timer = TimerStart(w)]
      BY <2>2 DEF SenderTick, w, k
    <3> QED
      BY <3>4, <3>5, <3>6
  <2> QED
    BY <2>1, <2>2
<1> HIDE DEF t
<1>3. /\ t.timer = timer /\ t.isn = s.isn /\ t.input = s.input /\ t.syn_sent = s.syn_sent
      /\ t.fin_sent = s.fin_sent /\ t.next_seqno = s.next_seqno /\ t.outstanding = s.outstanding
  BY <1>2 DEF SenderRecord
<1> QED
  BY <1>2, <1>3 DEF SameSetting, t

(* What push() and tick() transmit are sequences of messages. *)
LEMMA TransmitTypes ==
  ASSUME NEW s, GoodSender(s)
  PROVE  /\ PushSegments(s) \in Seq(MessageRecord)
         /\ \A ms : TickSegments(s, ms) \in Seq(MessageRecord)
<1>0. /\ s \in SenderRecord /\ s.outstanding \in Seq(MessageRecord)
      /\ <<>> \in Seq(MessageRecord) /\ LengthToSend(s) \in Nat
  BY PushNumbers, EmptySeq DEF GoodSender, SenderRecord
<1>1. PushSegments(s) \in Seq(MessageRecord)
  <2>1. CASE LengthToSend(s) = 0
    <3>1. SegmentsToSend(s) = 0
      BY <2>1 DEF SegmentsToSend
    <3>2. PushSegments(s) = <<>>
      BY <3>1 DEF PushSegments
    <3> QED
      BY <1>0, <3>2
  <2>2. CASE LengthToSend(s) > 0
    BY <2>2, PushedSegments
  <2> QED
    BY <1>0, <2>1, <2>2
<1>2. \A ms : TickSegments(s, ms) \in Seq(MessageRecord)
  <2> SUFFICES ASSUME NEW ms PROVE TickSegments(s, ms) \in Seq(MessageRecord)
    OBVIOUS
  <2>1. CASE Retransmits(s, ms)
    <3>1. Head(s.outstanding) \in MessageRecord
      BY <1>0, <2>1, HeadTailProperties DEF Retransmits
    <3>2. <<Head(s.outstanding)>> \in Seq(MessageRecord)
      BY <3>1
    <3> QED
      BY <2>1, <3>2 DEF TickSegments
  <2>2. CASE ~Retransmits(s, ms)
    BY <1>0, <2>2 DEF TickSegments
  <2> QED
    BY <2>1, <2>2
<1> QED
  BY <1>1, <1>2

(* push() leaves a sender with something to say with its timer running: a  *)
(* closed window is probed (tcp_sender.cc:61-73).                          *)
LEMMA PushNeverStalls ==
  ASSUME NEW s, GoodSender(s), Unsent(SenderPush(s))
  PROVE  SenderPush(s).timer.running
<1> SUFFICES ASSUME ~SenderPush(s).timer.running PROVE FALSE
  OBVIOUS
<1>1. LengthToSend(s) = 0
  <2>1. LengthToSend(s) > 0 => SenderPush(s).timer.running = TRUE
    BY PushFields
  <2>2. LengthToSend(s) \in Nat
    BY PushNumbers
  <2> QED
    BY <2>1, <2>2
<1>2. Unsent(s) /\ ~s.timer.running
  BY <1>1 DEF SenderPush
<1>3. /\ s.outstanding = <<>> /\ Accounted(s) /\ TilesFlight(s) /\ s \in SenderRecord
  BY <1>2 DEF GoodSender, TimerRunsWithFlight
<1>4. s.bytes_in_flight = 0
  <2>1. Len(s.outstanding) = 0
    BY <1>3
  <2> QED
    BY <1>3, <2>1 DEF TilesFlight
<1>5. /\ s.next_seqno \in Nat /\ s.input.popped \in Nat /\ BytesBuffered(s.input) \in Nat
      /\ s.syn_sent \in BOOLEAN /\ s.fin_sent \in BOOLEAN
  BY <1>3, SenderTypes DEF Accounted, BytesBuffered
<1>6. CASE s.fin_sent
  <2>1. s.syn_sent /\ BytesBuffered(s.input) = 0
    BY <1>3, <1>5, <1>6 DEF Accounted, Bit
  <2> QED
    BY <1>2, <1>6, <2>1 DEF Unsent
<1>7. CASE ~s.fin_sent
  <2>1. EffectiveWindow(s) \in 1 .. WinMax /\ WinMax \in Nat
    BY PushNumbers, WindowAssumption
  <2>2. Budget(s) = EffectiveWindow(s)
    BY <1>4, <1>5, <1>7, <2>1 DEF Budget, RightEdge, AbsAck
  <2>3. Budget(s) \in Nat /\ Budget(s) > 0
    BY <2>1, <2>2
  <2>4. /\ Bit(SendsSyn(s)) = 0 /\ PayloadToSend(s) = 0 /\ Bit(SendsFin(s)) = 0
    <3> DEFINE y == Bit(SendsSyn(s))
               f == Bit(SendsFin(s))
               P == PayloadToSend(s)
    <3>1. /\ y \in {0, 1} /\ f \in {0, 1} /\ P \in 0 .. BytesBuffered(s.input)
          /\ 0 = y + P + f
      BY <1>1, PushNumbers
    <3> HIDE DEF y, f, P
    <3>2. y = 0 /\ P = 0 /\ f = 0
      BY <1>5, <3>1
    <3> QED
      BY <3>2 DEF y, f, P
  <2>5. s.syn_sent
    <3>1. ~SendsSyn(s)
      BY <2>4 DEF Bit
    <3> QED
      BY <2>3, <3>1 DEF SendsSyn
  <2>6. BytesBuffered(s.input) = 0
    BY <1>5, <2>3, <2>4 DEF PayloadToSend, Least
  <2>7. ~s.input.closed
    <3>1. ~SendsFin(s)
      BY <2>4 DEF Bit
    <3>2. Bit(SendsSyn(s)) + PayloadToSend(s) < Budget(s)
      BY <2>3, <2>4
    <3> QED
      BY <2>4, <2>6, <3>1, <3>2 DEF SendsFin
  <2> QED
    BY <1>2, <2>5, <2>6, <2>7 DEF Unsent
<1> QED
  BY <1>6, <1>7

(* push() keeps the queue carrying the stream, also when it sends nothing. *)
LEMMA PushKeepsCarrying ==
  ASSUME NEW s, GoodSender(s), CarriesStream(s)
  PROVE  CarriesStream(SenderPush(s))
<1>1. LengthToSend(s) \in Nat
  BY PushNumbers
<1>2. LengthToSend(s) = 0 => SenderPush(s) = s
  BY DEF SenderPush
<1> QED
  BY <1>1, <1>2, PushCarries

-----------------------------------------------------------------------------
(* The reassembler, receiving the stream src through a buffer of cap bytes *)

(* Indices of the stream do not run out. *)
Fits(src, cap) == src \in Seq(Nat) /\ Len(src) + 2 < AbsMod /\ cap \in Nat

(* The output stream s begins as the sender's stream does, and fits into   *)
(* its buffer.                                                             *)
GoodOutput(s, src, cap) ==
    /\ s \in StreamOf(cap, Nat)
    /\ s.popped <= Len(s.pushed) /\ Len(s.pushed) <= s.popped + cap
    /\ Len(s.pushed) <= Len(src)
    /\ \A i \in 1 .. Len(s.pushed) : s.pushed[i] = src[i]
    /\ s.closed /\ ~s.error => Len(s.pushed) = Len(src)

(* The bytes held are the sender's, between the next one expected, which   *)
(* is not among them, and the end of the window.                           *)
GoodHeld(held, from, limit, src) ==
    \A i \in DOMAIN held :
        i \in (from + 1) .. (limit - 1) /\ i < Len(src) /\ held[i] = src[i + 1]

GoodReassembler(r, src, cap) ==
    /\ r = [output |-> r.output, held |-> r.held, end_index |-> r.end_index, eof_seen |-> r.eof_seen]
    /\ GoodOutput(r.output, src, cap)
    /\ GoodHeld(r.held, Len(r.output.pushed), r.output.popped + cap, src)
    /\ r.eof_seen \in BOOLEAN /\ (r.eof_seen => r.end_index = Len(src))

(* Held bytes that may begin where the output ends. *)
Mergeable(held, from, limit, src) ==
    \A i \in DOMAIN held :
        i \in from .. (limit - 1) /\ i < Len(src) /\ held[i] = src[i + 1]

(* The bytes of data are the sender's from index first on. *)
SenderBytes(first, data, src) ==
    \/ data = <<>>
    \/ /\ first \in Nat /\ first + Len(data) <= Len(src)
       /\ \A k \in 1 .. Len(data) : data[k] = src[first + k]

(* The parameters, once and for all. *)
LEMMA Fitting ==
  ASSUME NEW src, NEW cap, Fits(src, cap)
  PROVE  /\ src \in Seq(Nat) /\ Len(src) \in Nat /\ Len(src) + 2 < AbsMod /\ AbsMod \in Nat \ {0}
         /\ cap \in Nat
BY WidthAssumption DEF Fits

(* A number below the modulus is its own residue. *)
LEMMA SmallMod ==
  ASSUME NEW m \in Nat, NEW x \in 0 .. (m - 1)
  PROVE  x % m = x
<1>1. m \in Nat \ {0} /\ x \in Int /\ x = m * 0 + x
  OBVIOUS
<1> QED
  BY <1>1, ModUnique

(* The loop that drains the front of the map (reassembler.cc:69-74) stops  *)
(* at the first gap.                                                       *)
LEMMA RunIsFound ==
  ASSUME NEW held, NEW from \in Nat, NEW limit \in Nat, from <= limit,
         \A i \in DOMAIN held : i \in from .. (limit - 1)
  PROVE  /\ RunLength(held, from) \in 0 .. (limit - from)
         /\ \A i \in from .. (from + RunLength(held, from) - 1) : i \in DOMAIN held
         /\ from + RunLength(held, from) \notin DOMAIN held
<1> DEFINE D == DOMAIN held
           Stops(n) == (\A i \in from .. (from + n - 1) : i \in D) /\ from + n \notin D
<1>1. IsFiniteSet(D)
  <2>1. IsFiniteSet(from .. (limit - 1)) /\ D \in SUBSET (from .. (limit - 1))
    BY FS_Interval
  <2> QED
    BY <2>1, FS_Subset
<1>2. \E m \in 0 .. Cardinality(D) : Stops(m)
  <2>1. from \in Int
    OBVIOUS
  <2> HIDE DEF D
  <2> QED
    BY <1>1, <2>1, RunEnds
<1>3. RunLength(held, from) = CHOOSE m \in 0 .. Cardinality(D) : Stops(m)
  BY DEF RunLength
<1> HIDE DEF Stops
<1>4. RunLength(held, from) \in 0 .. Cardinality(D) /\ Stops(RunLength(held, from))
  BY <1>2, <1>3
<1> DEFINE m == RunLength(held, from)
<1>5. m \in Nat /\ \A i \in from .. (from + m - 1) : i \in D
  BY <1>4 DEF Stops
<1> HIDE DEF m
<1>6. m <= limit - from
  <2>1. CASE m = 0
    BY <2>1
  <2>2. CASE m > 0
    <3>1. from + m - 1 \in D
      BY <1>5, <2>2
    <3>2. from + m - 1 \in from .. (limit - 1)
      BY <3>1
    <3> QED
      BY <1>5, <3>2
  <2> QED
    BY <1>5, <2>1, <2>2
<1>7. m \in 0 .. (limit - from) /\ Stops(m)
  BY <1>4, <1>5, <1>6 DEF m
<1> QED
  BY <1>7 DEF m, Stops

(* The bytes of x are the sender's next ones after those in s, and fit. *)
Continues(s, x, src, cap) ==
    /\ x \in Seq(Nat)
    /\ Len(s.pushed) + Len(x) <= s.popped + cap /\ Len(s.pushed) + Len(x) <= Len(src)
    /\ \A k \in 1 .. Len(x) : x[k] = src[Len(s.pushed) + k]

(* Bytes that are the sender's and fit are pushed as they are              *)
(* (byte_stream.cc:15-26).                                                 *)
LEMMA PushGood ==
  ASSUME NEW src, NEW cap, Fits(src, cap),
         NEW s, GoodOutput(s, src, cap), NEW x, Continues(s, x, src, cap)
  PROVE  /\ GoodOutput(WriterPush(s, x), src, cap)
         /\ Len(WriterPush(s, x).pushed) = Len(s.pushed) + Len(x)
         /\ WriterPush(s, x).popped = s.popped /\ WriterPush(s, x).closed = s.closed
         /\ WriterPush(s, x).error = s.error
<1> DEFINE t == WriterPush(s, x)
<1>0. /\ x \in Seq(Nat)
      /\ Len(s.pushed) + Len(x) <= s.popped + cap /\ Len(s.pushed) + Len(x) <= Len(src)
      /\ \A k \in 1 .. Len(x) : x[k] = src[Len(s.pushed) + k]
  BY DEF Continues
<1>1. /\ s \in StreamOf(cap, Nat) /\ s.pushed \in Seq(Nat) /\ Len(s.pushed) \in Nat
      /\ s.popped \in Nat /\ s.capacity = cap
  BY DEF GoodOutput, StreamOf
<1>2. Len(x) \in Nat /\ Len(src) \in Nat /\ cap \in Nat
  BY <1>0, Fitting
<1>3. Take(x, AvailableCapacity(s)) = x
  BY <1>0, <1>1, <1>2 DEF Take, AvailableCapacity
<1>4. t = [s EXCEPT !.pushed = s.pushed \o x]
  BY <1>3 DEF WriterPush
<1>5. /\ s.pushed \o x \in Seq(Nat) /\ Len(s.pushed \o x) = Len(s.pushed) + Len(x)
      /\ \A i \in 1 .. Len(s.pushed) + Len(x) :
            (s.pushed \o x)[i] = IF i <= Len(s.pushed) THEN s.pushed[i] ELSE x[i - Len(s.pushed)]
  BY <1>0, <1>1, ConcatProperties
<1> DEFINE u == s.pushed \o x
<1> HIDE DEF t, u
<1>6. /\ t \in StreamOf(cap, Nat) /\ t.pushed = u /\ t.popped = s.popped
      /\ t.closed = s.closed /\ t.error = s.error
  BY <1>0, <1>1, <1>4, <1>5 DEF StreamOf, u
<1>7. Len(u) = Len(s.pushed) + Len(x)
  BY <1>5 DEF u
<1>8. \A i \in 1 .. Len(u) : u[i] = src[i]
  <2> SUFFICES ASSUME NEW i \in 1 .. Len(u) PROVE u[i] = src[i]
    OBVIOUS
  <2>1. u[i] = IF i <= Len(s.pushed) THEN s.pushed[i] ELSE x[i - Len(s.pushed)]
    BY <1>5, <1>7 DEF u
  <2>2. CASE i <= Len(s.pushed)
    <3>1. i \in 1 .. Len(s.pushed)
      BY <1>0, <1>1, <1>2, <1>7, <2>2
    <3>2. s.pushed[i] = src[i]
      BY <3>1 DEF GoodOutput
    <3> QED
      BY <2>1, <2>2, <3>2
  <2>3. CASE ~(i <= Len(s.pushed))
    <3>1. i - Len(s.pushed) \in 1 .. Len(x) /\ Len(s.pushed) + (i - Len(s.pushed)) = i
      BY <1>0, <1>1, <1>2, <1>7, <2>3
    <3> QED
      BY <1>0, <2>1, <2>3, <3>1
  <2> QED
    BY <2>2, <2>3
<1>9. t.closed /\ ~t.error => Len(u) = Len(src)
  BY <1>0, <1>1, <1>2, <1>6, <1>7 DEF GoodOutput
<1>10. s.popped <= Len(s.pushed)
  BY DEF GoodOutput
<1>11. GoodOutput(t, src, cap)
  BY <1>0, <1>1, <1>2, <1>6, <1>7, <1>8, <1>9, <1>10 DEF GoodOutput
<1> QED
  BY <1>6, <1>7, <1>11 DEF t

(* Flushing moves the bytes without a gap to the output, all of them, and  *)
(* leaves a gap before the rest (reassembler.cc:69-74).                    *)
LEMMA FlushGood ==
  ASSUME NEW src, NEW cap, Fits(src, cap),
         NEW r, NEW held,
         r = [output |-> r.output, held |-> r.held, end_index |-> r.end_index, eof_seen |-> r.eof_seen],
         GoodOutput(r.output, src, cap),
         Mergeable(held, Len(r.output.pushed), r.output.popped + cap, src)
  PROVE  LET t == Flush(r, held)
         IN  /\ t = [output |-> t.output, held |-> t.held, end_index |-> t.end_index,
                     eof_seen |-> t.eof_seen]
             /\ GoodOutput(t.output, src, cap)
             /\ GoodHeld(t.held, Len(t.output.pushed), t.output.popped + cap, src)
             /\ t.end_index = r.end_index /\ t.eof_seen = r.eof_seen
             /\ t.output.popped = r.output.popped /\ t.output.closed = r.output.closed
             /\ t.output.error = r.output.error
             /\ Len(t.output.pushed) >= Len(r.output.pushed)
             /\ Len(t.output.pushed) \notin DOMAIN held
<1> DEFINE t == Flush(r, held)
           s == r.output
           from == Len(s.pushed)
           limit == s.popped + cap
           n == RunLength(held, from)
           x == [k \in 1 .. n |-> held[from + k - 1]]
           rest == [i \in {j \in DOMAIN held : j >= from + n} |-> held[i]]
<1>1. /\ from \in Nat /\ limit \in Nat /\ from <= limit /\ from <= Len(src) /\ Len(src) \in Nat
      /\ s.popped \in Nat
  BY Fitting DEF GoodOutput, StreamOf
<1>2. t = [r EXCEPT !.output = WriterPush(s, x), !.held = rest]
  BY DEF Flush, FirstUnassembled, BytesPushed
<1>3. /\ \A i \in DOMAIN held : i \in from .. (limit - 1) /\ i < Len(src) /\ held[i] = src[i + 1]
  BY DEF Mergeable
<1> HIDE DEF s, from, limit
<1>4. /\ n \in 0 .. (limit - from)
      /\ \A i \in from .. (from + n - 1) : i \in DOMAIN held
      /\ from + n \notin DOMAIN held
  BY <1>1, <1>3, RunIsFound
<1> HIDE DEF n
<1>5. n \in Nat /\ from + n <= limit /\ from + n <= Len(src)
  <2>1. n \in Nat /\ from + n <= limit
    BY <1>1, <1>4
  <2>2. CASE n = 0
    BY <1>1, <2>1, <2>2
  <2>3. CASE n > 0
    <3>1. from + n - 1 \in from .. (from + n - 1)
      BY <1>1, <2>1, <2>3
    <3>2. from + n - 1 < Len(src)
      BY <1>3, <1>4, <3>1
    <3> QED
      BY <1>1, <2>1, <3>2
  <2> QED
    BY <2>1, <2>2, <2>3
<1>6. \A k \in 1 .. n : held[from + k - 1] = src[from + k] /\ src[from + k] \in Nat
  <2> SUFFICES ASSUME NEW k \in 1 .. n
               PROVE  held[from + k - 1] = src[from + k] /\ src[from + k] \in Nat
    OBVIOUS
  <2>1. from + k - 1 \in from .. (from + n - 1) /\ (from + k - 1) + 1 = from + k
        /\ from + k \in 1 .. Len(src)
    BY <1>1, <1>5
  <2>2. held[from + k - 1] = src[(from + k - 1) + 1]
    BY <1>3, <1>4, <2>1
  <2>3. src[from + k] \in Nat
    BY <2>1, Fitting, ElementOfSeq
  <2> QED
    BY <2>1, <2>2, <2>3
<1>7. x \in Seq(Nat) /\ Len(x) = n /\ \A k \in 1 .. n : x[k] = src[from + k]
  <2>1. \A k \in 1 .. n : x[k] = src[from + k] /\ x[k] \in Nat
    BY <1>6
  <2>2. x = [k \in 1 .. n |-> x[k]]
    OBVIOUS
  <2> HIDE DEF x
  <2>3. x \in [1 .. n -> Nat]
    BY <2>1, <2>2
  <2> QED
    BY <1>5, <2>1, <2>3
<1> HIDE DEF x
<1>8. /\ GoodOutput(WriterPush(s, x), src, cap)
      /\ Len(WriterPush(s, x).pushed) = from + n
      /\ WriterPush(s, x).popped = s.popped /\ WriterPush(s, x).closed = s.closed
      /\ WriterPush(s, x).error = s.error
  <2>1. GoodOutput(s, src, cap) /\ Len(s.pushed) = from /\ s.popped + cap = limit
    BY DEF s, from, limit
  <2>2. Continues(s, x, src, cap)
    BY <1>5, <1>7, <2>1 DEF Continues
  <2>3. /\ GoodOutput(WriterPush(s, x), src, cap)
        /\ Len(WriterPush(s, x).pushed) = Len(s.pushed) + Len(x)
        /\ WriterPush(s, x).popped = s.popped /\ WriterPush(s, x).closed = s.closed
        /\ WriterPush(s, x).error = s.error
    BY <2>1, <2>2, PushGood
  <2> QED
    BY <1>7, <2>1, <2>3
<1>9. GoodHeld(rest, from + n, limit, src)
  <2> SUFFICES ASSUME NEW i \in DOMAIN rest
               PROVE  i \in (from + n + 1) .. (limit - 1) /\ i < Len(src) /\ rest[i] = src[i + 1]
    BY DEF GoodHeld
  <2>1. i \in DOMAIN held /\ i >= from + n /\ rest[i] = held[i]
    OBVIOUS
  <2>2. i # from + n
    BY <1>4, <2>1
  <2>3. i \in from .. (limit - 1) /\ i < Len(src) /\ held[i] = src[i + 1]
    BY <1>3, <2>1
  <2>4. i \in (from + n + 1) .. (limit - 1)
    BY <1>1, <1>5, <2>1, <2>2, <2>3
  <2> QED
    BY <2>1, <2>3, <2>4
<1> DEFINE o == WriterPush(s, x)
<1> HIDE DEF rest, o, t
<1>10. t = [output |-> o, held |-> rest, end_index |-> r.end_index, eof_seen |-> r.eof_seen]
  BY <1>2 DEF o
<1>11. /\ t.output = o /\ t.held = rest /\ t.end_index = r.end_index /\ t.eof_seen = r.eof_seen
  BY <1>10
<1>12. /\ GoodOutput(o, src, cap) /\ Len(o.pushed) = from + n /\ o.popped = s.popped /\ o.closed = s.closed
       /\ o.error = s.error
  BY <1>8 DEF o
<1>13. GoodHeld(t.held, Len(t.output.pushed), t.output.popped + cap, src)
  BY <1>9, <1>11, <1>12 DEF limit
<1>14. Len(t.output.pushed) >= from /\ Len(t.output.pushed) \notin DOMAIN held
  BY <1>1, <1>4, <1>5, <1>11, <1>12
<1> QED
  BY <1>10, <1>11, <1>12, <1>13, <1>14 DEF t, s, from

(* What fits of a substring of the stream joins what is held, all of it    *)
(* (reassembler.cc:16-67).                                                 *)
LEMMA MergedGood ==
  ASSUME NEW src, NEW cap, Fits(src, cap),
         NEW r, GoodReassembler(r, src, cap),
         NEW first \in Int, NEW data \in Seq(Nat), SenderBytes(first, data, src)
  PROVE  LET held == Merged(r.held, Accepted(r, first, data))
             from == Len(r.output.pushed)
             limit == r.output.popped + cap
         IN  /\ Mergeable(held, from, limit, src)
             /\ \A i \in first .. (first + Len(data) - 1) :
                   from <= i /\ i < limit => i \in DOMAIN held
<1> DEFINE new == Accepted(r, first, data)
           held == Merged(r.held, new)
           from == Len(r.output.pushed)
           limit == r.output.popped + cap
<1>1. /\ from \in Nat /\ limit \in Nat /\ Len(src) \in Nat /\ Len(data) \in Nat
      /\ r.output.popped \in Nat /\ r.output.capacity = cap
  BY Fitting DEF GoodReassembler, GoodOutput, StreamOf
<1>2. FirstUnassembled(r) = from /\ FirstUnacceptable(r) = limit
  <2> DEFINE f == Len(r.output.pushed)
             p == r.output.popped
  <2>1. f \in Int /\ p \in Int /\ cap \in Int
    BY <1>1, Fitting
  <2>2. FirstUnassembled(r) = f /\ FirstUnacceptable(r) = f + (cap - (f - p))
    BY <1>1 DEF FirstUnassembled, FirstUnacceptable, BytesPushed, AvailableCapacity
  <2> HIDE DEF f, p
  <2>3. f + (cap - (f - p)) = p + cap
    BY ONLY <2>1
  <2> QED
    BY <2>2, <2>3 DEF f, p
<1>3. /\ DOMAIN new = {j \in first .. (first + Len(data) - 1) : from <= j /\ j < limit}
      /\ \A i \in DOMAIN new : new[i] = data[i - first + 1]
  BY <1>2 DEF Accepted
<1>4. /\ DOMAIN held = DOMAIN r.held \cup DOMAIN new
      /\ \A i \in DOMAIN held : held[i] = IF i \in DOMAIN r.held THEN r.held[i] ELSE new[i]
  BY DEF Merged
<1> HIDE DEF new, held, from, limit
<1>5. \A i \in DOMAIN r.held :
         i \in (from + 1) .. (limit - 1) /\ i < Len(src) /\ r.held[i] = src[i + 1]
  BY DEF GoodReassembler, GoodHeld, from, limit
<1>6. Mergeable(held, from, limit, src)
  <2> SUFFICES ASSUME NEW i \in DOMAIN held
               PROVE  i \in from .. (limit - 1) /\ i < Len(src) /\ held[i] = src[i + 1]
    BY DEF Mergeable
  <2>1. CASE i \in DOMAIN r.held
    BY <1>1, <1>4, <1>5, <2>1
  <2>2. CASE i \in DOMAIN new /\ i \notin DOMAIN r.held
    <3>1. i \in first .. (first + Len(data) - 1) /\ from <= i /\ i < limit /\ held[i] = data[i - first + 1]
      BY <1>3, <1>4, <2>2
    <3>2. i \in Int /\ Len(data) > 0 /\ i - first + 1 \in 1 .. Len(data) /\ first + (i - first + 1) = i + 1
      <4> DEFINE l == Len(data)
      <4>1. l \in Nat /\ first \in Int /\ i \in first .. (first + l - 1)
        BY <1>1, <3>1
      <4> HIDE DEF l
      <4>2. i \in Int /\ first <= i /\ i <= first + l - 1
        BY ONLY <4>1
      <4>3. l > 0 /\ i - first + 1 \in 1 .. l /\ first + (i - first + 1) = i + 1
        BY ONLY <4>1, <4>2
      <4> QED
        BY <4>2, <4>3 DEF l
    <3>3. /\ first \in Nat /\ first + Len(data) <= Len(src)
          /\ \A k \in 1 .. Len(data) : data[k] = src[first + k]
      <4>1. data # <<>>
        BY <3>2
      <4> QED
        BY <4>1 DEF SenderBytes
    <3>4. data[i - first + 1] = src[i + 1]
      BY <3>2, <3>3
    <3>5. i < Len(src)
      BY <1>1, <3>1, <3>3
    <3> QED
      BY <1>1, <3>1, <3>4, <3>5
  <2> QED
    BY <1>4, <2>1, <2>2
<1>7. \A i \in first .. (first + Len(data) - 1) : from <= i /\ i < limit => i \in DOMAIN held
  BY <1>3, <1>4
<1> QED
  BY <1>6, <1>7 DEF held, from, limit, new

(* Closing the stream at its end is right. *)
LEMMA CloseGood ==
  ASSUME NEW src, NEW cap, Fits(src, cap),
         NEW r, GoodReassembler(r, src, cap)
  PROVE  LET t == CloseAtEnd(r)
         IN  /\ GoodReassembler(t, src, cap)
             /\ t.output.pushed = r.output.pushed /\ t.output.popped = r.output.popped
             /\ t.output.error = r.output.error
             /\ r.output.closed => t.output.closed
             /\ t.eof_seen = r.eof_seen /\ (t.output.closed => r.output.closed \/ r.eof_seen)
             /\ r.eof_seen /\ Len(r.output.pushed) = Len(src) => t.output.closed
<1> DEFINE t == CloseAtEnd(r)
<1>1. /\ r = [output |-> r.output, held |-> r.held, end_index |-> r.end_index, eof_seen |-> r.eof_seen]
      /\ GoodOutput(r.output, src, cap)
      /\ GoodHeld(r.held, Len(r.output.pushed), r.output.popped + cap, src)
      /\ r.eof_seen \in BOOLEAN /\ (r.eof_seen => r.end_index = Len(src))
  BY DEF GoodReassembler
<1>2. CASE ~(r.eof_seen /\ BytesPushed(r.output) = r.end_index)
  <2>1. t = r
    BY <1>2 DEF CloseAtEnd
  <2>2. ~(r.eof_seen /\ Len(r.output.pushed) = Len(src))
    BY <1>1, <1>2 DEF BytesPushed
  <2> QED
    BY <2>1, <2>2
<1>3. CASE r.eof_seen /\ BytesPushed(r.output) = r.end_index
  <2> DEFINE s == r.output
             o == WriterClose(s)
  <2>1. t = [r EXCEPT !.output = o]
    BY <1>3 DEF CloseAtEnd
  <2>2. /\ o \in StreamOf(cap, Nat) /\ o.pushed = s.pushed /\ o.popped = s.popped
        /\ o.error = s.error /\ o.closed = TRUE
    BY <1>1 DEF GoodOutput, StreamOf, WriterClose
  <2> HIDE DEF o, t
  <2>3. Len(s.pushed) = Len(src)
    BY <1>1, <1>3 DEF BytesPushed
  <2>4. GoodOutput(o, src, cap)
    BY <1>1, <2>2, <2>3 DEF GoodOutput
  <2> HIDE DEF s
  <2>5. t = [output |-> o, held |-> r.held, end_index |-> r.end_index, eof_seen |-> r.eof_seen]
    BY <1>1, <2>1
  <2>6. t.output = o /\ t.held = r.held /\ t.end_index = r.end_index /\ t.eof_seen = r.eof_seen
    BY <2>5
  <2>7. GoodHeld(t.held, Len(t.output.pushed), t.output.popped + cap, src)
    BY <1>1, <2>2, <2>6 DEF s
  <2>8. GoodReassembler(t, src, cap)
    BY <1>1, <2>4, <2>5, <2>6, <2>7 DEF GoodReassembler
  <2> QED
    BY <1>3, <2>2, <2>6, <2>8 DEF t, s
<1> QED
  BY <1>2, <1>3

(* insert() keeps the reassembler good, never takes anything back, and     *)
(* pushes a substring that begins at or before the next byte expected and  *)
(* fits, to its end (reassembler.cc:4-78).                                 *)
LEMMA InsertGood ==
  ASSUME NEW src, NEW cap, Fits(src, cap),
         NEW r, GoodReassembler(r, src, cap), NEW first \in Int, NEW data \in Seq(Nat), NEW last \in BOOLEAN,
         SenderBytes(first, data, src), last => first \in Nat /\ first + Len(data) = Len(src)
  PROVE  LET t == Insert(r, first, data, last)
         IN  /\ GoodReassembler(t, src, cap)
             /\ t.output.popped = r.output.popped /\ t.output.error = r.output.error
             /\ r.output.closed => t.output.closed
             /\ Len(t.output.pushed) >= Len(r.output.pushed)
             /\ first <= Len(r.output.pushed) /\ first + Len(data) <= r.output.popped + cap
                  => Len(t.output.pushed) >= first + Len(data)
             /\ last /\ Len(t.output.pushed) = Len(src) => t.output.closed
             /\ (t.eof_seen => r.eof_seen \/ last) /\ (r.eof_seen \/ last => t.eof_seen)
             /\ t.output.closed => r.output.closed \/ t.eof_seen
<1> DEFINE noted == NoteEnd(r, first, data, last)
           held == Merged(r.held, Accepted(r, first, data))
           u == Flush(noted, held)
           t == CloseAtEnd(u)
           from == Len(r.output.pushed)
           limit == r.output.popped + cap
<1>1. /\ r = [output |-> r.output, held |-> r.held, end_index |-> r.end_index, eof_seen |-> r.eof_seen]
      /\ GoodOutput(r.output, src, cap)
      /\ GoodHeld(r.held, from, limit, src)
      /\ r.eof_seen \in BOOLEAN /\ (r.eof_seen => r.end_index = Len(src))
  BY DEF GoodReassembler
<1>2. from \in Nat /\ limit \in Nat /\ Len(data) \in Nat
  BY <1>1, Fitting DEF GoodOutput, StreamOf
<1>3. /\ noted = [output |-> noted.output, held |-> noted.held,
                  end_index |-> noted.end_index, eof_seen |-> noted.eof_seen]
      /\ noted.output = r.output
      /\ noted.eof_seen \in BOOLEAN /\ (noted.eof_seen => noted.end_index = Len(src))
      /\ last => noted.eof_seen
      /\ noted.eof_seen => r.eof_seen \/ last
      /\ r.eof_seen => noted.eof_seen
  <2>1. CASE last
    <3>1. (first + Len(data)) % AbsMod = Len(src)
      <4>1. first + Len(data) = Len(src) /\ Len(src) \in 0 .. (AbsMod - 1)
        BY <2>1, Fitting
      <4>2. Len(src) % AbsMod = Len(src)
        BY <4>1, SmallMod, Fitting
      <4> QED
        BY <4>1, <4>2
    <3>2. noted = [r EXCEPT !.end_index = Len(src), !.eof_seen = TRUE]
      BY <2>1, <3>1 DEF NoteEnd
    <3> HIDE DEF noted
    <3>3. noted = [output |-> r.output, held |-> r.held, end_index |-> Len(src), eof_seen |-> TRUE]
      BY <1>1, <3>2
    <3> QED
      BY <2>1, <3>3
  <2>2. CASE ~last
    <3>1. noted = r
      BY <2>2 DEF NoteEnd
    <3> HIDE DEF noted
    <3> QED
      BY <1>1, <2>2, <3>1
  <2> QED
    BY <2>1, <2>2
<1>4. /\ Mergeable(held, from, limit, src)
      /\ \A i \in first .. (first + Len(data) - 1) : from <= i /\ i < limit => i \in DOMAIN held
  BY MergedGood
<1>5. Insert(r, first, data, last) = t
  BY DEF Insert
<1> HIDE DEF noted, held
<1>6. /\ u = [output |-> u.output, held |-> u.held, end_index |-> u.end_index, eof_seen |-> u.eof_seen]
      /\ GoodOutput(u.output, src, cap)
      /\ GoodHeld(u.held, Len(u.output.pushed), u.output.popped + cap, src)
      /\ u.end_index = noted.end_index /\ u.eof_seen = noted.eof_seen
      /\ u.output.popped = r.output.popped /\ u.output.closed = r.output.closed
      /\ u.output.error = r.output.error
      /\ Len(u.output.pushed) >= from
      /\ Len(u.output.pushed) \notin DOMAIN held
  <2>1. /\ GoodOutput(noted.output, src, cap)
        /\ Mergeable(held, Len(noted.output.pushed), noted.output.popped + cap, src)
    BY <1>1, <1>3, <1>4
  <2>2. LET v == Flush(noted, held)
        IN  /\ v = [output |-> v.output, held |-> v.held, end_index |-> v.end_index, eof_seen |-> v.eof_seen]
            /\ GoodOutput(v.output, src, cap)
            /\ GoodHeld(v.held, Len(v.output.pushed), v.output.popped + cap, src)
            /\ v.end_index = noted.end_index /\ v.eof_seen = noted.eof_seen
            /\ v.output.popped = noted.output.popped /\ v.output.closed = noted.output.closed
            /\ v.output.error = noted.output.error
            /\ Len(v.output.pushed) >= Len(noted.output.pushed)
            /\ Len(v.output.pushed) \notin DOMAIN held
    BY <1>3, <2>1, FlushGood
  <2> QED
    BY <1>3, <2>2
<1> HIDE DEF u
<1>7. GoodReassembler(u, src, cap)
  BY <1>3, <1>6 DEF GoodReassembler
<1>8. /\ GoodReassembler(t, src, cap)
      /\ t.output.pushed = u.output.pushed /\ t.output.popped = u.output.popped
      /\ t.output.error = u.output.error
      /\ u.output.closed => t.output.closed
      /\ t.eof_seen = u.eof_seen /\ (t.output.closed => u.output.closed \/ u.eof_seen)
      /\ u.eof_seen /\ Len(u.output.pushed) = Len(src) => t.output.closed
  BY <1>7, CloseGood
<1> HIDE DEF t
<1>9. ASSUME first <= from, first + Len(data) <= limit
      PROVE  Len(u.output.pushed) >= first + Len(data)
  <2> DEFINE q == Len(u.output.pushed)
  <2>1. q \in Nat
    BY <1>6 DEF GoodOutput, StreamOf
  <2>2. q >= from /\ q \notin DOMAIN held
    BY <1>6
  <2> HIDE DEF q, from, limit
  <2>3. CASE q < first + Len(data)
    <3>1. q \in first .. (first + Len(data) - 1) /\ from <= q /\ q < limit
      BY <1>2, <1>9, <2>1, <2>2, <2>3
    <3> QED
      BY <1>4, <2>2, <3>1
  <2>4. CASE q >= first + Len(data)
    BY <2>4 DEF q
  <2> QED
    BY <1>2, <2>1, <2>3, <2>4
<1> QED
  BY <1>3, <1>5, <1>6, <1>8, <1>9

(* The fields of a good reassembler's output. *)
LEMMA OutputTypes ==
  ASSUME NEW src, NEW cap, Fits(src, cap),
         NEW r, GoodReassembler(r, src, cap)
  PROVE  /\ Len(r.output.pushed) \in 0 .. Len(src) /\ r.output.pushed \in Seq(Nat)
         /\ r.output.popped \in Nat /\ r.output.popped <= Len(r.output.pushed)
         /\ Len(r.output.pushed) <= r.output.popped + cap
         /\ r.output.closed \in BOOLEAN /\ r.output.error \in BOOLEAN
         /\ AvailableCapacity(r.output) = cap - (Len(r.output.pushed) - r.output.popped)
         /\ AvailableCapacity(r.output) \in Nat
<1>1. /\ r.output \in StreamOf(cap, Nat) /\ Len(r.output.pushed) <= Len(src)
      /\ r.output.popped <= Len(r.output.pushed) /\ Len(r.output.pushed) <= r.output.popped + cap
  BY DEF GoodReassembler, GoodOutput
<1>2. /\ r.output.pushed \in Seq(Nat) /\ r.output.popped \in Nat /\ r.output.capacity = cap
      /\ r.output.closed \in BOOLEAN /\ r.output.error \in BOOLEAN
  BY <1>1 DEF StreamOf
<1>3. Len(r.output.pushed) \in Nat
  BY <1>2
<1> QED
  BY <1>1, <1>2, <1>3, Fitting DEF AvailableCapacity

(* What has become of reassembler r is t: nothing was taken back. *)
Grown(r, t, src, cap) ==
    /\ GoodReassembler(t, src, cap)
    /\ t.output.popped >= r.output.popped
    /\ Len(t.output.pushed) >= Len(r.output.pushed)
    /\ r.output.closed => t.output.closed

(* A reset closes the stream with an error and leaves what is in it        *)
(* (tcp_receiver.cc:9-13).                                                 *)
LEMMA ResetTaken ==
  ASSUME NEW src, NEW cap, Fits(src, cap),
         NEW r, GoodReassembler(r, src, cap)
  PROVE  /\ GoodReassembler(Abort(r), src, cap) /\ Abort(r).output.pushed = r.output.pushed
         /\ Abort(r).output.error = TRUE /\ Abort(r).output.closed = TRUE
         /\ Abort(r).eof_seen = r.eof_seen /\ Abort(r).output.popped = r.output.popped
<1> DEFINE s == r.output
           o == WriterClose(SetError(s))
           t == Abort(r)
<1>1. /\ r = [output |-> r.output, held |-> r.held, end_index |-> r.end_index, eof_seen |-> r.eof_seen]
      /\ GoodOutput(s, src, cap)
      /\ GoodHeld(r.held, Len(r.output.pushed), r.output.popped + cap, src)
      /\ r.eof_seen \in BOOLEAN /\ (r.eof_seen => r.end_index = Len(src))
  BY DEF GoodReassembler
<1>2. t = [r EXCEPT !.output = o]
  BY DEF Abort
<1>3. /\ o \in StreamOf(cap, Nat) /\ o.pushed = s.pushed /\ o.popped = s.popped
      /\ o.error = TRUE /\ o.closed = TRUE
  BY <1>1 DEF GoodOutput, StreamOf, WriterClose, SetError
<1> HIDE DEF o, t
<1>4. GoodOutput(o, src, cap)
  BY <1>1, <1>3 DEF GoodOutput
<1> HIDE DEF s
<1>5. t = [output |-> o, held |-> r.held, end_index |-> r.end_index, eof_seen |-> r.eof_seen]
  BY <1>1, <1>2
<1>6. t.output = o /\ t.held = r.held /\ t.end_index = r.end_index /\ t.eof_seen = r.eof_seen
  BY <1>5
<1>7. GoodHeld(t.held, Len(t.output.pushed), t.output.popped + cap, src)
  BY <1>1, <1>3, <1>6 DEF s
<1>8. GoodReassembler(t, src, cap)
  BY <1>1, <1>4, <1>5, <1>6, <1>7 DEF GoodReassembler
<1> QED
  BY <1>3, <1>6, <1>8 DEF t, s

(* Reading makes room in the window and takes nothing away from it         *)
(* (byte_stream.cc, Reader::pop).                                          *)
LEMMA ReadTaken ==
  ASSUME NEW src, NEW cap, Fits(src, cap),
         NEW r, GoodReassembler(r, src, cap), NEW len \in Nat, len <= BytesBuffered(r.output)
  PROVE  LET t == ReadOutput(r, len)
         IN  /\ Grown(r, t, src, cap) /\ t.output.pushed = r.output.pushed
             /\ t.output.closed = r.output.closed /\ t.output.error = r.output.error
             /\ t.eof_seen = r.eof_seen
<1> DEFINE s == r.output
           o == ReaderPop(s, len)
           t == ReadOutput(r, len)
<1>1. /\ r = [output |-> r.output, held |-> r.held, end_index |-> r.end_index, eof_seen |-> r.eof_seen]
      /\ GoodOutput(s, src, cap)
      /\ GoodHeld(r.held, Len(r.output.pushed), r.output.popped + cap, src)
      /\ r.eof_seen \in BOOLEAN /\ (r.eof_seen => r.end_index = Len(src))
  BY DEF GoodReassembler
<1>2. t = [r EXCEPT !.output = o]
  BY DEF ReadOutput
<1>3. /\ Len(s.pushed) \in Nat /\ s.popped \in Nat /\ s.popped <= Len(s.pushed) /\ cap \in Nat
      /\ s.closed \in BOOLEAN
  BY OutputTypes, Fitting
<1>4. len <= Len(s.pushed) - s.popped
  BY DEF BytesBuffered
<1>5. o = [s EXCEPT !.popped = s.popped + len]
  BY <1>3, <1>4 DEF ReaderPop, BytesBuffered
<1>6. /\ o \in StreamOf(cap, Nat) /\ o.pushed = s.pushed /\ o.popped = s.popped + len
      /\ o.error = s.error /\ o.closed = s.closed
  BY <1>1, <1>3, <1>5 DEF GoodOutput, StreamOf
<1> HIDE DEF o, t
<1>7. GoodOutput(o, src, cap)
  <2>1. Len(s.pushed) <= s.popped + cap
    BY <1>1 DEF GoodOutput
  <2>2. o.popped <= Len(o.pushed) /\ Len(o.pushed) <= o.popped + cap
    BY <1>3, <1>4, <1>6, <2>1
  <2> QED
    BY <1>1, <1>6, <2>2 DEF GoodOutput
<1> HIDE DEF s
<1>8. t = [output |-> o, held |-> r.held, end_index |-> r.end_index, eof_seen |-> r.eof_seen]
  BY <1>1, <1>2
<1>9. t.output = o /\ t.held = r.held /\ t.end_index = r.end_index /\ t.eof_seen = r.eof_seen
  BY <1>8
<1>10. GoodHeld(r.held, Len(o.pushed), o.popped + cap, src)
  <2> DEFINE from == Len(o.pushed)
             limit == o.popped + cap
             before == s.popped + cap
  <2>1. GoodHeld(r.held, from, before, src) /\ before \in Nat /\ limit \in Nat /\ before <= limit /\ from \in Nat
    BY <1>1, <1>3, <1>6 DEF s
  <2> HIDE DEF from, limit, before
  <2>2. GoodHeld(r.held, from, limit, src)
    BY <2>1 DEF GoodHeld
  <2> QED
    BY <2>2 DEF from, limit
<1>11. GoodReassembler(t, src, cap)
  BY <1>1, <1>7, <1>8, <1>9, <1>10 DEF GoodReassembler
<1>12. t.output.popped >= s.popped /\ Len(t.output.pushed) >= Len(s.pushed) /\ (s.closed => t.output.closed)
  BY <1>3, <1>6, <1>9
<1> QED
  BY <1>6, <1>9, <1>11, <1>12 DEF Grown, t, s

(* What the output of a good reassembler holds is a prefix of the stream. *)
LEMMA OutputIsPrefix ==
  ASSUME NEW src, NEW cap, Fits(src, cap),
         NEW r, GoodReassembler(r, src, cap)
  PROVE  /\ r.output.pushed = SubSeq(src, 1, Len(r.output.pushed))
         /\ r.output.closed /\ ~r.output.error => r.output.pushed = src
<1> DEFINE got == r.output.pushed
           n == Len(got)
           pre == SubSeq(src, 1, n)
<1>1. /\ got \in Seq(Nat) /\ n \in 0 .. Len(src) /\ src \in Seq(Nat) /\ Len(src) \in Nat
  BY OutputTypes, Fitting
<1>2. /\ \A i \in 1 .. n : got[i] = src[i]
      /\ r.output.closed /\ ~r.output.error => n = Len(src)
  BY DEF GoodReassembler, GoodOutput
<1> HIDE DEF n
<1>3. \A i \in 1 .. n : src[i] \in Nat
  <2> SUFFICES ASSUME NEW i \in 1 .. n PROVE src[i] \in Nat
    OBVIOUS
  <2>1. i \in 1 .. Len(src)
    BY <1>1
  <2> QED
    BY <1>1, <2>1, ElementOfSeq
<1>4. /\ pre \in Seq(Nat) /\ Len(pre) = IF 1 <= n THEN n - 1 + 1 ELSE 0
      /\ \A i \in 1 .. n - 1 + 1 : pre[i] = src[1 + i - 1]
  <2>1. 1 \in Int /\ n \in Int
    BY <1>1
  <2> QED
    BY <1>3, <2>1, SubSeqProperties
<1> HIDE DEF pre
<1>5. Len(pre) = n
  BY <1>1, <1>4
<1>6. \A i \in 1 .. n : pre[i] = src[i]
  <2> SUFFICES ASSUME NEW i \in 1 .. n PROVE pre[i] = src[i]
    OBVIOUS
  <2>1. i \in 1 .. n - 1 + 1 /\ 1 + i - 1 = i
    BY <1>1
  <2> QED
    BY <1>4, <2>1
<1> HIDE DEF got
<1>7. Len(got) = n
  BY DEF got, n
<1>8. got = pre
  BY <1>1, <1>2, <1>4, <1>5, <1>6, <1>7, SeqEqual
<1>9. ASSUME r.output.closed /\ ~r.output.error PROVE got = src
  <2>1. n = Len(src)
    BY <1>2, <1>9
  <2> QED
    BY <1>1, <1>2, <1>7, <2>1, SeqEqual
<1> QED
  BY <1>8, <1>9 DEF got, pre, n

(* The acknowledgement in numbers. *)
LEMMA AckedInNumbers ==
  ASSUME NEW src, NEW cap, Fits(src, cap),
         NEW a, GoodReassembler(a.reassembler, src, cap)
  PROVE  /\ AckedThrough(a) = 1 + Len(Inbound(a).pushed) + (IF Inbound(a).closed THEN 1 ELSE 0)
         /\ AckedThrough(a) \in 1 .. (Len(src) + 2)
<1> DEFINE p == Len(Inbound(a).pushed)
           c == IF Inbound(a).closed THEN 1 ELSE 0
<1>1. p \in 0 .. Len(src) /\ c \in {0, 1} /\ Len(src) \in Nat
  BY OutputTypes, Fitting DEF Inbound
<1>2. AckedThrough(a) = 1 + p + c
  BY DEF AckedThrough, BytesPushed
<1> HIDE DEF p, c
<1>3. AckedThrough(a) \in 1 .. (Len(src) + 2)
  BY <1>1, <1>2
<1> QED
  BY <1>2, <1>3 DEF p, c

(* The first sequence number is the sender's ISN. *)
LEMMA WrapOfZero ==
  ASSUME NEW isn \in Seqno
  PROVE  Wrap(0, isn) = isn
<1>1. isn \in 0 .. (SeqMod - 1) /\ 0 \in 0 .. (SeqMod - 1)
  BY WidthAssumption DEF Seqno
<1>2. 0 % SeqMod = 0 /\ isn % SeqMod = isn
  BY <1>1, SmallMod, WidthAssumption
<1>3. isn + 0 = isn
  BY <1>1
<1> QED
  BY <1>2, <1>3 DEF Wrap, Plus

(* A reassembler to begin with is good for every stream. *)
LEMMA NewReassemblerIsGood ==
  ASSUME NEW src, NEW cap, Fits(src, cap)
  PROVE  LET r == NewReassembler(cap)
         IN  /\ GoodReassembler(r, src, cap) /\ Len(r.output.pushed) = 0
             /\ r.output.closed = FALSE /\ r.output.error = FALSE /\ r.eof_seen = FALSE
<1> DEFINE s == NewStream(cap)
           r == NewReassembler(cap)
<1>1. /\ s \in StreamOf(cap, Nat) /\ s.pushed = <<>> /\ s.popped = 0 /\ s.closed = FALSE /\ s.error = FALSE
  BY Fitting, EmptySeq DEF NewStream, StreamOf
<1>2. /\ r.output = s /\ r.held = <<>> /\ r.end_index = 0 /\ r.eof_seen = FALSE
      /\ r = [output |-> r.output, held |-> r.held, end_index |-> r.end_index, eof_seen |-> r.eof_seen]
  BY DEF NewReassembler
<1> HIDE DEF s, r
<1>3. Len(s.pushed) = 0
  BY <1>1
<1>4. GoodOutput(s, src, cap)
  BY <1>1, <1>3, Fitting DEF GoodOutput
<1>5. GoodHeld(r.held, Len(r.output.pushed), r.output.popped + cap, src)
  BY <1>2 DEF GoodHeld
<1>6. GoodReassembler(r, src, cap)
  BY <1>2, <1>4, <1>5 DEF GoodReassembler
<1> QED
  BY <1>1, <1>2, <1>3, <1>6 DEF r

(* A good reassembler stays good while the stream grows, unless it has     *)
(* seen the end of it.                                                     *)
LEMMA StreamGrows ==
  ASSUME NEW src, NEW cap, Fits(src, cap), NEW more, Fits(more, cap),
         Len(src) <= Len(more), \A i \in 1 .. Len(src) : more[i] = src[i],
         NEW r, GoodReassembler(r, src, cap),
         r.eof_seen \/ (r.output.closed /\ ~r.output.error) => more = src
  PROVE  GoodReassembler(r, more, cap)
<1>1. /\ r = [output |-> r.output, held |-> r.held, end_index |-> r.end_index, eof_seen |-> r.eof_seen]
      /\ GoodOutput(r.output, src, cap)
      /\ GoodHeld(r.held, Len(r.output.pushed), r.output.popped + cap, src)
      /\ r.eof_seen \in BOOLEAN /\ (r.eof_seen => r.end_index = Len(src))
  BY DEF GoodReassembler
<1>2. Len(src) \in Nat /\ Len(more) \in Nat /\ Len(r.output.pushed) \in Nat
  BY Fitting, OutputTypes
<1>3. GoodOutput(r.output, more, cap)
  <2>1. Len(r.output.pushed) <= Len(more)
    BY <1>1, <1>2 DEF GoodOutput
  <2>2. \A i \in 1 .. Len(r.output.pushed) : r.output.pushed[i] = more[i]
    <3> SUFFICES ASSUME NEW i \in 1 .. Len(r.output.pushed) PROVE r.output.pushed[i] = more[i]
      OBVIOUS
    <3>1. r.output.pushed[i] = src[i] /\ Len(r.output.pushed) <= Len(src)
      BY <1>1 DEF GoodOutput
    <3>2. i \in 1 .. Len(src)
      BY <1>2, <3>1
    <3> QED
      BY <3>1, <3>2
  <2>3. r.output.closed /\ ~r.output.error => Len(r.output.pushed) = Len(more)
    BY <1>1 DEF GoodOutput
  <2> QED
    BY <1>1, <2>1, <2>2, <2>3 DEF GoodOutput
<1>4. GoodHeld(r.held, Len(r.output.pushed), r.output.popped + cap, more)
  <2> DEFINE from == Len(r.output.pushed)
             limit == r.output.popped + cap
  <2>1. from \in Nat
    BY <1>2
  <2>2. GoodHeld(r.held, from, limit, src)
    BY <1>1
  <2> HIDE DEF from, limit
  <2> SUFFICES ASSUME NEW i \in DOMAIN r.held
               PROVE  i \in (from + 1) .. (limit - 1) /\ i < Len(more) /\ r.held[i] = more[i + 1]
    BY DEF GoodHeld, from, limit
  <2>3. i \in (from + 1) .. (limit - 1) /\ i < Len(src) /\ r.held[i] = src[i + 1]
    BY <2>2 DEF GoodHeld
  <2>4. i + 1 \in 1 .. Len(src) /\ i < Len(more)
    BY <1>2, <2>1, <2>3
  <2> QED
    BY <2>3, <2>4
<1> QED
  BY <1>1, <1>3, <1>4 DEF GoodReassembler

(* The window field is a number that fits into it. *)
LEMMA ReceiverSendType ==
  ASSUME NEW src, NEW cap, Fits(src, cap), NEW a, GoodReassembler(a.reassembler, src, cap),
         a.isn \in Seqno \cup {NoSeqno}
  PROVE  ReceiverSend(a) \in AnyReceiverMessage
<1>1. AvailableCapacity(Inbound(a)) \in Nat /\ WinMax \in Nat
  BY OutputTypes, WindowAssumption DEF Inbound
<1>2. WindowSize(a) \in 0 .. WinMax
  BY <1>1 DEF WindowSize
<1>3. AckedThrough(a) \in Nat
  <2>1. AckedThrough(a) \in 1 .. (Len(src) + 2)
    BY AckedInNumbers
  <2>2. Len(src) \in Nat
    BY Fitting
  <2> QED
    BY <2>1, <2>2
<1>4. CASE Inbound(a).error
  BY <1>1, <1>4 DEF ReceiverSend, ReceiverMessage, AnyReceiverMessage
<1>5. CASE ~Inbound(a).error /\ a.isn = NoSeqno
  BY <1>2, <1>5 DEF ReceiverSend, ReceiverMessage, AnyReceiverMessage
<1>6. CASE ~Inbound(a).error /\ a.isn # NoSeqno
  <2>1. Wrap(AckedThrough(a), a.isn) \in Seqno
    BY <1>3, <1>6, WrapType
  <2> QED
    BY <1>2, <1>6, <2>1 DEF ReceiverSend, ReceiverMessage, AnyReceiverMessage
<1> QED
  BY <1>4, <1>5, <1>6

-----------------------------------------------------------------------------
(* One direction of a connection: the sender s of one peer, the receiver r *)
(* of the other, whose buffer has cap bytes, and the messages between them *)

(* The bytes that have left the sender's stream. *)
Sent(s) == SubSeq(s.input.pushed, 1, s.input.popped)

(* m is a segment that s sent: it carries the stream at number a on.  An   *)
(* empty segment may be at any number so far.                              *)
Piece(m, a, s) ==
    /\ m.seqno = Wrap(a, s.isn)
    /\ a + SequenceLength(m) <= s.next_seqno
    /\ m.SYN => a = 0
    /\ a = 0 /\ SequenceLength(m) > 0 => m.SYN
    /\ SenderBytes(a + Bit(m.SYN) - 1, m.payload, Sent(s))
    /\ m.FIN => s.fin_sent /\ a + SequenceLength(m) = s.next_seqno

IsPiece(m, s) == m \in MessageRecord /\ \E a \in Nat : Piece(m, a, s)

(* What has become of sender s is t: what was sent stays sent, and after   *)
(* FIN nothing more is.                                                    *)
Continued(s, t) ==
    /\ t.isn = s.isn /\ s.next_seqno <= t.next_seqno
    /\ s.syn_sent => t.syn_sent
    /\ s.fin_sent => t.fin_sent /\ t.next_seqno = s.next_seqno /\ Sent(t) = Sent(s)
    /\ Len(Sent(s)) <= Len(Sent(t))
    /\ \A i \in 1 .. Len(Sent(s)) : Sent(t)[i] = Sent(s)[i]

(* What was sent is what was popped from the stream. *)
LEMMA SentFacts ==
  ASSUME NEW s, GoodSender(s)
  PROVE  /\ Sent(s) \in Seq(Nat) /\ Len(Sent(s)) = s.input.popped
         /\ \A i \in 1 .. s.input.popped : Sent(s)[i] = s.input.pushed[i]
         /\ \A cap \in Nat : Fits(Sent(s), cap)
<1> DEFINE d == s.input.pushed
           n == s.input.popped
           pre == SubSeq(d, 1, n)
<1>1. /\ d \in Seq(Nat) /\ Len(d) \in Nat /\ n \in Nat /\ n <= Len(d)
      /\ Len(d) + 2 + WinMax < AbsMod /\ WinMax \in Nat
  BY SenderTypes DEF GoodSender, Accounted
<1>2. Sent(s) = pre
  BY DEF Sent
<1> HIDE DEF d, n
<1>3. \A i \in 1 .. n : d[i] \in Nat
  <2> SUFFICES ASSUME NEW i \in 1 .. n PROVE d[i] \in Nat
    OBVIOUS
  <2>1. i \in 1 .. Len(d)
    BY <1>1
  <2> QED
    BY <1>1, <2>1, ElementOfSeq
<1>4. /\ pre \in Seq(Nat) /\ Len(pre) = IF 1 <= n THEN n - 1 + 1 ELSE 0
      /\ \A i \in 1 .. n - 1 + 1 : pre[i] = d[1 + i - 1]
  <2>1. 1 \in Int /\ n \in Int
    BY <1>1
  <2> QED
    BY <1>3, <2>1, SubSeqProperties
<1> HIDE DEF pre
<1>5. Len(pre) = n
  BY <1>1, <1>4
<1>6. \A i \in 1 .. n : pre[i] = d[i]
  <2> SUFFICES ASSUME NEW i \in 1 .. n PROVE pre[i] = d[i]
    OBVIOUS
  <2>1. i \in 1 .. n - 1 + 1 /\ 1 + i - 1 = i
    BY <1>1
  <2> QED
    BY <1>4, <2>1
<1>7. AbsMod \in Nat
  BY WidthAssumption
<1>8. \A cap \in Nat : Fits(pre, cap)
  BY <1>1, <1>4, <1>5, <1>7 DEF Fits
<1> QED
  BY <1>2, <1>4, <1>5, <1>6, <1>8 DEF d, n

(* The sender's bytes stay where they are. *)
LEMMA BytesStay ==
  ASSUME NEW src, NEW more, Len(src) \in Nat, Len(more) \in Nat, Len(src) <= Len(more),
         \A i \in 1 .. Len(src) : more[i] = src[i],
         NEW first \in Int, NEW data \in Seq(Nat), SenderBytes(first, data, src)
  PROVE  SenderBytes(first, data, more)
<1>1. CASE data = <<>>
  BY <1>1 DEF SenderBytes
<1>2. CASE data # <<>>
  <2> DEFINE l == Len(data)
  <2>1. first \in Nat /\ first + l <= Len(src) /\ \A k \in 1 .. l : data[k] = src[first + k]
    BY <1>2 DEF SenderBytes
  <2>2. l \in Nat
    OBVIOUS
  <2> HIDE DEF l
  <2>3. first + l <= Len(more)
    BY <2>1, <2>2
  <2>4. \A k \in 1 .. l : data[k] = more[first + k]
    <3> SUFFICES ASSUME NEW k \in 1 .. l PROVE data[k] = more[first + k]
      OBVIOUS
    <3>1. first + k \in 1 .. Len(src)
      BY <2>1, <2>2
    <3> QED
      BY <2>1, <3>1
  <2> QED
    BY <2>1, <2>3, <2>4 DEF SenderBytes, l
<1> QED
  BY <1>1, <1>2

(* A segment sent stays one while the sender goes on. *)
LEMMA PieceStays ==
  ASSUME NEW s, NEW t, GoodSender(s), GoodSender(t), Continued(s, t), NEW m, IsPiece(m, s)
  PROVE  IsPiece(m, t)
<1>1. PICK a \in Nat : Piece(m, a, s)
  BY DEF IsPiece
<1>2. m \in MessageRecord /\ m.payload \in Seq(Nat) /\ SequenceLength(m) \in Nat /\ Bit(m.SYN) \in {0, 1}
  <2>1. m \in MessageRecord
    BY DEF IsPiece
  <2> QED
    BY <2>1, LengthIsNatural DEF MessageRecord
<1>3. /\ Len(Sent(s)) \in Nat /\ Len(Sent(t)) \in Nat /\ s.next_seqno \in Nat /\ t.next_seqno \in Nat
  BY SentFacts, SenderTypes DEF GoodSender
<1> DEFINE first == a + Bit(m.SYN) - 1
<1>4. first \in Int
  BY <1>2
<1>5. SenderBytes(first, m.payload, Sent(s))
  BY <1>1 DEF Piece
<1> HIDE DEF first
<1>6. SenderBytes(first, m.payload, Sent(t))
  BY <1>2, <1>3, <1>4, <1>5, BytesStay DEF Continued
<1>7. a + SequenceLength(m) <= t.next_seqno /\ m.seqno = Wrap(a, t.isn)
  BY <1>1, <1>2, <1>3 DEF Piece, Continued
<1>8. Piece(m, a, t)
  BY <1>1, <1>6, <1>7 DEF Piece, Continued, first
<1> QED
  BY <1>2, <1>8 DEF IsPiece

(* The segments in the queue were sent as they are.                        *)
LEMMA QueueHoldsPieces ==
  ASSUME NEW s, GoodSender(s), CarriesStream(s), NEW k \in 1 .. Len(s.outstanding)
  PROVE  IsPiece(s.outstanding[k], s)
<1> DEFINE m == s.outstanding[k]
           a == SegmentStart(s, k)
           n == Len(s.outstanding)
           l == Len(m.payload)
           y == Bit(m.SYN)
           f == Bit(m.FIN)
           q == s.next_seqno
           c == s.input.popped
           first == a + y
<1>1. /\ s \in SenderRecord /\ TilesFlight(s) /\ Accounted(s)
  BY DEF GoodSender
<1>2. /\ q \in Nat /\ s.bytes_in_flight \in Nat /\ n \in Nat /\ c \in Nat
      /\ s.input.pushed \in Seq(Nat) /\ Len(s.input.pushed) \in Nat
      /\ s.syn_sent \in BOOLEAN /\ s.fin_sent \in BOOLEAN
  BY <1>1, SenderTypes
<1>3. /\ m \in MessageRecord /\ a \in Int /\ SegmentEnd(s, k) = a + SequenceLength(m)
  BY <1>1, SegmentTypes DEF SegmentEnd
<1>4. /\ SequenceLength(m) = y + l + f /\ y \in {0, 1} /\ f \in {0, 1} /\ l \in Nat
      /\ SequenceLength(m) \in Nat
  BY <1>3, LengthIsNatural
<1>5. /\ s.bytes_in_flight <= q /\ SequenceLength(m) > 0 /\ m.seqno = Wrap(a, s.isn)
      /\ AbsAck(s) <= a /\ a + SequenceLength(m) <= q
      /\ k = n => a + SequenceLength(m) = q
  <2>1. /\ s.bytes_in_flight <= q /\ SequenceLength(m) > 0 /\ m.seqno = Wrap(a, s.isn)
        /\ AbsAck(s) <= a /\ SegmentEnd(s, k) <= q
    BY <1>1 DEF TilesFlight
  <2>2. k = n => SegmentEnd(s, k) = q
    BY <1>1, <1>2 DEF TilesFlight
  <2> QED
    BY <1>3, <2>1, <2>2
<1>6. a \in Nat
  BY <1>2, <1>3, <1>5 DEF AbsAck
<1>7. /\ m.SYN <=> a = 0
      /\ m.payload = SubSeq(s.input.pushed, first, first + l - 1)
      /\ m.FIN <=> s.fin_sent /\ k = n
  BY DEF CarriesStream
<1>8. ~(k = n) => a + SequenceLength(m) <= q - 1
  <2> SUFFICES ASSUME k # n PROVE a + SequenceLength(m) <= q - 1
    OBVIOUS
  <2>1. k < n /\ n \in 1 .. n
    BY <1>2
  <2>2. /\ SegmentEnd(s, k) <= SegmentStart(s, n) /\ SequenceLength(s.outstanding[n]) > 0
        /\ SegmentEnd(s, n) = q
    BY <1>1, <1>2, <2>1 DEF TilesFlight
  <2>3. /\ SegmentStart(s, n) \in Int /\ SequenceLength(s.outstanding[n]) \in Nat
        /\ SegmentEnd(s, n) = SegmentStart(s, n) + SequenceLength(s.outstanding[n])
    BY <1>1, <2>1, SegmentTypes DEF SegmentEnd
  <2> QED
    BY <1>2, <1>3, <1>4, <2>2, <2>3
<1>9. /\ q = 1 + c + Bit(s.fin_sent) /\ Bit(s.fin_sent) \in {0, 1} /\ c <= Len(s.input.pushed)
      /\ s.fin_sent <=> Bit(s.fin_sent) = 1
  <2>1. q > 0
    BY <1>2, <1>4, <1>5, <1>6
  <2>2. s.syn_sent
    BY <1>1, <1>2, <2>1 DEF Accounted
  <2>3. q = 1 + c + Bit(s.fin_sent) /\ c <= Len(s.input.pushed)
    BY <1>1, <2>2 DEF Accounted, Bit
  <2> QED
    BY <2>3 DEF Bit
<1>10. f = 1 <=> m.FIN
  BY <1>3 DEF f, Bit
<1>11. y = 1 <=> m.SYN
  BY <1>3 DEF y, Bit
<1> DEFINE z == Bit(s.fin_sent)
           L == SequenceLength(m)
<1>12. first + l - 1 <= c /\ first \in Nat \ {0}
  <2>1. /\ q = 1 + c + z /\ z \in {0, 1} /\ L = y + l + f /\ a + L <= q
        /\ (~(k = n) => a + L <= q - 1) /\ (f = 1 <=> z = 1 /\ k = n)
        /\ (y = 1 <=> a = 0) /\ first = a + y
    BY <1>4, <1>5, <1>7, <1>8, <1>9, <1>10, <1>11
  <2> HIDE DEF a, l, y, f, q, c, z, L, first, n
  <2>2. first \in Nat \ {0}
    BY <1>4, <1>6, <2>1
  <2>3. CASE k = n
    BY <1>2, <1>4, <1>6, <2>1, <2>3
  <2>4. CASE k # n
    BY <1>2, <1>4, <1>6, <2>1, <2>4
  <2> QED
    BY <2>2, <2>3, <2>4
<1>13. SenderBytes(a + y - 1, m.payload, Sent(s))
  <2>0. l \in Nat /\ c \in Nat
    BY <1>2, <1>4
  <2> HIDE DEF a, l, y, c, first
  <2> DEFINE g == first - 1
  <2>1. g \in Nat /\ g + l <= c /\ g = a + y - 1 /\ g + 1 = first /\ c <= Len(s.input.pushed)
    BY <1>2, <1>4, <1>6, <1>9, <1>12 DEF first
  <2>2. Len(Sent(s)) = c /\ \A i \in 1 .. c : Sent(s)[i] = s.input.pushed[i]
    BY SentFacts DEF c
  <2>3. m.payload = SubSeq(s.input.pushed, g + 1, g + l)
    <3>1. first + l - 1 = g + l
      BY <1>4, <1>12
    <3> QED
      BY <1>7, <2>1, <3>1
  <2> HIDE DEF g, m
  <2>4. \A i \in 1 .. l : m.payload[i] = s.input.pushed[g + i]
    <3> SUFFICES ASSUME NEW i \in 1 .. l PROVE m.payload[i] = s.input.pushed[g + i]
      OBVIOUS
    <3>1. \A j \in (g + 1) .. (g + l) : s.input.pushed[j] \in Nat
      <4> SUFFICES ASSUME NEW j \in (g + 1) .. (g + l) PROVE s.input.pushed[j] \in Nat
        OBVIOUS
      <4>1. j \in 1 .. Len(s.input.pushed)
        BY <1>2, <1>4, <2>1
      <4> QED
        BY <1>2, <4>1, ElementOfSeq
    <3>2. g + 1 \in Int /\ g + l \in Int /\ i \in 1 .. (g + l) - (g + 1) + 1 /\ (g + 1) + i - 1 = g + i
      BY <2>0, <2>1
    <3> QED
      BY <2>3, <3>1, <3>2, SubSeqProperties
  <2>5. \A i \in 1 .. l : m.payload[i] = Sent(s)[g + i]
    <3> SUFFICES ASSUME NEW i \in 1 .. l PROVE m.payload[i] = Sent(s)[g + i]
      OBVIOUS
    <3>1. g \in Nat /\ g + l <= c /\ i \in 1 .. l
      BY <2>1
    <3>2. g + i \in 1 .. c
      BY ONLY <2>0, <3>1
    <3> QED
      BY <2>2, <2>4, <3>2
  <2> QED
    BY <2>1, <2>2, <2>5 DEF SenderBytes, l
<1>14. Piece(m, a, s)
  BY <1>5, <1>7, <1>13 DEF Piece
<1> QED
  BY <1>3, <1>6, <1>14 DEF IsPiece

(* What push() and tick() transmit is in the queue afterwards              *)
(* (tcp_sender.cc:32-71, 119-137).                                         *)
LEMMA PushSendsPieces ==
  ASSUME NEW s, GoodSender(s), CarriesStream(s), NEW k \in 1 .. Len(PushSegments(s))
  PROVE  IsPiece(PushSegments(s)[k], SenderPush(s))
<1> DEFINE t == SenderPush(s)
           j == Len(s.outstanding) + k
           n == SegmentsToSend(s)
<1>1. LengthToSend(s) \in Nat /\ Len(s.outstanding) \in Nat
  BY PushNumbers, SenderTypes DEF GoodSender
<1>2. LengthToSend(s) > 0
  <2>1. ASSUME LengthToSend(s) = 0 PROVE FALSE
    <3>1. n = 0
      BY <2>1 DEF SegmentsToSend
    <3> HIDE DEF n
    <3>2. PushSegments(s) = [i \in 1 .. 0 |-> SegmentToSend(s, i)]
      BY <3>1 DEF PushSegments, n
    <3>3. Len(PushSegments(s)) = 0
      BY <3>2
    <3> QED
      BY <3>3
  <2> QED
    BY <1>1, <2>1
<1>3. Len(PushSegments(s)) = n /\ n \in Nat
  BY <1>2, PushedSegments, PayloadCuts
<1>4. /\ Len(t.outstanding) = Len(s.outstanding) + n
      /\ t.outstanding[Len(s.outstanding) + k] = PushSegments(s)[k]
  BY <1>2, <1>3, PushTiles
<1>5. GoodSender(t) /\ CarriesStream(t)
  BY PushKeepsGood, PushKeepsCarrying
<1> HIDE DEF t, n
<1>6. j \in 1 .. Len(t.outstanding) /\ t.outstanding[j] = PushSegments(s)[k]
  BY <1>1, <1>3, <1>4
<1> HIDE DEF j
<1>7. IsPiece(t.outstanding[j], t)
  BY <1>5, <1>6, QueueHoldsPieces
<1> QED
  BY <1>6, <1>7 DEF t

(* What is sent again is a piece. *)
LEMMA TickSendsPieces ==
  ASSUME NEW s, GoodSender(s), CarriesStream(s), NEW ms, NEW k \in 1 .. Len(TickSegments(s, ms))
  PROVE  IsPiece(TickSegments(s, ms)[k], s)
<1>1. CASE Retransmits(s, ms)
  <2>1. TickSegments(s, ms) = <<Head(s.outstanding)>> /\ s.outstanding # <<>>
    BY <1>1 DEF TickSegments, Retransmits
  <2>2. s.outstanding \in Seq(MessageRecord)
    BY SenderTypes DEF GoodSender
  <2>3. k = 1
    BY <2>1
  <2> DEFINE M == MessageRecord
  <2> HIDE DEF M
  <2>4. 1 \in 1 .. Len(s.outstanding) /\ Head(s.outstanding) = s.outstanding[1]
    <3>1. s.outstanding \in Seq(M)
      BY <2>2 DEF M
    <3> QED
      BY <2>1, <3>1
  <2>5. TickSegments(s, ms)[k] = s.outstanding[1]
    BY <2>1, <2>3, <2>4
  <2> QED
    BY <2>4, <2>5, QueueHoldsPieces
<1>2. CASE ~Retransmits(s, ms)
  <2>1. TickSegments(s, ms) = <<>>
    BY <1>2 DEF TickSegments
  <2> QED
    BY <2>1
<1> QED
  BY <1>1, <1>2

(* So is the empty message (tcp_sender.cc:73-78). *)
LEMMA EmptyIsPiece ==
  ASSUME NEW s, GoodSender(s)
  PROVE  IsPiece(MakeEmptyMessage(s), s)
<1> DEFINE w == Wrap(s.next_seqno, s.isn)
           m == MakeEmptyMessage(s)
           no == FALSE
<1>1. s.next_seqno \in Nat /\ s.isn \in Seqno /\ s.input.error \in BOOLEAN
  BY SenderTypes DEF GoodSender
<1>2. w \in Seqno
  BY <1>1, WrapType
<1>3. no \in BOOLEAN /\ ~no /\ <<>> \in Seq(Nat)
  BY EmptySeq
<1>4. m = [seqno |-> w, SYN |-> no, payload |-> <<>>, FIN |-> no, RST |-> s.input.error]
  BY DEF MakeEmptyMessage, SenderMessage
<1> HIDE DEF w, m, no
<1>5. m \in MessageRecord
  BY <1>1, <1>2, <1>3, <1>4, Zenon DEF MessageRecord
<1>6. m.seqno = w /\ ~m.SYN /\ m.payload = <<>> /\ ~m.FIN
  BY <1>3, <1>4
<1>7. SequenceLength(m) = 0
  BY <1>6 DEF SequenceLength
<1>8. Piece(m, s.next_seqno, s)
  BY <1>1, <1>6, <1>7 DEF Piece, SenderBytes, w
<1> QED
  BY <1>1, <1>5, <1>8 DEF IsPiece, m

-----------------------------------------------------------------------------
(* The sender goes on *)

(* Whoever sends nothing is continued. *)
LEMMA StaysContinued ==
  ASSUME NEW s, NEW t, GoodSender(s), GoodSender(t), t.isn = s.isn, t.next_seqno = s.next_seqno,
         t.syn_sent = s.syn_sent, t.fin_sent = s.fin_sent,
         t.input.pushed = s.input.pushed, t.input.popped = s.input.popped
  PROVE  Continued(s, t)
<1>1. Sent(t) = Sent(s)
  BY DEF Sent
<1>2. s.next_seqno \in Nat /\ Len(Sent(s)) \in Nat
  BY SenderTypes, SentFacts DEF GoodSender
<1> QED
  BY <1>1, <1>2 DEF Continued

(* And what has become of that. *)
LEMMA ContinuedTwice ==
  ASSUME NEW s, NEW t, NEW u, GoodSender(s), GoodSender(t), GoodSender(u),
         Continued(s, t), Continued(t, u)
  PROVE  Continued(s, u)
<1>1. /\ Len(Sent(s)) \in Nat /\ Len(Sent(t)) \in Nat /\ Len(Sent(u)) \in Nat
      /\ s.next_seqno \in Nat /\ t.next_seqno \in Nat /\ u.next_seqno \in Nat
  BY SenderTypes, SentFacts DEF GoodSender
<1>2. \A i \in 1 .. Len(Sent(s)) : Sent(u)[i] = Sent(s)[i]
  <2> SUFFICES ASSUME NEW i \in 1 .. Len(Sent(s)) PROVE Sent(u)[i] = Sent(s)[i]
    OBVIOUS
  <2>1. i \in 1 .. Len(Sent(t)) /\ Sent(t)[i] = Sent(s)[i]
    BY <1>1 DEF Continued
  <2> QED
    BY <2>1 DEF Continued
<1>3. s.next_seqno <= u.next_seqno /\ Len(Sent(s)) <= Len(Sent(u)) /\ u.isn = s.isn
  BY <1>1 DEF Continued
<1>4. s.fin_sent => u.fin_sent /\ u.next_seqno = s.next_seqno /\ Sent(u) = Sent(s)
  BY DEF Continued
<1>5. s.syn_sent => u.syn_sent
  BY DEF Continued
<1> QED
  BY <1>2, <1>3, <1>4, <1>5 DEF Continued

(* A longer stream begins with a shorter one's bytes. *)
LEMMA LongerContinues ==
  ASSUME NEW s, NEW t, GoodSender(s), GoodSender(t), t.isn = s.isn, s.next_seqno <= t.next_seqno,
         s.syn_sent => t.syn_sent,
         s.fin_sent => t.fin_sent /\ t.next_seqno = s.next_seqno /\ t.input.popped = s.input.popped,
         s.input.popped <= t.input.popped, Len(s.input.pushed) <= Len(t.input.pushed),
         \A i \in 1 .. Len(s.input.pushed) : t.input.pushed[i] = s.input.pushed[i]
  PROVE  Continued(s, t)
<1>1. /\ Sent(s) \in Seq(Nat) /\ Len(Sent(s)) = s.input.popped
      /\ \A i \in 1 .. s.input.popped : Sent(s)[i] = s.input.pushed[i]
  BY SentFacts
<1>2. /\ Sent(t) \in Seq(Nat) /\ Len(Sent(t)) = t.input.popped
      /\ \A i \in 1 .. t.input.popped : Sent(t)[i] = t.input.pushed[i]
  BY SentFacts
<1>3. /\ s.input.popped \in Nat /\ t.input.popped \in Nat /\ Len(s.input.pushed) \in Nat
      /\ s.input.popped <= Len(s.input.pushed)
  BY SenderTypes DEF GoodSender, Accounted
<1>4. \A i \in 1 .. Len(Sent(s)) : Sent(t)[i] = Sent(s)[i]
  <2> SUFFICES ASSUME NEW i \in 1 .. Len(Sent(s)) PROVE Sent(t)[i] = Sent(s)[i]
    OBVIOUS
  <2>1. i \in 1 .. s.input.popped /\ i \in 1 .. t.input.popped /\ i \in 1 .. Len(s.input.pushed)
    BY <1>1, <1>3
  <2> QED
    BY <1>1, <1>2, <2>1
<1>5. Len(Sent(s)) <= Len(Sent(t))
  BY <1>1, <1>2
<1>6. s.fin_sent => Sent(t) = Sent(s)
  <2> DEFINE a == Sent(s)
             b == Sent(t)
  <2> HIDE DEF a, b
  <2>1. a \in Seq(Nat) /\ b \in Seq(Nat) /\ (s.fin_sent => Len(a) = Len(b))
        /\ \A i \in 1 .. Len(a) : b[i] = a[i]
    BY <1>1, <1>2, <1>4 DEF a, b
  <2>2. s.fin_sent => b = a
    BY <2>1, SeqEqual
  <2> QED
    BY <2>2 DEF a, b
<1> QED
  BY <1>4, <1>5, <1>6 DEF Continued

(* push(), receive() and tick() take nothing back that was sent. *)
LEMMA PushContinues ==
  ASSUME NEW s, GoodSender(s)
  PROVE  Continued(s, SenderPush(s)) /\ (s.syn_sent => SenderPush(s).syn_sent)
<1> DEFINE t == SenderPush(s)
<1>0. GoodSender(t) /\ s \in SenderRecord
  BY PushKeepsGood DEF GoodSender
<1>1. CASE LengthToSend(s) = 0
  <2>1. t = s
    BY <1>1 DEF SenderPush
  <2> HIDE DEF t
  <2>2. Continued(s, t)
    BY <1>0, <2>1, StaysContinued
  <2> QED
    BY <2>1, <2>2 DEF t
<1>2. CASE LengthToSend(s) # 0
  <2>1. LengthToSend(s) > 0 /\ LengthToSend(s) \in Nat /\ ~s.fin_sent
        /\ PayloadToSend(s) \in Nat
    <3>1. LengthToSend(s) \in Nat /\ LengthToSend(s) <= Budget(s) /\ Budget(s) \in Nat
          /\ (Budget(s) > 0 => ~s.fin_sent) /\ PayloadToSend(s) \in 0 .. BytesBuffered(s.input)
      BY PushNumbers
    <3>2. PayloadToSend(s) \in Nat
      <4>1. BytesBuffered(s.input) \in Int
        BY <1>0, SenderTypes DEF BytesBuffered
      <4> QED
        BY <3>1, <4>1
    <3> QED
      BY <1>2, <3>1, <3>2
  <2>2. /\ t.isn = s.isn /\ t.next_seqno = s.next_seqno + LengthToSend(s) /\ t.syn_sent
        /\ t.input.pushed = s.input.pushed /\ t.input.popped = s.input.popped + PayloadToSend(s)
    BY <2>1, PushFields
  <2>3. s.next_seqno \in Nat /\ s.input.popped \in Nat /\ Len(s.input.pushed) \in Nat
    BY <1>0, SenderTypes
  <2> HIDE DEF t
  <2>4. s.next_seqno <= t.next_seqno /\ s.input.popped <= t.input.popped
    BY <2>1, <2>2, <2>3
  <2>5. Len(s.input.pushed) <= Len(t.input.pushed)
    BY <2>2, <2>3
  <2>6. Continued(s, t)
    BY <1>0, <2>1, <2>2, <2>4, <2>5, LongerContinues
  <2> QED
    BY <2>2, <2>6 DEF t
<1> QED
  BY <1>1, <1>2

(* An acknowledgement does not take back what was sent. *)
LEMMA ReceiveContinues ==
  ASSUME NEW s, GoodSender(s), NEW m \in AnyReceiverMessage
  PROVE  Continued(s, SenderReceive(s, m))
<1> DEFINE t == SenderReceive(s, m)
<1>1. GoodSender(t) /\ s \in SenderRecord
  BY ReceiveKeepsGood DEF GoodSender
<1>2. /\ SameSetting(s, t) /\ t.input = IF m.RST THEN SetError(s.input) ELSE s.input
      /\ t.syn_sent = s.syn_sent /\ t.fin_sent = s.fin_sent /\ t.next_seqno = s.next_seqno
  BY <1>1, ReceiveEffects
<1> HIDE DEF t
<1>3. t.input.pushed = s.input.pushed /\ t.input.popped = s.input.popped
  BY <1>1, <1>2 DEF SetError, SenderRecord, InputRecord
<1>4. Continued(s, t)
  BY <1>1, <1>2, <1>3, StaysContinued DEF SameSetting
<1> QED
  BY <1>4 DEF t

(* Nor does time. *)
LEMMA TickContinues ==
  ASSUME NEW s, GoodSender(s), NEW ms \in Nat
  PROVE  Continued(s, SenderTick(s, ms))
<1> DEFINE t == SenderTick(s, ms)
<1>1. GoodSender(t) /\ s \in SenderRecord
  BY TickKeepsGood DEF GoodSender
<1>2. /\ SameSetting(s, t) /\ t.input = s.input
      /\ t.syn_sent = s.syn_sent /\ t.fin_sent = s.fin_sent /\ t.next_seqno = s.next_seqno
  BY <1>1, TickEffects
<1> HIDE DEF t
<1>3. Continued(s, t)
  BY <1>1, <1>2, StaysContinued DEF SameSetting
<1> QED
  BY <1>3 DEF t

-----------------------------------------------------------------------------
(* The receiver at the other end *)

(* What receiver r has is what s sent; it knows of SYN and FIN only what   *)
(* was sent, and its stream ends, without an error, because of FIN.        *)
Follows(r, s, cap) ==
    /\ r = [reassembler |-> r.reassembler, isn |-> r.isn]
    /\ GoodReassembler(r.reassembler, Sent(s), cap)
    /\ r.isn \in {NoSeqno, s.isn}
    /\ r.isn # NoSeqno => s.syn_sent
    /\ r.reassembler.eof_seen => s.fin_sent
    /\ Inbound(r).closed /\ ~Inbound(r).error => r.reassembler.eof_seen

(* Everything s may send fits into half the sequence space. *)
Roomy(s) == 2 * (Len(s.input.pushed) + 3) <= SeqMod

(* The receiver still follows when the sender goes on. *)
LEMMA FollowsOn ==
  ASSUME NEW s, NEW t, GoodSender(s), GoodSender(t), Continued(s, t),
         NEW cap \in Nat, NEW r, Follows(r, s, cap)
  PROVE  Follows(r, t, cap)
<1>1. Fits(Sent(s), cap) /\ Fits(Sent(t), cap)
  BY SentFacts
<1>2. /\ Len(Sent(s)) <= Len(Sent(t)) /\ \A i \in 1 .. Len(Sent(s)) : Sent(t)[i] = Sent(s)[i]
      /\ (s.fin_sent => Sent(t) = Sent(s) /\ t.fin_sent) /\ t.isn = s.isn /\ (s.syn_sent => t.syn_sent)
  BY DEF Continued
<1>3. GoodReassembler(r.reassembler, Sent(s), cap)
  BY DEF Follows
<1>4. r.reassembler.eof_seen \/ (r.reassembler.output.closed /\ ~r.reassembler.output.error)
        => Sent(t) = Sent(s)
  BY <1>2 DEF Follows, Inbound
<1>5. GoodReassembler(r.reassembler, Sent(t), cap)
  BY <1>1, <1>2, <1>3, <1>4, StreamGrows
<1> QED
  BY <1>2, <1>5 DEF Follows

(* receive() reads the number of a segment that was sent, however old, and *)
(* finds the place of its bytes (tcp_receiver.cc:15-28).                   *)
LEMMA PieceIsPlaced ==
  ASSUME NEW s, GoodSender(s), Roomy(s), NEW cap \in Nat, NEW r, Follows(r, s, cap),
         NEW m, IsPiece(m, s), ~m.RST, r.isn # NoSeqno \/ m.SYN
  PROVE  /\ s.syn_sent
         /\ \E first \in Int :
              /\ ReceiverReceive(r, m)
                   = [isn |-> s.isn, reassembler |-> Insert(r.reassembler, first, m.payload, m.FIN)]
              /\ SenderBytes(first, m.payload, Sent(s))
              /\ m.FIN => first \in Nat /\ first + Len(m.payload) = Len(Sent(s))
<1> DEFINE isn == IF r.isn = NoSeqno THEN m.seqno ELSE r.isn
           p == Len(Inbound(r).pushed)
           x == Unwrap(m.seqno, isn, p)
           first == StreamIndex(m, x)
           l == Len(m.payload)
           y == Bit(m.SYN)
           f == Bit(m.FIN)
           q == s.next_seqno
<1>1. PICK a \in Nat : Piece(m, a, s)
  BY DEF IsPiece
<1>2. m \in MessageRecord /\ m.payload \in Seq(Nat) /\ m.SYN \in BOOLEAN /\ m.FIN \in BOOLEAN
  BY DEF IsPiece, MessageRecord
<1>3. /\ SequenceLength(m) = y + l + f /\ y \in {0, 1} /\ f \in {0, 1} /\ l \in Nat
      /\ SequenceLength(m) \in Nat
  BY <1>2, LengthIsNatural
<1>4. (y = 1 <=> m.SYN) /\ (f = 1 <=> m.FIN)
  BY <1>2 DEF Bit
<1>5. /\ m.seqno = Wrap(a, s.isn) /\ a + SequenceLength(m) <= q /\ (m.SYN => a = 0)
      /\ (a = 0 /\ SequenceLength(m) > 0 => m.SYN)
      /\ SenderBytes(a + y - 1, m.payload, Sent(s))
      /\ (m.FIN => s.fin_sent /\ a + SequenceLength(m) = q)
  BY <1>1 DEF Piece
<1>6. /\ s \in SenderRecord /\ Accounted(s) /\ q \in Nat /\ s.isn \in Seqno
      /\ Len(s.input.pushed) \in Nat /\ s.input.popped \in Nat /\ s.syn_sent \in BOOLEAN
      /\ s.fin_sent \in BOOLEAN
  BY SenderTypes DEF GoodSender
<1>7. q <= Len(s.input.pushed) + 2 /\ q < AbsMod
  BY <1>6, NextBelowAbsMod
<1>8. Fits(Sent(s), cap) /\ Len(Sent(s)) = s.input.popped
  BY SentFacts
<1>9. p \in 0 .. Len(Sent(s))
  BY <1>8, OutputTypes DEF Follows, Inbound
<1>10. s.syn_sent
  <2>1. CASE r.isn # NoSeqno
    BY <2>1 DEF Follows
  <2>2. CASE m.SYN
    <3>1. q > 0
      <4> DEFINE L == SequenceLength(m)
      <4>1. y = 1 /\ L = y + l + f /\ l \in Nat /\ f \in {0, 1} /\ a + L <= q /\ q \in Nat
        BY <1>3, <1>4, <1>5, <1>6, <2>2
      <4> HIDE DEF y, l, f, q, L
      <4> QED
        BY <4>1
    <3> QED
      BY <1>6, <3>1 DEF Accounted
  <2> QED
    BY <2>1, <2>2
<1>11. /\ q = 1 + s.input.popped + Bit(s.fin_sent) /\ s.input.popped <= Len(s.input.pushed)
       /\ (s.fin_sent => q = 2 + s.input.popped)
  BY <1>6, <1>10 DEF Accounted, Bit
<1>12. isn = s.isn
  <2>1. CASE r.isn # NoSeqno
    BY <2>1 DEF Follows
  <2>2. CASE r.isn = NoSeqno
    <3>1. a = 0
      BY <1>5, <2>2
    <3> QED
      BY <1>5, <1>6, <2>2, <3>1, WrapOfZero
  <2> QED
    BY <2>1, <2>2
<1>13. ReceiverReceive(r, m)
         = [isn |-> isn, reassembler |-> Insert(r.reassembler, first, m.payload, m.FIN)]
  BY DEF ReceiverReceive, BytesPushed
<1> HIDE DEF isn, l, y, f, q, p
<1>14. x = a
  <2>1. a <= q
    BY <1>3, <1>5, <1>6
  <2>2. a \in AbsSeqno /\ p \in AbsSeqno
    <3>1. p \in Nat /\ p <= q
      BY <1>6, <1>8, <1>9, <1>11 DEF Bit
    <3>2. a \in Nat /\ q \in Nat /\ q < AbsMod /\ AbsMod \in Nat
      BY <1>6, <1>7, WidthAssumption
    <3> QED
      BY <2>1, <3>1, <3>2 DEF AbsSeqno
  <2>3. 2 * Distance(a, p) < SeqMod
    <3> DEFINE b == Len(s.input.pushed)
    <3>1. a \in Nat /\ p \in Nat /\ a <= b + 2 /\ p <= b /\ b \in Nat /\ 2 * (b + 3) <= SeqMod /\ SeqMod \in Nat
      BY <1>6, <1>7, <1>8, <1>9, <1>11, <2>1, WidthAssumption DEF Roomy
    <3> HIDE DEF b
    <3>2. Distance(a, p) \in Nat /\ Distance(a, p) <= b + 2
      BY <3>1 DEF Distance
    <3> QED
      BY ONLY <3>1, <3>2
  <2> QED
    BY <1>5, <1>6, <1>12, <2>2, <2>3, UnwrapInvertsWrap
<1> HIDE DEF x
<1>15. AbsMod \in Nat /\ AbsMod \in Nat \ {0}
  BY <1>6, <1>7, WidthAssumption
<1>16. CASE m.SYN
  <2>1. first = 0 /\ a = 0 /\ y = 1
    BY <1>4, <1>5, <1>14, <1>16 DEF StreamIndex
  <2>2. a + y - 1 = first /\ first \in Int
    BY <2>1
  <2>3. SenderBytes(first, m.payload, Sent(s))
    BY <1>5, <2>2
  <2>4. m.FIN => first \in Nat /\ first + l = Len(Sent(s))
    <3>1. m.FIN => 1 + l + 1 = 2 + s.input.popped
      BY <1>3, <1>4, <1>5, <1>11, <2>1
    <3> QED
      BY <1>3, <1>6, <1>8, <2>1, <3>1
  <2> HIDE DEF first
  <2> QED
    BY <1>10, <1>12, <1>13, <2>2, <2>3, <2>4 DEF l
<1>17. CASE ~m.SYN /\ a > 0
  <2>1. a - 1 \in 0 .. (AbsMod - 1)
    BY <1>3, <1>5, <1>6, <1>7, <1>15, <1>17
  <2>2. (a - 1) % AbsMod = a - 1
    BY <1>15, <2>1, SmallMod
  <2>3. first = a - 1 /\ y = 0
    BY <1>3, <1>4, <1>14, <1>17, <2>2 DEF StreamIndex
  <2>4. a + y - 1 = first /\ first \in Int /\ first \in Nat
    BY <1>17, <2>3
  <2>5. SenderBytes(first, m.payload, Sent(s))
    BY <1>5, <2>4
  <2>6. m.FIN => first + l = Len(Sent(s))
    <3>1. m.FIN => a + (l + 1) = 2 + s.input.popped
      BY <1>3, <1>4, <1>5, <1>11, <2>3
    <3> QED
      BY <1>3, <1>6, <1>8, <2>3, <3>1
  <2> HIDE DEF first
  <2> QED
    BY <1>10, <1>12, <1>13, <2>4, <2>5, <2>6 DEF l
<1>18. CASE ~m.SYN /\ a = 0
  <2>1. ~m.FIN /\ m.payload = <<>>
    <3>1. SequenceLength(m) = 0
      BY <1>3, <1>5, <1>18
    <3>2. l = 0 /\ f = 0
      BY <1>3, <3>1
    <3> QED
      BY <1>2, <1>4, <3>2, EmptySeq DEF l
  <2>2. first \in Int
    <3>1. first = (a - 1) % AbsMod
      BY <1>14, <1>18 DEF StreamIndex
    <3>2. a - 1 \in Int
      OBVIOUS
    <3>3. (a - 1) % AbsMod \in 0 .. (AbsMod - 1)
      BY <1>15, <3>2, DivMod
    <3> QED
      BY <1>15, <3>1, <3>3
  <2> HIDE DEF first
  <2>3. SenderBytes(first, m.payload, Sent(s))
    BY <2>1 DEF SenderBytes
  <2> QED
    BY <1>10, <1>12, <1>13, <2>1, <2>2, <2>3
<1> QED
  BY <1>2, <1>16, <1>17, <1>18

(* Whatever order segments arrive in, the receiver goes on having what was *)
(* sent, and never less of it.                                             *)
LEMMA PieceTaken ==
  ASSUME NEW s, GoodSender(s), Roomy(s), NEW cap \in Nat, NEW r, Follows(r, s, cap),
         NEW m, IsPiece(m, s), ~m.RST
  PROVE  LET u == ReceiverReceive(r, m)
         IN  /\ Follows(u, s, cap)
             /\ Grown(r.reassembler, u.reassembler, Sent(s), cap)
             /\ Inbound(u).error = Inbound(r).error
<1> DEFINE u == ReceiverReceive(r, m)
<1>1. Fits(Sent(s), cap) /\ GoodReassembler(r.reassembler, Sent(s), cap)
  BY SentFacts DEF Follows
<1>2. CASE r.isn = NoSeqno /\ ~m.SYN
  <2>1. u = r
    BY <1>2 DEF ReceiverReceive
  <2> HIDE DEF u
  <2>2. Grown(r.reassembler, r.reassembler, Sent(s), cap)
    BY <1>1, OutputTypes DEF Grown
  <2> QED
    BY <2>1, <2>2 DEF u
<1>3. CASE r.isn # NoSeqno \/ m.SYN
  <2>1. s.syn_sent
    BY <1>3, PieceIsPlaced
  <2>2. PICK first \in Int :
              /\ u = [isn |-> s.isn, reassembler |-> Insert(r.reassembler, first, m.payload, m.FIN)]
              /\ SenderBytes(first, m.payload, Sent(s))
              /\ m.FIN => first \in Nat /\ first + Len(m.payload) = Len(Sent(s))
    BY <1>3, PieceIsPlaced
  <2> DEFINE data == m.payload
             last == m.FIN
             q == r.reassembler
             v == Insert(q, first, data, last)
             src == Sent(s)
  <2>3. data \in Seq(Nat) /\ last \in BOOLEAN
    BY DEF IsPiece, MessageRecord
  <2>4. u = [isn |-> s.isn, reassembler |-> v]
    BY <2>2
  <2>5. /\ SenderBytes(first, data, src) /\ (last => first \in Nat /\ first + Len(data) = Len(src))
        /\ GoodReassembler(q, src, cap) /\ Fits(src, cap)
    BY <1>1, <2>2
  <2>6. last => s.fin_sent
    BY DEF IsPiece, Piece
  <2>7. /\ (q.eof_seen => s.fin_sent) /\ (q.output.closed /\ ~q.output.error => q.eof_seen)
    BY DEF Follows, Inbound
  <2> HIDE DEF data, last, q, src, u
  <2>8. /\ GoodReassembler(v, src, cap)
        /\ v.output.popped = q.output.popped /\ v.output.error = q.output.error
        /\ q.output.closed => v.output.closed
        /\ Len(v.output.pushed) >= Len(q.output.pushed)
        /\ (v.eof_seen => q.eof_seen \/ last) /\ (q.eof_seen \/ last => v.eof_seen)
        /\ v.output.closed => q.output.closed \/ v.eof_seen
    BY <2>3, <2>5, InsertGood
  <2> HIDE DEF v
  <2>9. u.reassembler = v /\ u.isn = s.isn /\ u = [reassembler |-> u.reassembler, isn |-> u.isn]
    BY <2>4
  <2>10. q.output.popped \in Nat
    BY <2>5, OutputTypes
  <2>11. Grown(q, v, src, cap)
    BY <2>8, <2>10 DEF Grown
  <2>12. v.eof_seen => s.fin_sent
    BY <2>6, <2>7, <2>8
  <2>13. v.output.closed /\ ~v.output.error => v.eof_seen
    BY <2>7, <2>8
  <2>14. Follows(u, s, cap)
    BY <2>1, <2>8, <2>9, <2>12, <2>13 DEF Follows, Inbound, src
  <2>15. Inbound(u).error = Inbound(r).error
    BY <2>8, <2>9 DEF Inbound, q
  <2> QED
    BY <2>9, <2>11, <2>14, <2>15 DEF u, q, src
<1> QED
  BY <1>2, <1>3

(* So it does when the connection is reset. *)
LEMMA AbortTaken ==
  ASSUME NEW s, GoodSender(s), NEW cap \in Nat, NEW r, Follows(r, s, cap), NEW m, m.RST
  PROVE  LET u == ReceiverReceive(r, m)
         IN  /\ Follows(u, s, cap)
             /\ Inbound(u).pushed = Inbound(r).pushed /\ Inbound(u).error = TRUE /\ Inbound(u).closed = TRUE
             /\ Grown(r.reassembler, u.reassembler, Sent(s), cap)
<1> DEFINE u == ReceiverReceive(r, m)
           q == r.reassembler
           v == Abort(q)
           src == Sent(s)
<1>1. Fits(src, cap) /\ GoodReassembler(q, src, cap)
  BY SentFacts DEF Follows
<1>2. u = [r EXCEPT !.reassembler = v]
  BY DEF ReceiverReceive
<1>3. r = [reassembler |-> q, isn |-> r.isn]
  BY DEF Follows
<1>4. (q.eof_seen => s.fin_sent) /\ r.isn \in {NoSeqno, s.isn} /\ (r.isn # NoSeqno => s.syn_sent)
  BY DEF Follows
<1> HIDE DEF src, q
<1>5. /\ GoodReassembler(v, src, cap) /\ v.output.pushed = q.output.pushed
      /\ v.output.error = TRUE /\ v.output.closed = TRUE
      /\ v.eof_seen = q.eof_seen /\ v.output.popped = q.output.popped
  BY <1>1, ResetTaken
<1> HIDE DEF v, u
<1>6. u = [reassembler |-> v, isn |-> r.isn]
  BY <1>2, <1>3
<1>7. u.reassembler = v /\ u.isn = r.isn /\ u = [reassembler |-> u.reassembler, isn |-> u.isn]
  BY <1>6
<1>8. Follows(u, s, cap)
  BY <1>4, <1>5, <1>7 DEF Follows, Inbound, src
<1>9. Grown(q, v, src, cap)
  <2>1. Len(q.output.pushed) \in Nat /\ q.output.popped \in Nat
    BY <1>1, OutputTypes
  <2> QED
    BY <1>5, <2>1 DEF Grown
<1> QED
  BY <1>5, <1>7, <1>8, <1>9 DEF u, q, src, Inbound

(* Reading changes nothing of that. *)
LEMMA ReadFollows ==
  ASSUME NEW s, GoodSender(s), NEW cap \in Nat, NEW r, Follows(r, s, cap),
         NEW n \in Nat, n <= BytesBuffered(Inbound(r)),
         NEW u, u = [reassembler |-> ReadOutput(r.reassembler, n), isn |-> r.isn]
  PROVE  /\ Follows(u, s, cap) /\ Grown(r.reassembler, u.reassembler, Sent(s), cap)
         /\ Inbound(u).pushed = Inbound(r).pushed /\ Inbound(u).closed = Inbound(r).closed
         /\ Inbound(u).error = Inbound(r).error /\ u.isn = r.isn
<1> DEFINE q == r.reassembler
           v == ReadOutput(q, n)
           src == Sent(s)
<1>1. Fits(src, cap) /\ GoodReassembler(q, src, cap)
  BY SentFacts DEF Follows
<1>2. u = [reassembler |-> v, isn |-> r.isn]
  OBVIOUS
<1>3. /\ (q.eof_seen => s.fin_sent) /\ r.isn \in {NoSeqno, s.isn} /\ (r.isn # NoSeqno => s.syn_sent)
      /\ (q.output.closed /\ ~q.output.error => q.eof_seen)
  BY DEF Follows, Inbound
<1>4. n <= BytesBuffered(q.output)
  BY DEF Inbound
<1> HIDE DEF src, q
<1>5. /\ Grown(q, v, src, cap) /\ v.output.pushed = q.output.pushed
      /\ v.output.closed = q.output.closed /\ v.output.error = q.output.error
      /\ v.eof_seen = q.eof_seen
  BY <1>1, <1>4, ReadTaken
<1> HIDE DEF v
<1>6. u.reassembler = v /\ u.isn = r.isn /\ u = [reassembler |-> u.reassembler, isn |-> u.isn]
  BY ONLY <1>2
<1>7. Follows(u, s, cap)
  BY <1>3, <1>5, <1>6 DEF Follows, Inbound, src, Grown
<1> QED
  BY <1>5, <1>6, <1>7 DEF q, src, Inbound

(* A new receiver follows anyone. *)
LEMMA NewReceiverFollows ==
  ASSUME NEW s, GoodSender(s), NEW cap \in Nat
  PROVE  Follows(NewReceiver(cap), s, cap) /\ AckedThrough(NewReceiver(cap)) = 1
<1> DEFINE q == NewReassembler(cap)
           r == NewReceiver(cap)
<1>1. Fits(Sent(s), cap)
  BY SentFacts
<1>2. /\ GoodReassembler(q, Sent(s), cap) /\ Len(q.output.pushed) = 0
      /\ q.output.closed = FALSE /\ q.output.error = FALSE /\ q.eof_seen = FALSE
  BY <1>1, NewReassemblerIsGood
<1>3. r = [reassembler |-> q, isn |-> NoSeqno]
  BY DEF NewReceiver
<1> HIDE DEF q, r
<1>4. r.reassembler = q /\ r.isn = NoSeqno
  BY <1>3
<1>5. Follows(r, s, cap)
  BY <1>2, <1>3, <1>4 DEF Follows, Inbound
<1>6. AckedThrough(r) = 1
  <2>1. ~Inbound(r).closed /\ Len(Inbound(r).pushed) = 0
    BY <1>2, <1>4 DEF Inbound
  <2> QED
    BY <2>1 DEF AckedThrough, BytesPushed
<1> QED
  BY <1>5, <1>6 DEF r

-----------------------------------------------------------------------------
(* Acknowledgements *)

(* m acknowledges to s no more than receiver r has and s has sent. *)
Acknowledges(m, r, s) ==
    /\ m \in AnyReceiverMessage
    /\ m.ackno # NoSeqno => \E k \in 1 .. AckedThrough(r) :
                                k <= s.next_seqno /\ m.ackno = Wrap(k, s.isn)

(* What a receiver that follows acknowledges. *)
LEMMA HasNumber ==
  ASSUME NEW s, GoodSender(s), NEW cap \in Nat, NEW r, Follows(r, s, cap)
  PROVE  /\ AckedThrough(r) = 1 + Len(Inbound(r).pushed) + (IF Inbound(r).closed THEN 1 ELSE 0)
         /\ AckedThrough(r) \in Nat /\ AckedThrough(r) >= 1
         /\ Len(Inbound(r).pushed) \in 0 .. s.input.popped
         /\ Inbound(r).closed \in BOOLEAN /\ Inbound(r).error \in BOOLEAN
<1> DEFINE src == Sent(s)
<1>1. Fits(src, cap) /\ Len(src) = s.input.popped /\ GoodReassembler(r.reassembler, src, cap)
  BY SentFacts DEF Follows
<1>2. Len(src) \in Nat
  BY <1>1, Fitting
<1> HIDE DEF src
<1>3. /\ AckedThrough(r) = 1 + Len(Inbound(r).pushed) + (IF Inbound(r).closed THEN 1 ELSE 0)
      /\ AckedThrough(r) \in 1 .. (Len(src) + 2)
  BY <1>1, AckedInNumbers
<1>4. /\ Len(Inbound(r).pushed) \in 0 .. Len(src)
      /\ Inbound(r).closed \in BOOLEAN /\ Inbound(r).error \in BOOLEAN
  BY <1>1, OutputTypes DEF Inbound
<1>5. AckedThrough(r) \in Nat /\ AckedThrough(r) >= 1
  <2> DEFINE k == AckedThrough(r)
             n == Len(src)
  <2>1. k \in 1 .. (n + 2) /\ n \in Nat
    BY <1>2, <1>3
  <2> HIDE DEF k, n
  <2>2. k \in Nat /\ k >= 1
    BY ONLY <2>1
  <2> QED
    BY <2>2 DEF k
<1> QED
  BY <1>1, <1>3, <1>4, <1>5

(* What has grown is acknowledged at least as far. *)
LEMMA HasMore ==
  ASSUME NEW s, GoodSender(s), NEW t, GoodSender(t), NEW cap \in Nat,
         NEW r, Follows(r, s, cap), NEW u, Follows(u, t, cap),
         Grown(r.reassembler, u.reassembler, Sent(s), cap)
  PROVE  AckedThrough(u) >= AckedThrough(r)
<1> DEFINE p == Len(Inbound(r).pushed)
           q == Len(Inbound(u).pushed)
           c == IF Inbound(r).closed THEN 1 ELSE 0
           d == IF Inbound(u).closed THEN 1 ELSE 0
<1>1. AckedThrough(r) = 1 + p + c /\ AckedThrough(u) = 1 + q + d
  BY HasNumber
<1>2. /\ Len(Inbound(r).pushed) \in 0 .. s.input.popped /\ Inbound(r).closed \in BOOLEAN
      /\ Len(Inbound(u).pushed) \in 0 .. t.input.popped /\ Inbound(u).closed \in BOOLEAN
      /\ s.input.popped \in Nat /\ t.input.popped \in Nat
  BY HasNumber, SenderTypes DEF GoodSender
<1>3. p \in Nat /\ q \in Nat
  BY <1>2
<1>4. q >= p /\ (Inbound(r).closed => Inbound(u).closed)
  BY DEF Grown, Inbound
<1>5. c \in {0, 1} /\ d \in {0, 1} /\ c <= d
  BY <1>2, <1>4
<1> HIDE DEF p, q, c, d
<1> QED
  BY <1>1, <1>3, <1>4, <1>5

(* The receiver acknowledges what it has, and that was sent                *)
(* (tcp_receiver.cc:31-46).                                                *)
LEMMA HasWasSent ==
  ASSUME NEW s, GoodSender(s), NEW cap \in Nat, NEW r, Follows(r, s, cap),
         r.isn # NoSeqno, ~Inbound(r).error
  PROVE  AckedThrough(r) <= s.next_seqno
<1> DEFINE p == Len(Inbound(r).pushed)
           n == s.input.popped
           z == Bit(s.fin_sent)
           d == IF Inbound(r).closed THEN 1 ELSE 0
<1>1. AckedThrough(r) = 1 + p + d /\ p \in 0 .. n /\ Inbound(r).closed \in BOOLEAN
  BY HasNumber
<1>2. s.syn_sent /\ (Inbound(r).closed => s.fin_sent)
  BY DEF Follows
<1>3. n \in Nat /\ Accounted(s)
  BY SenderTypes DEF GoodSender
<1>4. s.next_seqno = 1 + n + z
  BY <1>2, <1>3 DEF Accounted, Bit
<1>5. d \in {0, 1} /\ z \in {0, 1} /\ d <= z
  BY <1>1, <1>2 DEF Bit
<1> HIDE DEF p, n, z, d
<1> QED
  BY <1>1, <1>3, <1>4, <1>5

(* What it says is an acknowledgement. *)
LEMMA ReceiverAcknowledges ==
  ASSUME NEW s, GoodSender(s), NEW cap \in Nat, NEW r, Follows(r, s, cap)
  PROVE  Acknowledges(ReceiverSend(r), r, s)
<1> DEFINE m == ReceiverSend(r)
           k == AckedThrough(r)
<1>1. Fits(Sent(s), cap) /\ GoodReassembler(r.reassembler, Sent(s), cap) /\ r.isn \in {NoSeqno, s.isn}
      /\ s.isn \in Seqno
  BY SentFacts, SenderTypes DEF Follows, GoodSender
<1>2. m \in AnyReceiverMessage
  BY <1>1, ReceiverSendType
<1>3. ASSUME m.ackno # NoSeqno
      PROVE  k \in 1 .. AckedThrough(r) /\ k <= s.next_seqno /\ m.ackno = Wrap(k, s.isn)
  <2>1. ~Inbound(r).error /\ r.isn # NoSeqno
    BY <1>3 DEF ReceiverSend, ReceiverMessage
  <2>2. m.ackno = Wrap(k, r.isn)
    BY <2>1 DEF ReceiverSend, ReceiverMessage
  <2>3. r.isn = s.isn
    BY <1>1, <2>1
  <2>4. k \in Nat /\ k >= 1 /\ k <= s.next_seqno
    BY <2>1, HasNumber, HasWasSent
  <2> HIDE DEF m
  <2> QED
    BY <2>2, <2>3, <2>4
<1> HIDE DEF m
<1>4. m.ackno # NoSeqno => \E j \in 1 .. AckedThrough(r) :
                                j <= s.next_seqno /\ m.ackno = Wrap(j, s.isn)
  BY <1>3
<1> QED
  BY <1>2, <1>4 DEF Acknowledges, m

(* An acknowledgement does not become wrong under way. *)
LEMMA AcknowledgesOn ==
  ASSUME NEW s, NEW t, GoodSender(s), GoodSender(t), Continued(s, t),
         NEW r, NEW u, AckedThrough(r) \in Nat, AckedThrough(u) \in Nat, AckedThrough(r) <= AckedThrough(u),
         NEW m, Acknowledges(m, r, s)
  PROVE  Acknowledges(m, u, t)
<1>1. s.next_seqno \in Nat /\ t.next_seqno \in Nat /\ s.next_seqno <= t.next_seqno /\ t.isn = s.isn
  BY SenderTypes DEF GoodSender, Continued
<1>2. ASSUME m.ackno # NoSeqno
      PROVE  \E k \in 1 .. AckedThrough(u) : k <= t.next_seqno /\ m.ackno = Wrap(k, t.isn)
  <2>1. PICK k \in 1 .. AckedThrough(r) : k <= s.next_seqno /\ m.ackno = Wrap(k, s.isn)
    BY <1>2 DEF Acknowledges
  <2>2. k \in 1 .. AckedThrough(u) /\ k <= t.next_seqno
    BY <1>1, <2>1
  <2> QED
    BY <1>1, <2>1, <2>2
<1> QED
  BY <1>2 DEF Acknowledges

(* receive() drops from the queue only what the receiver has               *)
(* (tcp_sender.cc:80-117).                                                 *)
LEMMA OnlyHadIsDropped ==
  ASSUME NEW s, GoodSender(s), Roomy(s), NEW cap \in Nat, NEW r, Follows(r, s, cap),
         NEW m, Acknowledges(m, r, s), ~m.RST, AbsAck(s) <= AckedThrough(r)
  PROVE  AbsAck(SenderReceive(s, m)) <= AckedThrough(r)
<1> DEFINE up == [s EXCEPT !.zero_window = (m.window_size = 0), !.window_size = m.window_size]
           k == Unwrap(m.ackno, s.isn, s.next_seqno)
<1>1. SenderReceive(s, m) = IF m.ackno = NoSeqno \/ k > s.next_seqno THEN up
                            ELSE PopAcked(up, AckedCount(up, k))
  BY DEF SenderReceive
<1>2. m \in AnyReceiverMessage /\ m.window_size \in 0 .. WinMax
  BY DEF Acknowledges, AnyReceiverMessage
<1>3. /\ up \in SenderRecord /\ up.outstanding = s.outstanding /\ up.next_seqno = s.next_seqno
      /\ up.isn = s.isn /\ up.bytes_in_flight = s.bytes_in_flight
      /\ up.timer = s.timer /\ up.input = s.input /\ up.syn_sent = s.syn_sent /\ up.fin_sent = s.fin_sent
      /\ up.window_size = m.window_size /\ (up.zero_window <=> (m.window_size = 0))
  BY <1>2 DEF GoodSender, SenderRecord
<1> HIDE DEF up
<1>4. GoodSender(up) /\ AbsAck(up) = AbsAck(s)
  <2>1. TilesFlight(up) /\ AbsAck(up) = AbsAck(s)
    BY <1>3, SameFlight DEF GoodSender
  <2>2. Accounted(up) /\ TimerRunsWithFlight(up)
    BY <1>3 DEF GoodSender, Accounted, TimerRunsWithFlight
  <2>3. up.bytes_in_flight <= WinMax /\ (up.zero_window <=> (up.window_size = 0))
    BY <1>3 DEF GoodSender
  <2> QED
    BY <1>3, <2>1, <2>2, <2>3 DEF GoodSender
<1>5. CASE m.ackno = NoSeqno \/ k > s.next_seqno
  BY <1>1, <1>4, <1>5
<1>6. CASE ~(m.ackno = NoSeqno \/ k > s.next_seqno)
  <2>1. PICK j \in 1 .. AckedThrough(r) : j <= s.next_seqno /\ m.ackno = Wrap(j, s.isn)
    BY <1>6 DEF Acknowledges
  <2>2. /\ s \in SenderRecord /\ Accounted(s) /\ s.next_seqno \in Nat /\ s.isn \in Seqno
        /\ Len(s.input.pushed) \in Nat
    BY SenderTypes DEF GoodSender
  <2>3. s.next_seqno <= Len(s.input.pushed) + 2 /\ s.next_seqno < AbsMod
    BY <2>2, NextBelowAbsMod
  <2>4. AckedThrough(r) \in Nat /\ j \in Nat
    <3> DEFINE h == AckedThrough(r)
    <3>1. h \in Nat
      BY HasNumber
    <3>2. j \in 1 .. h
      BY <2>1
    <3> HIDE DEF h
    <3>3. h \in Nat /\ j \in Nat
      BY ONLY <3>1, <3>2
    <3> QED
      BY <3>3 DEF h
  <2>5. k = j
    <3>1. j \in AbsSeqno /\ s.next_seqno \in AbsSeqno
      BY <2>1, <2>2, <2>3, <2>4, WidthAssumption DEF AbsSeqno
    <3>2. 2 * Distance(j, s.next_seqno) < SeqMod
      <4> DEFINE b == Len(s.input.pushed)
                 n == s.next_seqno
      <4>1. j \in Nat /\ n \in Nat /\ j <= n /\ n <= b + 2 /\ b \in Nat /\ 2 * (b + 3) <= SeqMod /\ SeqMod \in Nat
        BY <2>1, <2>2, <2>3, <2>4, WidthAssumption DEF Roomy
      <4> HIDE DEF b, n
      <4>2. Distance(j, n) \in Nat /\ Distance(j, n) <= b + 2
        BY <4>1 DEF Distance
      <4>3. 2 * Distance(j, n) < SeqMod
        BY ONLY <4>1, <4>2
      <4> QED
        BY <4>3 DEF n
    <3> QED
      BY <2>1, <2>2, <3>1, <3>2, UnwrapInvertsWrap
  <2> HIDE DEF k
  <2> DEFINE c == AckedCount(up, k)
  <2>6. k \in Int
    BY <2>4, <2>5
  <2>7. c \in 0 .. Len(up.outstanding) /\ \A i \in 1 .. c : SegmentEnd(up, i) <= k
    BY <1>3, <2>6, AckedCountFound
  <2> HIDE DEF c
  <2>8. SenderReceive(s, m) = PopAcked(up, c)
    BY <1>1, <1>6 DEF c
  <2>9. CASE c = 0
    <3>1. PopAcked(up, c) = up
      BY <2>9 DEF PopAcked
    <3> QED
      BY <1>4, <2>8, <3>1
  <2>10. CASE c # 0
    <3>1. AbsAck(PopAcked(up, c)) = SegmentEnd(up, c)
      BY <1>4, <2>7, <2>10, PopKeepsGood
    <3>2. Len(up.outstanding) \in Nat
      BY <1>3, SenderTypes
    <3>3. c \in 1 .. c /\ c \in 1 .. Len(up.outstanding)
      BY <2>7, <2>10, <3>2
    <3>4. SegmentEnd(up, c) <= k /\ SegmentEnd(up, c) \in Int
      BY <1>3, <2>7, <3>3, SegmentTypes
    <3> QED
      BY <2>1, <2>4, <2>5, <2>8, <3>1, <3>4
  <2> QED
    BY <2>9, <2>10
<1> QED
  BY <1>5, <1>6

-----------------------------------------------------------------------------
(* One direction of a connection *)

(* A sender of a connection between two of its peer's handlers: whatever   *)
(* it still has to say, a running timer will make it say.                  *)
Sound(s) ==
    /\ GoodSender(s) /\ CarriesStream(s) /\ Roomy(s)
    /\ s.input.closed => s.syn_sent
    /\ s.syn_sent /\ ~s.input.error /\ Unsent(s) => s.timer.running

(* Sender s, the receiver r at the other end, the segments under way to r  *)
(* and those under way to s, which bring the acknowledgements of r.        *)
Direction(s, r, cap, segs, acks) ==
    /\ Sound(s)
    /\ Follows(r, s, cap)
    /\ \A m \in segs : IsPiece(m.sender, s)
    /\ \A m \in acks : Acknowledges(m.receiver, r, s)
    /\ ~s.input.error => AbsAck(s) <= AckedThrough(r)

(* The sender goes on, the receiver has more, and what is under way is     *)
(* old or new.                                                             *)
LEMMA DirectionMoves ==
  ASSUME NEW cap \in Nat, NEW s, NEW r, NEW segs, NEW acks, Direction(s, r, cap, segs, acks),
         NEW t, Sound(t), Continued(s, t),
         NEW u, Follows(u, t, cap), AckedThrough(u) >= AckedThrough(r),
         ~t.input.error => AbsAck(t) <= AckedThrough(u),
         NEW segs2, \A m \in segs2 : m \in segs \/ IsPiece(m.sender, t),
         NEW acks2, \A m \in acks2 : m \in acks \/ Acknowledges(m.receiver, u, t)
  PROVE  Direction(t, u, cap, segs2, acks2)
<1>1. GoodSender(s) /\ GoodSender(t) /\ Follows(r, s, cap)
  BY DEF Direction, Sound
<1>2. \A m \in segs2 : IsPiece(m.sender, t)
  BY <1>1, PieceStays DEF Direction
<1>3. AckedThrough(r) \in Nat /\ AckedThrough(u) \in Nat /\ AckedThrough(r) <= AckedThrough(u)
  <2>1. AckedThrough(r) \in Nat /\ AckedThrough(u) \in Nat
    BY <1>1, HasNumber
  <2> QED
    BY <2>1
<1>4. \A m \in acks2 : Acknowledges(m.receiver, u, t)
  <2>1. ASSUME NEW m \in acks2, m \in acks
        PROVE  Acknowledges(m.receiver, u, t)
    <3>1. Acknowledges(m.receiver, r, s)
      BY <2>1 DEF Direction
    <3> QED
      BY <1>1, <1>3, <3>1, AcknowledgesOn
  <2> QED
    BY <2>1
<1> QED
  BY <1>2, <1>4 DEF Direction

(* A push from where nothing is amiss but, perhaps, that the sender has    *)
(* just been given something to say.                                       *)
LEMMA PushIsSound ==
  ASSUME NEW s, GoodSender(s), CarriesStream(s), Roomy(s), s.input.closed => s.syn_sent
  PROVE  /\ Sound(SenderPush(s)) /\ Continued(s, SenderPush(s)) /\ AbsAck(SenderPush(s)) = AbsAck(s)
         /\ SenderPush(s).input.error = s.input.error
<1> DEFINE t == SenderPush(s)
<1>1. GoodSender(t) /\ CarriesStream(t) /\ Continued(s, t) /\ AbsAck(t) = AbsAck(s)
  BY PushKeepsGood, PushKeepsCarrying, PushContinues
<1>2. /\ t.input.pushed = s.input.pushed
      /\ t.input.closed = s.input.closed /\ t.input.error = s.input.error
  BY PushEffects DEF GoodSender
<1>3. Roomy(t) /\ (t.input.closed => t.syn_sent)
  BY <1>1, <1>2 DEF Roomy, Continued
<1>4. Unsent(t) => t.timer.running
  BY PushNeverStalls
<1> HIDE DEF t
<1>5. Sound(t)
  BY <1>1, <1>3, <1>4 DEF Sound
<1> QED
  BY <1>1, <1>2, <1>5 DEF t

(* receive() and the push() after it leave a sender sound. *)
LEMMA ReceiveIsSound ==
  ASSUME NEW s, Sound(s), NEW m \in AnyReceiverMessage
  PROVE  LET t == SenderPush(SenderReceive(s, m))
         IN  /\ Sound(t) /\ Continued(s, t) /\ AbsAck(t) = AbsAck(SenderReceive(s, m))
             /\ t.input.error = SenderReceive(s, m).input.error
             /\ GoodSender(SenderReceive(s, m)) /\ CarriesStream(SenderReceive(s, m))
<1> DEFINE v == SenderReceive(s, m)
<1>1. GoodSender(s) /\ CarriesStream(s) /\ Roomy(s) /\ (s.input.closed => s.syn_sent) /\ s \in SenderRecord
  BY DEF Sound, GoodSender
<1>2. GoodSender(v) /\ Continued(s, v) /\ v \in SenderRecord
  BY <1>1, ReceiveKeepsGood, ReceiveContinues DEF GoodSender
<1>3. CarriesStream(v)
  <2>1. PICK c \in 0 .. Len(s.outstanding) : Drops(s, v, c)
    BY <1>1, ReceiveKeepsGood
  <2> HIDE DEF v
  <2> QED
    BY <1>1, <1>2, <2>1, DropsCarries
<1>4. /\ v.input = IF m.RST THEN SetError(s.input) ELSE s.input
      /\ v.syn_sent = s.syn_sent
  BY <1>1, ReceiveEffects
<1>5. v.input.pushed = s.input.pushed /\ v.input.closed = s.input.closed
  <2>1. SetError(s.input).pushed = s.input.pushed /\ SetError(s.input).closed = s.input.closed
    BY <1>1 DEF SenderRecord, InputRecord, SetError
  <2> QED
    BY <1>4, <2>1
<1> HIDE DEF v
<1>6. Roomy(v) /\ (v.input.closed => v.syn_sent)
  BY <1>1, <1>4, <1>5 DEF Roomy
<1>7. /\ Sound(SenderPush(v)) /\ Continued(v, SenderPush(v)) /\ AbsAck(SenderPush(v)) = AbsAck(v)
      /\ SenderPush(v).input.error = v.input.error
  BY <1>2, <1>3, <1>6, PushIsSound
<1>8. Continued(s, SenderPush(v))
  BY <1>1, <1>2, <1>7, ContinuedTwice DEF Sound
<1> QED
  BY <1>2, <1>3, <1>7, <1>8 DEF v

(* So does time, and what is sent again is a piece. *)
LEMMA TickIsSound ==
  ASSUME NEW s, Sound(s), NEW ms \in Nat
  PROVE  LET t == SenderTick(s, ms)
         IN  /\ Sound(t) /\ Continued(s, t) /\ AbsAck(t) = AbsAck(s) /\ t.input = s.input
             /\ \A k \in 1 .. Len(TickSegments(s, ms)) : IsPiece(TickSegments(s, ms)[k], t)
<1> DEFINE t == SenderTick(s, ms)
<1>1. GoodSender(s) /\ CarriesStream(s) /\ Roomy(s) /\ (s.input.closed => s.syn_sent) /\ s \in SenderRecord
      /\ (s.syn_sent /\ ~s.input.error /\ Unsent(s) => s.timer.running)
  BY DEF Sound, GoodSender
<1>2. GoodSender(t) /\ Continued(s, t) /\ t \in SenderRecord /\ AbsAck(t) = AbsAck(s) /\ Drops(s, t, 0)
  BY <1>1, TickKeepsGood, TickContinues DEF GoodSender
<1>3. /\ t.input = s.input /\ t.syn_sent = s.syn_sent /\ t.fin_sent = s.fin_sent
      /\ t.timer.running = s.timer.running
  BY <1>1, TickEffects
<1>4. \A k \in 1 .. Len(TickSegments(s, ms)) : IsPiece(TickSegments(s, ms)[k], s)
  BY <1>1, TickSendsPieces
<1> HIDE DEF t
<1>5. 0 \in 0 .. Len(s.outstanding)
  BY <1>1, SenderTypes
<1>6. CarriesStream(t)
  BY <1>1, <1>2, <1>5, DropsCarries
<1>7. Sound(t)
  BY <1>1, <1>2, <1>3, <1>6 DEF Sound, Roomy, Unsent
<1>8. \A k \in 1 .. Len(TickSegments(s, ms)) : IsPiece(TickSegments(s, ms)[k], t)
  BY <1>1, <1>2, <1>4, PieceStays
<1> QED
  BY <1>2, <1>3, <1>7, <1>8 DEF t

(* A sender that goes on without a change of what it sent or may send. *)
LEMMA SoundStays ==
  ASSUME NEW s, Sound(s)
  PROVE  Continued(s, s) /\ GoodSender(s)
<1>1. GoodSender(s)
  BY DEF Sound
<1> QED
  BY <1>1, StaysContinued
=============================================================================
