------------------------- MODULE TCPReceiverProofs --------------------------
(***************************************************************************)
(* The properties of TCPReceiverSpec, for every stream, capacity, window   *)
(* field, segment size and sequence-number width.                          *)
(*                                                                         *)
(* GoodReassembler (TCPLemmas) says of the reassembler what the order of   *)
(* arrivals must not change: every byte it has, pushed or held, is the     *)
(* sender's byte at that index; what is held lies beyond a gap and inside  *)
(* the window; the end it has noted is the end of the stream.              *)
(*                                                                         *)
(* The second half is about ReassemblerPending, the reassembler with the   *)
(* map of substrings that the code keeps: the map has its invariant, and   *)
(* the whole implements the reassembler of the first half.                 *)
(***************************************************************************)
EXTENDS TCPReceiverSpec, ReassemblerPending, TCPLemmas

(* Before the SYN nothing is taken in. *)
ReceiverInv ==
    /\ rcv = [reassembler |-> rcv.reassembler, isn |-> rcv.isn]
    /\ GoodReassembler(rcv.reassembler, Source, Capacity)
    /\ rcv.isn \in {NoSeqno, PeerISN}
    /\ rcv.isn = NoSeqno => Len(Inbound(rcv).pushed) = 0
-----------------------------------------------------------------------------
(* The constants, once and for all. *)
LEMMA Constants ==
  /\ Source \in Seq(Nat) /\ Len(Source) \in Nat /\ Len(Source) + 2 < AbsMod /\ AbsMod \in Nat
  /\ Capacity \in Nat /\ WinMax \in Nat /\ PeerISN \in Seqno /\ 4 < SeqMod /\ SeqMod \in Nat \ {0}
  /\ PeerISN # NoSeqno
BY ReceiverAssumption, StreamAssumption, WidthAssumption DEF Seqno, NoSeqno

(* The stream of the scenario is one the lemmas apply to. *)
LEMMA SourceFits == Fits(Source, Capacity)
BY ReceiverAssumption, StreamAssumption DEF Fits

-----------------------------------------------------------------------------
(* The receiver *)

(* Neither the acknowledgement nor the right edge of the window moves back *)
(* when the stream grows or is read (tcp_receiver.cc:34, 44).              *)
LEMMA EdgesGrow ==
  ASSUME NEW a, NEW b, GoodReassembler(a.reassembler, Source, Capacity),
         Grown(a.reassembler, b.reassembler, Source, Capacity)
  PROVE  AckedThrough(b) >= AckedThrough(a) /\ OfferedEdge(b) >= OfferedEdge(a)
<1> DEFINE p == Len(Inbound(a).pushed)
           q == Len(Inbound(b).pushed)
           x == Inbound(a).popped
           y == Inbound(b).popped
           c == IF Inbound(a).closed THEN 1 ELSE 0
           d == IF Inbound(b).closed THEN 1 ELSE 0
<1>1. /\ p \in Nat /\ q \in Nat /\ x \in Nat /\ y \in Nat /\ y >= x /\ q >= p /\ Capacity \in Nat
      /\ WinMax \in Nat /\ c \in {0, 1} /\ d \in {0, 1} /\ d >= c
      /\ AvailableCapacity(Inbound(a)) = Capacity - (p - x)
      /\ AvailableCapacity(Inbound(b)) = Capacity - (q - y)
  <2>1. /\ p \in Nat /\ x \in Nat /\ Inbound(a).closed \in BOOLEAN
        /\ AvailableCapacity(Inbound(a)) = Capacity - (p - x)
    BY OutputTypes, SourceFits DEF Inbound
  <2>2. /\ q \in Nat /\ y \in Nat /\ Inbound(b).closed \in BOOLEAN
        /\ AvailableCapacity(Inbound(b)) = Capacity - (q - y)
    BY OutputTypes, SourceFits DEF Grown, Inbound
  <2>3. y >= x /\ q >= p /\ (Inbound(a).closed => Inbound(b).closed)
    BY DEF Grown, Inbound
  <2>4. c \in {0, 1} /\ d \in {0, 1} /\ d >= c
    BY <2>1, <2>2, <2>3
  <2> QED
    BY <2>1, <2>2, <2>3, <2>4, Constants
<1>2. AckedThrough(a) = 1 + p + c /\ AckedThrough(b) = 1 + q + d
  BY DEF AckedThrough, BytesPushed
<1>3. /\ WindowSize(a) = IF Capacity - (p - x) < WinMax THEN Capacity - (p - x) ELSE WinMax
      /\ WindowSize(b) = IF Capacity - (q - y) < WinMax THEN Capacity - (q - y) ELSE WinMax
  BY <1>1 DEF WindowSize
<1> HIDE DEF p, q, x, y, c, d
<1> QED
  BY <1>1, <1>2, <1>3 DEF OfferedEdge

(* A residue that is read near its number is read back. *)
LEMMA NearIsReadBack ==
  ASSUME NEW n \in 0 .. (Len(Source) + 2), NEW cp \in 0 .. (Len(Source) + 2), Near(n, cp)
  PROVE  Unwrap(Wrap(n, PeerISN), PeerISN, cp) = n
<1>1. n \in AbsSeqno /\ cp \in AbsSeqno /\ PeerISN \in Seqno
  BY Constants DEF AbsSeqno
<1> QED
  BY <1>1, UnwrapInvertsWrap DEF Near

(* Being near has no direction. *)
LEMMA NearIsSymmetric ==
  ASSUME NEW m \in Nat, NEW n \in Nat, Near(m, n)
  PROVE  Near(n, m)
<1>1. Distance(m, n) = Distance(n, m)
  BY DEF Distance
<1> QED
  BY <1>1 DEF Near

(* The index of the first payload byte of a segment at abs. *)
First(abs) == IF abs = 0 THEN 0 ELSE abs - 1

(* The payload of a segment is the sender's. *)
LEMMA SegmentPayload ==
  ASSUME NEW abs \in 0 .. (Len(Source) + 1), NEW len \in Nat, NEW FIN \in BOOLEAN,
         IsSegment(abs, len, FIN)
  PROVE  LET m == Segment(abs, len, FIN)
         IN  /\ First(abs) \in Nat /\ m.payload \in Seq(Nat) /\ Len(m.payload) = len
             /\ SenderBytes(First(abs), m.payload, Source)
             /\ FIN => First(abs) + len = Len(Source)
             /\ m.SYN = (abs = 0) /\ m.FIN = FIN /\ m.RST = FALSE /\ m.seqno = Wrap(abs, PeerISN)
<1> DEFINE m == Segment(abs, len, FIN)
           f == First(abs)
           data == SubSeq(Source, f + 1, f + len)
<1>1. Len(Source) \in Nat /\ Source \in Seq(Nat)
  BY Constants
<1>2. f \in Nat /\ f + len <= Len(Source) /\ (FIN => f + len = Len(Source))
  BY <1>1 DEF First, IsSegment
<1>3. /\ (IF abs = 0 THEN 1 ELSE abs) = f + 1
      /\ (IF abs = 0 THEN len ELSE abs + len - 1) = f + len
  BY <1>1 DEF First
<1>4. m = SenderMessage(Wrap(abs, PeerISN), abs = 0, data, FIN, FALSE)
  BY <1>3, Zenon DEF Segment
<1> HIDE DEF f
<1>5. \A i \in (f + 1) .. (f + len) : Source[i] \in Nat
  <2> SUFFICES ASSUME NEW i \in (f + 1) .. (f + len) PROVE Source[i] \in Nat
    OBVIOUS
  <2>1. i \in 1 .. Len(Source)
    BY <1>1, <1>2
  <2> QED
    BY <1>1, <2>1, ElementOfSeq
<1>6. /\ data \in Seq(Nat)
      /\ Len(data) = IF f + 1 <= f + len THEN (f + len) - (f + 1) + 1 ELSE 0
      /\ \A i \in 1 .. (f + len) - (f + 1) + 1 : data[i] = Source[(f + 1) + i - 1]
  <2>1. f + 1 \in Int /\ f + len \in Int
    BY <1>2
  <2> QED
    BY <1>5, <2>1, SubSeqProperties
<1> HIDE DEF data
<1>7. Len(data) = len
  BY <1>2, <1>6
<1>8. \A k \in 1 .. Len(data) : data[k] = Source[f + k]
  <2> SUFFICES ASSUME NEW k \in 1 .. Len(data) PROVE data[k] = Source[f + k]
    OBVIOUS
  <2>1. k \in 1 .. (f + len) - (f + 1) + 1 /\ (f + 1) + k - 1 = f + k
    BY <1>2, <1>7
  <2> QED
    BY <1>6, <2>1
<1>9. SenderBytes(f, data, Source)
  BY <1>2, <1>7, <1>8 DEF SenderBytes
<1>10. /\ m.payload = data /\ m.SYN = (abs = 0) /\ m.FIN = FIN /\ m.RST = FALSE
       /\ m.seqno = Wrap(abs, PeerISN)
  <2> DEFINE w == SenderMessage(Wrap(abs, PeerISN), abs = 0, data, FIN, FALSE)
  <2>1. w.payload = data /\ w.FIN = FIN /\ w.RST = FALSE /\ w.seqno = Wrap(abs, PeerISN)
    BY DEF SenderMessage
  <2>2. w.SYN = (abs = 0)
    BY Zenon DEF SenderMessage
  <2>3. m = w
    BY <1>4
  <2> HIDE DEF w, m
  <2> QED
    BY <2>1, <2>2, <2>3
<1> HIDE DEF m
<1> QED
  BY <1>2, <1>6, <1>7, <1>9, <1>10 DEF m, f

(* What receive() makes of a segment near the next byte expected           *)
(* (tcp_receiver.cc:7-29).                                                 *)
LEMMA SegmentReceived ==
  ASSUME ReceiverInv,
         NEW abs \in 0 .. (Len(Source) + 1), NEW len \in Nat, NEW FIN \in BOOLEAN,
         IsSegment(abs, len, FIN), Near(abs, Len(Inbound(rcv).pushed)),
         rcv.isn # NoSeqno \/ abs = 0
  PROVE  LET m == Segment(abs, len, FIN)
         IN  ReceiverReceive(rcv, m)
               = [isn |-> PeerISN, reassembler |-> Insert(rcv.reassembler, First(abs), m.payload, FIN)]
<1> DEFINE m == Segment(abs, len, FIN)
           isn == IF rcv.isn = NoSeqno THEN m.seqno ELSE rcv.isn
           p == Len(Inbound(rcv).pushed)
           a == Unwrap(m.seqno, isn, p)
<1>1. /\ m.SYN = (abs = 0) /\ m.FIN = FIN /\ m.RST = FALSE /\ m.seqno = Wrap(abs, PeerISN)
  BY SegmentPayload
<1>2. /\ ~m.RST /\ ~(rcv.isn = NoSeqno /\ ~m.SYN)
  BY <1>1
<1>3. ReceiverReceive(rcv, m)
        = [isn |-> isn, reassembler |-> Insert(rcv.reassembler, StreamIndex(m, a), m.payload, m.FIN)]
  BY <1>2 DEF ReceiverReceive, BytesPushed
<1> HIDE DEF m
<1>4. isn = PeerISN
  BY <1>1, WrapOfZero, Constants DEF ReceiverInv
<1>5. p \in 0 .. Len(Source)
  BY OutputTypes, SourceFits DEF ReceiverInv, Inbound
<1>6. a = abs
  <2>1. abs \in 0 .. (Len(Source) + 2) /\ p \in 0 .. (Len(Source) + 2)
    BY <1>5, Constants
  <2> QED
    BY <1>1, <1>4, <2>1, NearIsReadBack
<1> HIDE DEF a, isn
<1>7. StreamIndex(m, a) = First(abs)
  <2>1. CASE abs = 0
    BY <1>1, <1>6, <2>1 DEF StreamIndex, First
  <2>2. CASE abs # 0
    <3>1. abs - 1 \in 0 .. (AbsMod - 1) /\ AbsMod \in Nat
      BY <2>2, Constants
    <3>2. (abs - 1) % AbsMod = abs - 1
      BY <3>1, SmallMod
    <3> QED
      BY <1>1, <1>6, <2>2, <3>2 DEF StreamIndex, First
  <2> QED
    BY <2>1, <2>2
<1> QED
  BY <1>1, <1>3, <1>4, <1>7 DEF m

(* The effect of receive() on a good receiver. *)
LEMMA SegmentTaken ==
  ASSUME ReceiverInv,
         NEW abs \in 0 .. (Len(Source) + 1), NEW len \in Nat, NEW FIN \in BOOLEAN,
         IsSegment(abs, len, FIN), Near(abs, Len(Inbound(rcv).pushed)),
         rcv.isn # NoSeqno \/ abs = 0,
         NEW t, t = ReceiverReceive(rcv, Segment(abs, len, FIN))
  PROVE  /\ t = [reassembler |-> t.reassembler, isn |-> t.isn] /\ t.isn = PeerISN
         /\ Grown(rcv.reassembler, t.reassembler, Source, Capacity)
         /\ Inbound(t).error = Inbound(rcv).error
         /\ First(abs) <= Len(Inbound(rcv).pushed) /\ First(abs) + len <= Inbound(rcv).popped + Capacity
              => Len(Inbound(t).pushed) >= First(abs) + len
         /\ FIN /\ Len(Inbound(t).pushed) = Len(Source) => Inbound(t).closed
<1> DEFINE m == Segment(abs, len, FIN)
           r == rcv.reassembler
           u == Insert(r, First(abs), m.payload, FIN)
<1>1. t = [isn |-> PeerISN, reassembler |-> u]
  BY SegmentReceived
<1>2. /\ First(abs) \in Nat /\ m.payload \in Seq(Nat) /\ Len(m.payload) = len
      /\ SenderBytes(First(abs), m.payload, Source)
      /\ FIN => First(abs) + len = Len(Source)
  BY SegmentPayload
<1>3. GoodReassembler(r, Source, Capacity)
  BY DEF ReceiverInv
<1> HIDE DEF m, r
<1>4. /\ GoodReassembler(u, Source, Capacity)
      /\ u.output.popped = r.output.popped /\ u.output.error = r.output.error
      /\ r.output.closed => u.output.closed
      /\ Len(u.output.pushed) >= Len(r.output.pushed)
      /\ First(abs) <= Len(r.output.pushed) /\ First(abs) + len <= r.output.popped + Capacity
           => Len(u.output.pushed) >= First(abs) + len
      /\ FIN /\ Len(u.output.pushed) = Len(Source) => u.output.closed
  <2> DEFINE f == First(abs)
             data == m.payload
  <2>1. /\ f \in Int /\ data \in Seq(Nat) /\ SenderBytes(f, data, Source)
        /\ FIN => f \in Nat /\ f + Len(data) = Len(Source)
    BY <1>2
  <2> HIDE DEF f, data
  <2>2. LET v == Insert(r, f, data, FIN)
        IN  /\ GoodReassembler(v, Source, Capacity)
            /\ v.output.popped = r.output.popped /\ v.output.error = r.output.error
            /\ r.output.closed => v.output.closed
            /\ Len(v.output.pushed) >= Len(r.output.pushed)
            /\ f <= Len(r.output.pushed) /\ f + Len(data) <= r.output.popped + Capacity
                 => Len(v.output.pushed) >= f + Len(data)
            /\ FIN /\ Len(v.output.pushed) = Len(Source) => v.output.closed
    BY <1>3, <2>1, InsertGood, SourceFits
  <2> QED
    BY <1>2, <2>2 DEF f, data
<1> HIDE DEF u
<1>5. t.reassembler = u /\ t.isn = PeerISN /\ t = [reassembler |-> t.reassembler, isn |-> t.isn]
  BY <1>1
<1>6. Grown(r, u, Source, Capacity)
  <2>1. r.output.popped \in Nat
    BY <1>3, OutputTypes, SourceFits
  <2> QED
    BY <1>4, <2>1 DEF Grown
<1> QED
  BY <1>4, <1>5, <1>6 DEF Inbound, r

(* The message of ArriveKeepAlive. *)
KeepAlive == SenderMessage(Wrap(AckedThrough(rcv) - 1, PeerISN), FALSE, <<>>, FALSE, FALSE)

(* A keep-alive changes nothing but what was due anyway, also right after  *)
(* the SYN, where its index wraps around (tcp_receiver.cc:27).             *)
LEMMA KeepAliveTaken ==
  ASSUME ReceiverInv, rcv.isn # NoSeqno, NEW t, t = ReceiverReceive(rcv, KeepAlive)
  PROVE  /\ t = [reassembler |-> t.reassembler, isn |-> t.isn] /\ t.isn = PeerISN
         /\ Grown(rcv.reassembler, t.reassembler, Source, Capacity)
<1> DEFINE n == AckedThrough(rcv) - 1
           m == KeepAlive
           r == rcv.reassembler
           p == Len(Inbound(rcv).pushed)
           a == Unwrap(m.seqno, rcv.isn, p)
           first == StreamIndex(m, a)
           u == Insert(r, first, <<>>, FALSE)
<1>1. /\ m.seqno = Wrap(n, PeerISN) /\ m.SYN = FALSE /\ m.payload = <<>> /\ m.FIN = FALSE
      /\ m.RST = FALSE
  BY DEF KeepAlive, SenderMessage
<1>2. t = [isn |-> rcv.isn, reassembler |-> u]
  BY <1>1 DEF ReceiverReceive, BytesPushed
<1>3. rcv.isn = PeerISN /\ GoodReassembler(r, Source, Capacity)
  BY DEF ReceiverInv
<1>4. p \in 0 .. Len(Source)
  BY <1>3, OutputTypes, SourceFits DEF Inbound
<1> HIDE DEF m, r
<1>5. n \in {p, p + 1}
  <2>1. AckedThrough(rcv) = 1 + p + (IF Inbound(rcv).closed THEN 1 ELSE 0)
    BY DEF AckedThrough, BytesPushed
  <2> HIDE DEF p
  <2>2. CASE Inbound(rcv).closed
    BY <1>4, <2>1, <2>2
  <2>3. CASE ~Inbound(rcv).closed
    BY <1>4, <2>1, <2>3
  <2> QED
    BY <2>2, <2>3
<1> HIDE DEF n, p
<1>6. a = n
  <2>1. n \in 0 .. (Len(Source) + 2) /\ p \in 0 .. (Len(Source) + 2) /\ Near(n, p)
    BY <1>4, <1>5, Constants DEF Near, Distance
  <2> QED
    BY <1>1, <1>3, <2>1, NearIsReadBack
<1>7. first \in Int
  <2>1. first = (n - 1) % AbsMod
    BY <1>1, <1>6 DEF StreamIndex
  <2>2. n - 1 \in Int /\ AbsMod \in Nat \ {0}
    BY <1>4, <1>5, Constants
  <2>3. (n - 1) % AbsMod \in 0 .. (AbsMod - 1)
    BY <2>2, DivMod
  <2> QED
    BY <2>1, <2>2, <2>3
<1> HIDE DEF first
<1>8. /\ GoodReassembler(u, Source, Capacity) /\ u.output.popped = r.output.popped
      /\ r.output.closed => u.output.closed
      /\ Len(u.output.pushed) >= Len(r.output.pushed)
  <2>1. SenderBytes(first, <<>>, Source) /\ <<>> \in Seq(Nat)
    BY EmptySeq DEF SenderBytes
  <2> QED
    <3> DEFINE data == <<>>
               last == FALSE
    <3>1. data \in Seq(Nat) /\ SenderBytes(first, data, Source) /\ last \in BOOLEAN /\ ~last
      BY <2>1
    <3> HIDE DEF data, last
    <3>2. LET v == Insert(r, first, data, last)
          IN  /\ GoodReassembler(v, Source, Capacity) /\ v.output.popped = r.output.popped
              /\ r.output.closed => v.output.closed
              /\ Len(v.output.pushed) >= Len(r.output.pushed)
      BY <1>3, <1>7, <3>1, InsertGood, SourceFits
    <3> QED
      BY <3>2 DEF data, last
<1> HIDE DEF u
<1>9. Grown(r, u, Source, Capacity)
  <2>1. r.output.popped \in Nat
    BY <1>3, OutputTypes, SourceFits
  <2> QED
    BY <1>8, <2>1 DEF Grown
<1>10. t.reassembler = u /\ t.isn = PeerISN /\ t = [reassembler |-> t.reassembler, isn |-> t.isn]
  <2>1. t = [isn |-> PeerISN, reassembler |-> u]
    BY <1>2, <1>3, Zenon
  <2>2. t.reassembler = u /\ t.isn = PeerISN
    BY <2>1
  <2> QED
    BY <2>1, <2>2
<1> QED
  BY <1>9, <1>10 DEF r

(* Every step of the receiver keeps the invariant, and unless it is a      *)
(* reset takes nothing back.                                               *)
LEMMA ReceiverStep ==
  ASSUME ReceiverInv, Next
  PROVE  /\ ReceiverInv'
         /\ ~Inbound(rcv').error => Grown(rcv.reassembler, rcv'.reassembler, Source, Capacity)
<1>0. /\ rcv = [reassembler |-> rcv.reassembler, isn |-> rcv.isn]
      /\ GoodReassembler(rcv.reassembler, Source, Capacity)
      /\ rcv.isn \in {NoSeqno, PeerISN} /\ PeerISN # NoSeqno
      /\ rcv.isn = NoSeqno => Len(Inbound(rcv).pushed) = 0
  BY Constants DEF ReceiverInv
<1>1. ASSUME rcv' = [reassembler |-> rcv'.reassembler, isn |-> rcv'.isn], rcv'.isn = PeerISN,
             Grown(rcv.reassembler, rcv'.reassembler, Source, Capacity)
      PROVE  /\ ReceiverInv'
             /\ ~Inbound(rcv').error => Grown(rcv.reassembler, rcv'.reassembler, Source, Capacity)
  BY <1>0, <1>1 DEF ReceiverInv, Grown
<1>2. ASSUME NEW abs \in 0 .. (Len(Source) + 1), NEW len \in 0 .. MaxSeg, NEW FIN \in BOOLEAN,
             ArriveSegment(abs, len, FIN)
      PROVE  /\ ReceiverInv'
             /\ ~Inbound(rcv').error => Grown(rcv.reassembler, rcv'.reassembler, Source, Capacity)
  <2>1. /\ len \in Nat /\ IsSegment(abs, len, FIN) /\ Near(abs, Len(Inbound(rcv).pushed))
        /\ rcv' = ReceiverReceive(rcv, Segment(abs, len, FIN))
    BY <1>2, ReceiverAssumption, StreamAssumption DEF ArriveSegment, BytesPushed
  <2>2. CASE rcv.isn # NoSeqno \/ abs = 0
    <3>1. \A t : t = ReceiverReceive(rcv, Segment(abs, len, FIN)) =>
             /\ t = [reassembler |-> t.reassembler, isn |-> t.isn] /\ t.isn = PeerISN
             /\ Grown(rcv.reassembler, t.reassembler, Source, Capacity)
      BY <2>1, <2>2, SegmentTaken
    <3> QED
      BY <1>1, <2>1, <3>1
  <2>3. CASE rcv.isn = NoSeqno /\ abs # 0
    <3>1. Segment(abs, len, FIN).SYN = (abs = 0) /\ Segment(abs, len, FIN).RST = FALSE
      BY <2>1, SegmentPayload
    <3>2. rcv' = rcv
      BY <2>1, <2>3, <3>1 DEF ReceiverReceive
    <3>3. Grown(rcv.reassembler, rcv.reassembler, Source, Capacity)
      BY <1>0, OutputTypes, SourceFits DEF Grown
    <3> QED
      BY <3>2, <3>3 DEF ReceiverInv, Inbound
  <2> QED
    BY <2>2, <2>3
<1>3. ASSUME ArriveKeepAlive
      PROVE  /\ ReceiverInv'
             /\ ~Inbound(rcv').error => Grown(rcv.reassembler, rcv'.reassembler, Source, Capacity)
  <2>1. \A t : t = ReceiverReceive(rcv, KeepAlive) =>
           /\ t = [reassembler |-> t.reassembler, isn |-> t.isn] /\ t.isn = PeerISN
           /\ Grown(rcv.reassembler, t.reassembler, Source, Capacity)
    BY <1>3, KeepAliveTaken DEF ArriveKeepAlive
  <2> QED
    BY <1>1, <1>3, <2>1 DEF ArriveKeepAlive, KeepAlive
<1>4. ASSUME ArriveReset
      PROVE  /\ ReceiverInv'
             /\ ~Inbound(rcv').error => Grown(rcv.reassembler, rcv'.reassembler, Source, Capacity)
  <2> DEFINE u == Abort(rcv.reassembler)
  <2>1. rcv' = [rcv EXCEPT !.reassembler = u]
    <3>1. SenderMessage(PeerISN, FALSE, <<>>, FALSE, TRUE).RST = TRUE
      BY DEF SenderMessage
    <3> QED
      BY <1>4, <3>1 DEF ArriveReset, ReceiverReceive
  <2>2. /\ GoodReassembler(u, Source, Capacity)
        /\ u.output.pushed = rcv.reassembler.output.pushed /\ u.output.error = TRUE
    <3> DEFINE r == rcv.reassembler
    <3>1. GoodReassembler(r, Source, Capacity)
      BY <1>0
    <3> HIDE DEF r
    <3>2. /\ GoodReassembler(Abort(r), Source, Capacity) /\ Abort(r).output.pushed = r.output.pushed
          /\ Abort(r).output.error = TRUE
      BY <3>1, ResetTaken, SourceFits
    <3> QED
      BY <3>2 DEF r
  <2> HIDE DEF u
  <2>3. rcv' = [reassembler |-> u, isn |-> rcv.isn]
    BY <1>0, <2>1
  <2>4. rcv'.reassembler = u /\ rcv'.isn = rcv.isn
    BY <2>3
  <2> QED
    BY <1>0, <2>2, <2>3, <2>4 DEF ReceiverInv, Inbound
<1>5. ASSUME NEW len \in 1 .. Capacity, Read(len)
      PROVE  /\ ReceiverInv'
             /\ ~Inbound(rcv').error => Grown(rcv.reassembler, rcv'.reassembler, Source, Capacity)
  <2> DEFINE u == ReadOutput(rcv.reassembler, len)
  <2>1. rcv' = [rcv EXCEPT !.reassembler = u] /\ len <= BytesBuffered(rcv.reassembler.output)
    BY <1>5 DEF Read, Inbound
  <2>2. len \in Nat
    BY Constants
  <2>3. Grown(rcv.reassembler, u, Source, Capacity) /\ u.output.pushed = rcv.reassembler.output.pushed
    BY <1>0, <2>1, <2>2, ReadTaken, SourceFits
  <2> HIDE DEF u
  <2>4. rcv' = [reassembler |-> u, isn |-> rcv.isn]
    BY <1>0, <2>1
  <2>5. rcv'.reassembler = u /\ rcv'.isn = rcv.isn
    BY <2>4
  <2> QED
    BY <1>0, <2>3, <2>4, <2>5 DEF ReceiverInv, Inbound, Grown
<1> QED
  BY <1>2, <1>3, <1>4, <1>5 DEF Next

(* The invariant holds throughout. *)
LEMMA ReceiverAlways == Spec => []ReceiverInv
<1>1. Init => ReceiverInv
  <2> SUFFICES ASSUME Init PROVE ReceiverInv
    OBVIOUS
  <2> DEFINE r == NewReassembler(Capacity)
  <2>1. rcv = [reassembler |-> r, isn |-> NoSeqno]
    BY DEF Init, NewReceiver
  <2>2. GoodReassembler(r, Source, Capacity) /\ Len(r.output.pushed) = 0
    BY NewReassemblerIsGood, Constants, SourceFits
  <2> HIDE DEF r
  <2> QED
    BY <2>1, <2>2 DEF ReceiverInv, Inbound
<1>2. ReceiverInv /\ [Next]_rcv => ReceiverInv'
  <2>1. CASE Next
    BY <2>1, ReceiverStep
  <2>2. CASE UNCHANGED rcv
    BY <2>2 DEF ReceiverInv, Inbound
  <2> QED
    BY <2>1, <2>2
<1> QED
  BY <1>1, <1>2, PTL DEF Spec

-----------------------------------------------------------------------------
(* The theorems *)

(* The ackno sent is the low part of the number acknowledged               *)
(* (tcp_receiver.cc:44-45).                                                *)
LEMMA AcknoSent ==
  ASSUME ReceiverInv, ReceiverSend(rcv).ackno # NoSeqno
  PROVE  ReceiverSend(rcv).ackno = Wrap(AckedThrough(rcv), PeerISN)
<1>1. CASE Inbound(rcv).error
  <2>1. ReceiverSend(rcv).ackno = NoSeqno
    BY <1>1 DEF ReceiverSend, ReceiverMessage
  <2> QED
    BY <2>1
<1>2. CASE ~Inbound(rcv).error /\ rcv.isn = NoSeqno
  <2>1. ReceiverSend(rcv).ackno = NoSeqno
    BY <1>2 DEF ReceiverSend, ReceiverMessage
  <2> QED
    BY <2>1
<1>3. CASE ~Inbound(rcv).error /\ rcv.isn # NoSeqno
  <2>1. rcv.isn = PeerISN
    BY <1>3 DEF ReceiverInv
  <2>2. ReceiverSend(rcv).ackno = Wrap(AckedThrough(rcv), rcv.isn)
    BY <1>3 DEF ReceiverSend, ReceiverMessage
  <2> QED
    BY <2>1, <2>2
<1> QED
  BY <1>1, <1>2, <1>3

(* The receiver's stream is a prefix of the sender's, ends only where the  *)
(* sender's ends, and the ackno names its length exactly: the map of held  *)
(* bytes, the clipping at both ends of the window and the wrapped numbers  *)
(* never mix up two bytes (tcp_receiver.cc:7-29, 44-45,                    *)
(* reassembler.cc:5-88).                                                   *)
THEOREM AcknoStaysExact == Spec => []AcknoIsExact
<1>1. ReceiverInv => AcknoIsExact
  <2> SUFFICES ASSUME ReceiverInv PROVE AcknoIsExact
    OBVIOUS
  <2> DEFINE got == Inbound(rcv).pushed
             ackno == ReceiverSend(rcv).ackno
  <2>1. GoodReassembler(rcv.reassembler, Source, Capacity) /\ (rcv.isn = NoSeqno => Len(got) = 0)
    BY DEF ReceiverInv
  <2>2. /\ Len(got) <= Len(Source) /\ got = SubSeq(Source, 1, Len(got)) /\ got \in Seq(Nat)
        /\ (Inbound(rcv).closed /\ ~Inbound(rcv).error) => got = Source
    BY <2>1, OutputTypes, OutputIsPrefix, SourceFits DEF Inbound
  <2>3. rcv.isn = NoSeqno => got = <<>>
    BY <2>1, <2>2, EmptySeq
  <2>4. ASSUME ackno # NoSeqno, NEW k \in 1 .. (Len(Source) + 2), Near(k, AckedThrough(rcv))
        PROVE  Unwrap(ackno, PeerISN, k) = 1 + Len(got) + (IF Inbound(rcv).closed THEN 1 ELSE 0)
    <3> DEFINE n == AckedThrough(rcv)
    <3>1. /\ n = 1 + Len(got) + (IF Inbound(rcv).closed THEN 1 ELSE 0)
          /\ ackno = Wrap(n, PeerISN)
      BY <2>1, <2>4, AckedInNumbers, AcknoSent, SourceFits
    <3>0. n \in 1 .. (Len(Source) + 2) /\ Len(Source) \in Nat
      BY <2>1, AckedInNumbers, SourceFits, Constants
    <3> HIDE DEF n, got, ackno
    <3>2. n \in 0 .. (Len(Source) + 2) /\ k \in 0 .. (Len(Source) + 2) /\ Near(n, k)
      <4>1. Near(k, n)
        BY <2>4 DEF n
      <4>2. n \in 0 .. (Len(Source) + 2) /\ k \in 0 .. (Len(Source) + 2) /\ n \in Nat /\ k \in Nat
        BY <3>0
      <4> QED
        BY <4>1, <4>2, NearIsSymmetric, Zenon
    <3>3. Unwrap(Wrap(n, PeerISN), PeerISN, k) = n
      BY <3>2, NearIsReadBack
    <3> QED
      BY <3>1, <3>3
  <2> HIDE DEF got, ackno
  <2>5. ackno # NoSeqno =>
          \A k \in {n \in 1 .. (Len(Source) + 2) : Near(n, AckedThrough(rcv))} :
              Unwrap(ackno, PeerISN, k) = 1 + Len(got) + (IF Inbound(rcv).closed THEN 1 ELSE 0)
    BY <2>4
  <2> QED
    BY <2>2, <2>3, <2>5, Zenon DEF AcknoIsExact, got, ackno
<1> QED
  BY <1>1, ReceiverAlways, PTL

(* A segment that begins where the receiver stands, within the window it   *)
(* offers, is acknowledged to its end in one call (tcp_receiver.cc:21-28). *)
LEMMA InOrderTaken ==
  ASSUME ReceiverInv, ~Inbound(rcv).closed,
         NEW abs, abs = IF rcv.isn = NoSeqno THEN 0 ELSE AckedThrough(rcv),
         NEW len \in 0 .. MaxSeg, NEW FIN \in BOOLEAN,
         IsSegment(abs, len, FIN), len <= WindowSize(rcv)
  PROVE  AckedThrough(ReceiverReceive(rcv, Segment(abs, len, FIN)))
           >= abs + SequenceLength(Segment(abs, len, FIN))
<1> DEFINE m == Segment(abs, len, FIN)
           t == ReceiverReceive(rcv, m)
           o == Inbound(rcv)
           p == Len(o.pushed)
           q == Len(Inbound(t).pushed)
           room == AvailableCapacity(o)
           syn == IF abs = 0 THEN 1 ELSE 0
           fin == IF FIN THEN 1 ELSE 0
           c == IF Inbound(t).closed THEN 1 ELSE 0
<1>1. GoodReassembler(rcv.reassembler, Source, Capacity) /\ (rcv.isn = NoSeqno => p = 0)
  BY DEF ReceiverInv
<1>2. /\ p \in 0 .. Len(Source) /\ o.popped \in Nat /\ room \in Nat
      /\ room = Capacity - (p - o.popped)
      /\ Len(Source) \in Nat /\ Capacity \in Nat /\ WinMax \in Nat /\ MaxSeg \in Nat
      /\ 4 < SeqMod /\ SeqMod \in Nat
  <2>1. /\ p \in 0 .. Len(Source) /\ o.popped \in Nat /\ room \in Nat
        /\ room = Capacity - (p - o.popped)
    <3>1. GoodReassembler(rcv.reassembler, Source, Capacity) /\ Fits(Source, Capacity)
      BY <1>1, SourceFits
    <3> QED
      BY ONLY <3>1, OutputTypes DEF Inbound
  <2> QED
    BY <2>1, Constants, ReceiverAssumption, StreamAssumption
<1>3. AckedThrough(rcv) = 1 + p
  <2>1. AckedThrough(rcv) = 1 + p + (IF Inbound(rcv).closed THEN 1 ELSE 0)
    BY <1>1, AckedInNumbers, SourceFits
  <2> HIDE DEF p
  <2> QED
    BY <1>2, <2>1
<1>4. len <= room
  BY <1>2 DEF WindowSize
<1> HIDE DEF room, p, o
<1>5. abs = 1 + p \/ (abs = 0 /\ p = 0)
  BY <1>1, <1>3
<1>6. First(abs) = p /\ abs \in 0 .. (Len(Source) + 1) /\ len \in Nat /\ Near(abs, p) /\ abs + syn = p + 1
  <2>1. CASE abs = 1 + p
    <3>1. First(abs) = p /\ abs \in 0 .. (Len(Source) + 1) /\ len \in Nat /\ abs + syn = p + 1
      BY <1>2, <2>1 DEF First
    <3>2. Distance(abs, p) = 1
      BY <1>2, <2>1 DEF Distance
    <3> QED
      BY <1>2, <3>1, <3>2 DEF Near
  <2>2. CASE abs = 0 /\ p = 0
    <3>1. First(abs) = p /\ abs \in 0 .. (Len(Source) + 1) /\ len \in Nat /\ abs + syn = p + 1
      BY <1>2, <2>2 DEF First
    <3>2. Distance(abs, p) = 0
      BY <2>2 DEF Distance
    <3> QED
      BY <1>2, <3>1, <3>2 DEF Near
  <2> QED
    BY <1>5, <2>1, <2>2
<1>7. rcv.isn # NoSeqno \/ abs = 0
  OBVIOUS
<1>8. /\ Len(m.payload) = len /\ m.SYN = (abs = 0) /\ m.FIN = FIN
      /\ FIN => p + len = Len(Source)
  BY <1>6, SegmentPayload
<1>9. SequenceLength(m) = syn + len + fin
  BY <1>8 DEF SequenceLength
<1>10. /\ Grown(rcv.reassembler, t.reassembler, Source, Capacity)
       /\ First(abs) <= Len(Inbound(rcv).pushed) /\ First(abs) + len <= Inbound(rcv).popped + Capacity
            => Len(Inbound(t).pushed) >= First(abs) + len
       /\ FIN /\ Len(Inbound(t).pushed) = Len(Source) => Inbound(t).closed
  BY <1>6, <1>7, SegmentTaken DEF p, o
<1> HIDE DEF m, t
<1>11. q \in 0 .. Len(Source) /\ AckedThrough(t) = 1 + q + c
  BY <1>10, OutputTypes, AckedInNumbers, SourceFits DEF Grown, Inbound
<1>12. q >= p + len /\ (FIN /\ q = Len(Source) => c = 1)
  <2>1. p <= p /\ p + len <= o.popped + Capacity
    BY <1>2, <1>4, <1>6
  <2> QED
    BY <1>6, <1>10, <2>1 DEF p, o
<1>13. c \in {0, 1} /\ fin \in {0, 1} /\ syn \in {0, 1} /\ (fin = 1 => FIN) /\ (FIN => fin = 1)
  OBVIOUS
<1> HIDE DEF q, c, fin, syn
<1>14. fin <= c
  BY <1>2, <1>6, <1>8, <1>11, <1>12, <1>13
<1>15. AckedThrough(t) >= abs + SequenceLength(m)
  BY <1>2, <1>6, <1>9, <1>11, <1>12, <1>13, <1>14
<1> QED
  BY <1>15 DEF m, t

(* What arrives in order and within the window is acknowledged at once, to *)
(* its last byte, SYN and FIN included: for every stream length, window,   *)
(* and position of the wrap (tcp_receiver.cc:21-28).                       *)
THEOREM InOrderStaysAcknowledged == Spec => []InOrderIsAcknowledged
<1>1. ReceiverInv => InOrderIsAcknowledged
  BY InOrderTaken, Zenon DEF InOrderIsAcknowledged
<1> QED
  BY <1>1, ReceiverAlways, PTL

(* No arrival, in whatever order, and no read moves the acknowledgement or *)
(* the right edge of the window back, short of a reset                     *)
(* (tcp_receiver.cc:34, 44).                                               *)
THEOREM EdgeStaysPut == Spec => EdgeNeverShrinks
<1>1. ASSUME ReceiverInv, [Next]_rcv
      PROVE  [~Inbound(rcv').error =>
                 /\ AckedThrough(rcv') >= AckedThrough(rcv)
                 /\ OfferedEdge(rcv') >= OfferedEdge(rcv)]_rcv
  <2>1. CASE rcv' = rcv
    BY <2>1
  <2>2. CASE Next
    <3>1. ~Inbound(rcv').error => Grown(rcv.reassembler, rcv'.reassembler, Source, Capacity)
      BY <1>1, <2>2, ReceiverStep
    <3>2. GoodReassembler(rcv.reassembler, Source, Capacity)
      BY <1>1 DEF ReceiverInv
    <3> QED
      BY <3>1, <3>2, EdgesGrow
  <2> QED
    BY <1>1, <2>1, <2>2
<1> QED
  BY <1>1, ReceiverAlways, PTL DEF Spec, EdgeNeverShrinks

-----------------------------------------------------------------------------
(* The reassembler's map.                                                  *)
(*                                                                         *)
(* An entry is a stretch of the stream.  Each of the four steps of insert()*)
(* (reassembler.cc:16-73) is shown to turn a map of entries that lie apart *)
(* within the window into another one, and to change what waits by just    *)
(* the bytes it should: step 1 by ClipIs, step 2 by MergeIs, step 3 by     *)
(* AbsorbIs and StoreIs, step 4 by FlushIs.  The loops of steps 3 and 4    *)
(* run once per entry at most: a turn that changes something takes an      *)
(* entry out.                                                              *)
(* The substring d at index f is the stream's, and within lo .. hi - 1. *)
Stretch(f, d, lo, hi) ==
    /\ f \in Nat /\ d \in Seq(Nat) /\ Len(d) \in Nat
    /\ lo <= f /\ f + Len(d) <= hi /\ f + Len(d) <= Len(Source)
    /\ \A k \in 1 .. Len(d) : d[k] = Source[f + k]

Apart(pending) ==
    \A f, g \in DOMAIN pending : f < g => f + Len(pending[f]) < g

Entries(pending, lo, hi) ==
    /\ IsFiniteSet(DOMAIN pending) /\ DOMAIN pending \subseteq Nat
    /\ \A f \in DOMAIN pending : Stretch(f, pending[f], lo, hi) /\ Len(pending[f]) > 0
    /\ Apart(pending)

(* The bytes of a substring, and those that wait, by their index. *)
Spans(f, d, i) == f <= i /\ i < f + Len(d)
Waits(pending, i) == \E f \in DOMAIN pending : Spans(f, pending[f], i)

LEMMA StreamConstants ==
  Source \in Seq(Nat) /\ Len(Source) \in Nat /\ Capacity \in Nat /\ MaxSeg \in Nat
  /\ AbsMod \in Nat /\ Len(Source) < AbsMod
BY StreamAssumption, ReassemblerAssumption

(* A bounded set of numbers has a greatest element. *)
LEMMA GreatestElement ==
  ASSUME NEW T, NEW m \in Nat, T # {}, T \subseteq 0 .. m
  PROVE  \E x \in T : \A y \in T : x >= y
<1> DEFINE U == {m - x : x \in T}
<1>1. U \subseteq Nat /\ U # {}
  OBVIOUS
<1> HIDE DEF U
<1>2. PICK u \in U : \A v \in U : u <= v
  BY <1>1, LeastElement
<1>3. PICK x \in T : u = m - x
  BY <1>2 DEF U
<1>4. \A y \in T : m - y \in U
  BY DEF U
<1>5. \A y \in T : m - x <= m - y
  BY <1>2, <1>3, <1>4
<1>6. \A y \in T : x \in Nat /\ y \in Nat
  OBVIOUS
<1>7. \A y \in T : x >= y
  BY <1>5, <1>6
<1> QED
  BY <1>7

LEMMA MinIs ==
  ASSUME NEW T, T # {}, T \subseteq Nat
  PROVE  Min(T) \in T /\ \A y \in T : Min(T) <= y
<1>1. \E x \in T : \A y \in T : x <= y
  BY LeastElement
<1> QED
  BY <1>1 DEF Min

LEMMA MaxIs ==
  ASSUME NEW T, NEW m \in Nat, T # {}, T \subseteq 0 .. m
  PROVE  Max(T) \in T /\ \A y \in T : Max(T) >= y
<1>1. \E x \in T : \A y \in T : x >= y
  BY GreatestElement
<1> QED
  BY <1>1 DEF Max

(* What is left of a substring. *)
LEMMA DropIs ==
  ASSUME NEW data \in Seq(Nat), NEW n \in 0 .. Len(data)
  PROVE  /\ Drop(data, n) \in Seq(Nat) /\ Len(Drop(data, n)) = Len(data) - n
         /\ \A k \in 1 .. Len(data) - n : Drop(data, n)[k] = data[n + k]
BY DEF Drop

(* Two stretches that overlap or touch make one. *)
LEMMA Joined ==
  ASSUME NEW f \in Nat, NEW d, NEW g \in Nat, NEW e, NEW lo, NEW hi,
         Stretch(f, d, lo, hi), Stretch(g, e, lo, hi),
         f <= g, g <= f + Len(d), f + Len(d) <= g + Len(e),
         NEW n \in Nat, n + g = f + Len(d)
  PROVE  /\ Stretch(f, d \o Drop(e, n), lo, hi)
         /\ f + Len(d \o Drop(e, n)) = g + Len(e)
<1> DEFINE rest == Drop(e, n)
           s == d \o rest
<1>1. d \in Seq(Nat) /\ e \in Seq(Nat) /\ n \in 0 .. Len(e) /\ Len(d) \in Nat /\ Len(e) \in Nat
      /\ f \in Nat /\ g \in Nat
  BY DEF Stretch
<1>2. rest \in Seq(Nat) /\ Len(rest) = Len(e) - n /\ \A k \in 1 .. Len(e) - n : rest[k] = e[n + k]
  BY <1>1, DropIs
<1>3. s = d \o rest
  OBVIOUS
<1>4. n + g = f + Len(d) /\ n \in Nat
  BY <1>1
<1> HIDE DEF rest, s
<1>5. s \in Seq(Nat) /\ Len(s) = Len(d) + Len(rest) /\ Len(s) \in Nat
      /\ \A k \in 1 .. Len(s) : s[k] = IF k <= Len(d) THEN d[k] ELSE rest[k - Len(d)]
  <2>1. d \in Seq(Nat) /\ rest \in Seq(Nat)
    BY <1>1, <1>2
  <2> QED
    BY ONLY <1>3, <2>1
<1>6. f + Len(s) = g + Len(e)
  <2>1. Len(s) = Len(d) + (Len(e) - n) /\ Len(d) \in Nat /\ Len(e) \in Nat
    BY <1>1, <1>2, <1>5
  <2> QED
    BY ONLY <1>1, <1>4, <2>1
<1>7. lo <= f /\ g + Len(e) <= hi /\ g + Len(e) <= Len(Source)
  BY DEF Stretch
<1>8. \A k \in 1 .. Len(s) : s[k] = Source[f + k]
  <2> SUFFICES ASSUME NEW k \in 1 .. Len(s) PROVE s[k] = Source[f + k]
    OBVIOUS
  <2>1. CASE k <= Len(d)
    <3>1. k \in 1 .. Len(d)
      BY <1>1, <1>5, <2>1
    <3> QED
      BY <1>5, <2>1, <3>1 DEF Stretch
  <2>2. CASE ~(k <= Len(d))
    <3>0. k \in Nat /\ k > Len(d) /\ k <= Len(d) + (Len(e) - n)
      BY <1>1, <1>2, <1>5, <2>2
    <3>1. k - Len(d) \in 1 .. Len(e) - n /\ n + (k - Len(d)) \in 1 .. Len(e)
          /\ g + (n + (k - Len(d))) = f + k
      <4> DEFINE ld == Len(d)
                 le == Len(e)
      <4>1. ld \in Nat /\ le \in Nat /\ n \in 0 .. le /\ n + g = f + ld
            /\ k > ld /\ k <= ld + (le - n) /\ k \in Nat /\ f \in Nat /\ g \in Nat
        BY <1>1, <1>4, <3>0
      <4> HIDE DEF ld, le
      <4>2. k - ld \in 1 .. le - n
        BY ONLY <4>1
      <4>3. n + (k - ld) \in 1 .. le
        BY ONLY <4>1
      <4>4. g + (n + (k - ld)) = f + k
        BY ONLY <4>1
      <4> QED
        BY <4>2, <4>3, <4>4 DEF ld, le
    <3>2. e[n + (k - Len(d))] = Source[g + (n + (k - Len(d)))]
      BY <3>1 DEF Stretch
    <3>3. s[k] = rest[k - Len(d)]
      BY <1>5, <2>2
    <3>4. rest[k - Len(d)] = e[n + (k - Len(d))]
      BY <1>2, <3>1
    <3> QED
      BY <3>1, <3>2, <3>3, <3>4
  <2> QED
    BY <2>1, <2>2
<1>9. Stretch(f, s, lo, hi)
  BY <1>1, <1>5, <1>6, <1>7, <1>8 DEF Stretch
<1> QED
  BY <1>6, <1>9 DEF s, rest

(* Removing an entry. *)
LEMMA WithoutIs ==
  \A pending, f : LET rest == Without(pending, f)
                  IN  DOMAIN rest = DOMAIN pending \ {f} /\ \A g \in DOMAIN rest : rest[g] = pending[g]
BY DEF Without

(* The map without one of its entries. *)
LEMMA Removed ==
  ASSUME NEW pending, NEW lo, NEW hi, Entries(pending, lo, hi), NEW f \in DOMAIN pending,
         NEW rest, rest = Without(pending, f)
  PROVE  /\ Entries(rest, lo, hi)
         /\ Cardinality(DOMAIN rest) = Cardinality(DOMAIN pending) - 1
         /\ \A i \in Nat : Waits(pending, i) <=> Waits(rest, i) \/ Spans(f, pending[f], i)
<1>1. DOMAIN rest = DOMAIN pending \ {f} /\ \A g \in DOMAIN rest : rest[g] = pending[g]
  BY WithoutIs
<1>2. IsFiniteSet(DOMAIN pending)
  BY DEF Entries
<1>3. IsFiniteSet(DOMAIN rest) /\ Cardinality(DOMAIN rest) = Cardinality(DOMAIN pending) - 1
  BY <1>1, <1>2, FS_RemoveElement
<1>4. Entries(rest, lo, hi)
  BY <1>1, <1>3 DEF Entries, Apart
<1>5. \A i \in Nat : Waits(pending, i) <=> Waits(rest, i) \/ Spans(f, pending[f], i)
  BY <1>1 DEF Waits
<1> QED
  BY <1>1, <1>3, <1>4, <1>5

(* The window of the reassembler, in numbers. *)
LEMMA OutputWindow ==
  ASSUME NEW out, GoodOutput(out, Source, Capacity)
  PROVE  /\ BytesPushed(out) = Len(out.pushed)
         /\ BytesPushed(out) + AvailableCapacity(out) = out.popped + Capacity
         /\ Len(out.pushed) \in Nat /\ out.popped + Capacity \in Nat
         /\ Len(out.pushed) <= out.popped + Capacity /\ Len(out.pushed) <= Len(Source)
<1>1. out.pushed \in Seq(Nat) /\ out.popped \in Nat /\ out.capacity = Capacity
  BY DEF GoodOutput, StreamOf
<1>2. Len(out.pushed) \in Nat
  BY <1>1
<1>3. Len(out.pushed) <= out.popped + Capacity /\ Len(out.pushed) <= Len(Source)
  BY DEF GoodOutput
<1> QED
  BY <1>1, <1>2, <1>3, StreamConstants DEF BytesPushed, AvailableCapacity

(* The end of a stretch. *)
LEMMA Shortened ==
  ASSUME NEW f, NEW d, NEW lo, NEW hi, Stretch(f, d, lo, hi), NEW n \in 0 .. Len(d),
         NEW low \in Nat, low <= f + n
  PROVE  /\ Stretch(f + n, Drop(d, n), low, hi)
         /\ f + n + Len(Drop(d, n)) = f + Len(d)
<1>1. d \in Seq(Nat) /\ Len(d) \in Nat /\ f \in Nat /\ n \in Nat
  BY DEF Stretch
<1> DEFINE rest == Drop(d, n)
<1>2. rest \in Seq(Nat) /\ Len(rest) = Len(d) - n /\ \A k \in 1 .. Len(d) - n : rest[k] = d[n + k]
  BY <1>1, DropIs
<1> HIDE DEF rest
<1>3. f + n \in Nat /\ Len(rest) \in Nat /\ f + n + Len(rest) = f + Len(d)
  BY <1>1, <1>2
<1>4. \A k \in 1 .. Len(rest) : rest[k] = Source[f + n + k]
  <2> SUFFICES ASSUME NEW k \in 1 .. Len(rest) PROVE rest[k] = Source[f + n + k]
    OBVIOUS
  <2>1. n + k \in 1 .. Len(d) /\ k \in 1 .. Len(d) - n /\ f + n + k = f + (n + k)
    BY <1>1, <1>2
  <2>2. d[n + k] = Source[f + (n + k)]
    BY <2>1 DEF Stretch
  <2> QED
    BY <1>2, <2>1, <2>2
<1>5. Stretch(f + n, rest, low, hi)
  BY <1>2, <1>3, <1>4 DEF Stretch
<1> QED
  BY <1>3, <1>5 DEF rest

(* Its beginning. *)
LEMMA CutOff ==
  ASSUME NEW f, NEW d, NEW lo, NEW hi, Stretch(f, d, lo, hi), NEW n \in 0 .. Len(d),
         NEW high \in Nat, f + n <= high
  PROVE  Stretch(f, SubSeq(d, 1, n), lo, high) /\ Len(SubSeq(d, 1, n)) = n
<1>1. d \in Seq(Nat) /\ Len(d) \in Nat /\ f \in Nat /\ n \in Nat
  BY DEF Stretch
<1> DEFINE s == SubSeq(d, 1, n)
<1>2. s \in Seq(Nat) /\ Len(s) = n /\ \A k \in 1 .. n : s[k] = d[k]
  BY <1>1
<1> HIDE DEF s
<1>3. \A k \in 1 .. n : k \in 1 .. Len(d)
  BY <1>1
<1>4. \A k \in 1 .. Len(s) : s[k] = Source[f + k]
  BY <1>2, <1>3 DEF Stretch
<1>5. f + n <= Len(Source)
  BY <1>1, StreamConstants DEF Stretch
<1>6. Stretch(f, s, lo, high)
  BY <1>1, <1>2, <1>4, <1>5 DEF Stretch
<1> QED
  BY <1>2, <1>6 DEF s

(* Step 1 of insert(). *)
Kept(c, lo, hi) ==
    /\ c = [first |-> c.first, data |-> c.data] /\ c.first \in Nat
    /\ c.data # <<>> => Stretch(c.first, c.data, lo, hi) /\ Len(c.data) > 0

(* Clipping leaves the bytes inside the window. *)
LEMMA ClipIs ==
  ASSUME NEW out, GoodOutput(out, Source, Capacity),
         NEW f, NEW d, Stretch(f, d, 0, Len(Source)),
         NEW lo, lo = Len(out.pushed), NEW hi, hi = out.popped + Capacity,
         NEW c, c = Clip(out, Substring(f, d))
  PROVE  /\ Kept(c, lo, hi)
         /\ \A i \in Nat : Spans(c.first, c.data, i) <=> Spans(f, d, i) /\ lo <= i /\ i < hi
<1>1. /\ BytesPushed(out) = lo
      /\ BytesPushed(out) + AvailableCapacity(out) = hi
      /\ lo \in Nat /\ hi \in Nat /\ lo <= hi
  BY OutputWindow
<1>2. d \in Seq(Nat) /\ Len(d) \in Nat /\ f \in Nat
  BY DEF Stretch
<1> DEFINE front == IF f < lo THEN [first |-> lo, data |-> Drop(d, lo - f)]
                    ELSE [first |-> f, data |-> d]
<1>3. c = IF f >= hi \/ f + Len(d) <= lo
          THEN [first |-> f, data |-> <<>>]
          ELSE IF front.first + Len(front.data) > hi
          THEN [first |-> front.first, data |-> SubSeq(front.data, 1, hi - front.first)]
          ELSE front
  BY <1>1 DEF Clip, Substring, End
<1>4. CASE f >= hi \/ f + Len(d) <= lo
  <2>0. c = [first |-> f, data |-> <<>>]
    BY <1>3, <1>4
  <2>1. c.data = <<>> /\ c.first = f /\ Len(c.data) = 0 /\ c = [first |-> c.first, data |-> c.data]
    BY <2>0
  <2>2. \A i \in Nat : ~Spans(c.first, c.data, i)
    BY <1>2, <2>1 DEF Spans
  <2>3. \A i \in Nat : ~(Spans(f, d, i) /\ lo <= i /\ i < hi)
    BY <1>1, <1>2, <1>4 DEF Spans
  <2> QED
    BY <1>2, <2>1, <2>2, <2>3 DEF Kept
<1>5. CASE ~(f >= hi \/ f + Len(d) <= lo)
  <2> DEFINE g == front.first
             e == front.data
             start == IF f < lo THEN lo ELSE f
  <2>1. Stretch(g, e, lo, Len(Source)) /\ g + Len(e) = f + Len(d) /\ g = start
    <3>1. CASE f < lo
      <4>1. lo - f \in 0 .. Len(d) /\ f + (lo - f) = lo
        BY <1>1, <1>2, <1>5, <3>1
      <4>2. Stretch(f + (lo - f), Drop(d, lo - f), lo, Len(Source))
            /\ f + (lo - f) + Len(Drop(d, lo - f)) = f + Len(d)
        BY <1>1, <4>1, Shortened
      <4> QED
        BY <3>1, <4>1, <4>2
    <3>2. CASE ~(f < lo)
      <4>1. g = f /\ e = d /\ lo <= f
        BY <1>1, <1>2, <3>2
      <4> QED
        BY <3>2, <4>1 DEF Stretch
    <3> QED
      BY <3>1, <3>2
  <2>2. front = [first |-> g, data |-> e] /\ front.first = g /\ front.data = e
    OBVIOUS
  <2> HIDE DEF front, g, e
  <2>3. g \in Nat /\ Len(e) \in Nat /\ e \in Seq(Nat) /\ g <= hi /\ lo <= g
    <3>1. g \in Nat /\ Len(e) \in Nat /\ e \in Seq(Nat)
      BY <2>1 DEF Stretch
    <3>2. lo <= g /\ g = start /\ g + Len(e) = f + Len(d)
      BY <2>1 DEF Stretch
    <3> QED
      BY ONLY <1>1, <1>2, <1>5, <3>1, <3>2
  <2>4. Stretch(c.first, c.data, lo, hi) /\ c.first = g
        /\ c.first + Len(c.data) = IF f + Len(d) > hi THEN hi ELSE f + Len(d)
    <3>1. CASE g + Len(e) > hi
      <4>1. c = [first |-> g, data |-> SubSeq(e, 1, hi - g)]
        BY <1>3, <1>5, <2>2, <3>1
      <4>2. hi - g \in 0 .. Len(e) /\ g + (hi - g) <= hi
        BY <1>1, <2>3, <3>1
      <4>3. Stretch(g, SubSeq(e, 1, hi - g), lo, hi) /\ Len(SubSeq(e, 1, hi - g)) = hi - g
        BY <1>1, <2>1, <4>2, CutOff
      <4>4. c.first = g /\ c.data = SubSeq(e, 1, hi - g)
        BY ONLY <4>1
      <4>5. f + Len(d) > hi /\ g + (hi - g) = hi
        BY <1>1, <2>1, <2>3, <3>1
      <4> HIDE DEF start
      <4> QED
        BY <4>2, <4>3, <4>4, <4>5
    <3>2. CASE ~(g + Len(e) > hi)
      <4>1. c = front
        BY <1>3, <1>5, <2>2, <3>2
      <4>2. c.first = g /\ c.data = e
        BY <2>2, <4>1
      <4>3. g + Len(e) <= hi
        BY <1>1, <2>3, <3>2
      <4>4. Stretch(g, e, lo, hi)
        BY <2>1, <4>3 DEF Stretch
      <4> QED
        BY <2>1, <2>3, <3>2, <4>2, <4>4
    <3> QED
      BY <3>1, <3>2
  <2>5. \A i \in Nat : Spans(c.first, c.data, i) <=> Spans(f, d, i) /\ lo <= i /\ i < hi
    <3>1. c.first = start /\ c.first + Len(c.data) = IF f + Len(d) > hi THEN hi ELSE f + Len(d)
      BY <2>1, <2>4
    <3> DEFINE n == Len(d)
               stop == c.first + Len(c.data)
    <3>2. n \in Nat /\ f \in Nat /\ stop = IF f + n > hi THEN hi ELSE f + n
      BY <1>2, <3>1
    <3>3. \A i \in Nat : (Spans(c.first, c.data, i) <=> start <= i /\ i < stop)
                          /\ (Spans(f, d, i) <=> f <= i /\ i < f + n)
      BY <3>1 DEF Spans
    <3> HIDE DEF n, stop
    <3>4. \A i \in Nat : start <= i /\ i < stop <=> f <= i /\ i < f + n /\ lo <= i /\ i < hi
      BY <1>1, <3>2
    <3> QED
      BY <3>3, <3>4
  <2>6. c.data # <<>> => Len(c.data) > 0
    BY <2>4 DEF Stretch
  <2>7. c = [first |-> c.first, data |-> c.data]
    <3>1. CASE g + Len(e) > hi
      BY <1>3, <1>5, <2>2, <3>1
    <3>2. CASE ~(g + Len(e) > hi)
      BY <1>3, <1>5, <2>2, <3>2
    <3> QED
      BY <3>1, <3>2
  <2> QED
    BY <2>3, <2>4, <2>5, <2>6, <2>7 DEF Kept
<1> QED
  BY <1>4, <1>5

-----------------------------------------------------------------------------
(* Steps 2 and 3 of insert(): the substring in hand, and the entries that  *)
(* are not yet merged with it.  No entry in front of it touches it.        *)
Work(w, lo, hi) ==
    /\ Entries(w.pending, lo, hi)
    /\ Stretch(w.piece.first, w.piece.data, lo, hi) /\ Len(w.piece.data) > 0
    /\ \A g \in DOMAIN w.pending :
           g <= w.piece.first => g + Len(w.pending[g]) < w.piece.first

WorkWaits(w, i) == Waits(w.pending, i) \/ Spans(w.piece.first, w.piece.data, i)

(* The entries that begin at f or in front of it. *)
Before(pending, f) == {i \in DOMAIN pending : i <= f}

Pred(pending, f) == Max(Before(pending, f))
PredEnd(pending, f) == End(Substring(Pred(pending, f), pending[Pred(pending, f)]))

(* What step 2 leaves to do: the substring itself, nothing, or the         *)
(* predecessor with the substring's tail.                                  *)
Alone(pending, p) == p.data = <<>> \/ Before(pending, p.first) = {} \/ PredEnd(pending, p.first) < p.first

(* The three cases of merging with the predecessor. *)
LEMMA MergeUnfolds ==
  ASSUME NEW pending, NEW p
  PROVE  /\ Alone(pending, p) => MergePredecessor(pending, p) = [pending |-> pending, piece |-> p]
         /\ ~Alone(pending, p) /\ PredEnd(pending, p.first) >= End(p)
                => MergePredecessor(pending, p) = [pending |-> pending, piece |-> Substring(p.first, <<>>)]
         /\ ~Alone(pending, p) /\ ~(PredEnd(pending, p.first) >= End(p))
                => MergePredecessor(pending, p) =
                     [pending |-> Without(pending, Pred(pending, p.first)),
                      piece |-> Substring(Pred(pending, p.first),
                                  pending[Pred(pending, p.first)]
                                    \o Drop(p.data, PredEnd(pending, p.first) - p.first))]
<1> DEFINE h == Pred(pending, p.first)
           prev == Substring(h, pending[h])
           s == prev.data \o Drop(p.data, End(prev) - p.first)
<1>1. MergePredecessor(pending, p) =
          IF Alone(pending, p)
          THEN [pending |-> pending, piece |-> p]
          ELSE IF End(prev) >= End(p)
          THEN [pending |-> pending, piece |-> Substring(p.first, <<>>)]
          ELSE [pending |-> Without(pending, prev.first), piece |-> Substring(prev.first, s)]
  BY Zenon DEF MergePredecessor, Before, Pred, PredEnd, Alone
<1>2. prev.first = h /\ prev.data = pending[h]
  BY DEF Substring
<1>3. End(prev) = PredEnd(pending, p.first)
  BY Zenon DEF PredEnd
<1>4. s = pending[h] \o Drop(p.data, PredEnd(pending, p.first) - p.first)
  <2> HIDE DEF prev, h
  <2> QED
    BY ONLY <1>2, <1>3
<1> HIDE DEF s, prev
<1> QED
  BY ONLY <1>1, <1>2, <1>3, <1>4

(* Merging with the predecessor keeps every byte; the result does not      *)
(* touch what is before it.                                                *)
LEMMA MergeIs ==
  ASSUME NEW lo \in Nat, NEW hi \in Nat, NEW pending, Entries(pending, lo, hi),
         NEW f, NEW d, Stretch(f, d, lo, hi), Len(d) > 0,
         NEW w, w = MergePredecessor(pending, [first |-> f, data |-> d])
  PROVE  \/ /\ w.pending = pending /\ w.piece.data = <<>>
            /\ \A i \in Nat : Spans(f, d, i) => Waits(pending, i)
         \/ /\ Work(w, lo, hi)
            /\ \A i \in Nat : WorkWaits(w, i) <=> Waits(pending, i) \/ Spans(f, d, i)
<1> DEFINE before == Before(pending, f)
           h == Pred(pending, f)
           e == pending[h]
           n == PredEnd(pending, f) - f
<1>1. f \in Nat /\ d \in Seq(Nat) /\ Len(d) \in Nat /\ d # <<>>
  BY DEF Stretch
<1>2. DOMAIN pending \subseteq Nat
  BY DEF Entries
<1>3. /\ (before = {} \/ h + Len(e) < f)
             => w.pending = pending /\ w.piece = [first |-> f, data |-> d]
      /\ ~(before = {} \/ h + Len(e) < f)
             => IF h + Len(e) >= f + Len(d)
                THEN w.pending = pending /\ w.piece.data = <<>>
                ELSE /\ w.pending = Without(pending, h)
                     /\ w.piece.first = h /\ w.piece.data = e \o Drop(d, n)
  <2> DEFINE p == [first |-> f, data |-> d]
  <2>1. p.first = f /\ p.data = d /\ End(p) = f + Len(d) /\ PredEnd(pending, f) = h + Len(e)
    BY DEF Substring, End, PredEnd
  <2>2. w = MergePredecessor(pending, p)
    OBVIOUS
  <2>3. Alone(pending, p) <=> before = {} \/ h + Len(e) < f
    BY <1>1, <2>1 DEF Alone
  <2>4. p = [first |-> f, data |-> d]
    OBVIOUS
  <2> HIDE DEF p, before, h, e
  <2>5. CASE Alone(pending, p)
    <3>1. w = [pending |-> pending, piece |-> p]
      BY ONLY <2>2, <2>5, MergeUnfolds
    <3> QED
      BY <2>3, <2>4, <2>5, <3>1
  <2>6. CASE ~Alone(pending, p) /\ PredEnd(pending, p.first) >= End(p)
    <3>1. w = [pending |-> pending, piece |-> Substring(p.first, <<>>)]
      BY ONLY <2>2, <2>6, MergeUnfolds
    <3> QED
      BY <2>1, <2>3, <2>6, <3>1 DEF Substring
  <2>7. CASE ~Alone(pending, p) /\ ~(PredEnd(pending, p.first) >= End(p))
    <3> DEFINE j == Pred(pending, p.first)
               s == pending[j] \o Drop(p.data, PredEnd(pending, p.first) - p.first)
    <3>1. w = [pending |-> Without(pending, j), piece |-> Substring(j, s)]
      BY ONLY <2>2, <2>7, MergeUnfolds
    <3>2. j = h /\ pending[j] = e
      BY <2>1 DEF h, e
    <3>3. s = e \o Drop(d, n)
      <4> HIDE DEF j
      <4> QED
        BY ONLY <2>1, <3>2
    <3> HIDE DEF s, j
    <3>4. w.pending = Without(pending, h) /\ w.piece.first = h /\ w.piece.data = s
      BY <3>1, <3>2 DEF Substring
    <3> HIDE DEF n
    <3> QED
      BY ONLY <2>1, <2>3, <2>7, <3>3, <3>4
  <2> QED
    BY <2>5, <2>6, <2>7
<1>4. before # {} => h \in before /\ \A i \in before : h >= i
  <2>1. before \subseteq 0 .. f
    BY <1>1, <1>2 DEF Before
  <2>2. h = Max(before)
    BY DEF Pred
  <2> HIDE DEF before, h
  <2> QED
    BY <1>1, <2>1, <2>2, MaxIs
<1>5. before # {} => /\ h \in DOMAIN pending /\ h \in Nat /\ h <= f
                     /\ Stretch(h, e, lo, hi) /\ Len(e) \in Nat /\ Len(e) > 0
                     /\ \A i \in DOMAIN pending : i < h => i + Len(pending[i]) < h
                     /\ \A i \in DOMAIN pending : i <= f => i <= h
  <2> SUFFICES ASSUME before # {}
               PROVE  /\ h \in DOMAIN pending /\ h \in Nat /\ h <= f
                      /\ Stretch(h, e, lo, hi) /\ Len(e) \in Nat /\ Len(e) > 0
                      /\ \A i \in DOMAIN pending : i < h => i + Len(pending[i]) < h
                      /\ \A i \in DOMAIN pending : i <= f => i <= h
    OBVIOUS
  <2>1. h \in DOMAIN pending /\ h \in Nat /\ h <= f
    BY <1>2, <1>4 DEF Before
  <2>2. \A i \in DOMAIN pending : i <= f => i <= h
    <3> SUFFICES ASSUME NEW i \in DOMAIN pending, i <= f PROVE i <= h
      OBVIOUS
    <3>1. i \in before
      BY DEF Before
    <3>2. h >= i /\ i \in Nat
      BY <1>2, <1>4, <3>1
    <3> HIDE DEF h
    <3> QED
      BY <2>1, <3>2
  <2> HIDE DEF h
  <2>3. Stretch(h, e, lo, hi) /\ Len(e) > 0
    BY <2>1 DEF Entries
  <2>4. Len(e) \in Nat
    BY <2>3 DEF Stretch
  <2>5. \A i \in DOMAIN pending : i < h => i + Len(pending[i]) < h
    BY <2>1 DEF Entries, Apart
  <2> QED
    BY <2>1, <2>2, <2>3, <2>4, <2>5
<1>6. CASE before = {}
  <2>1. w.pending = pending /\ w.piece = [first |-> f, data |-> d]
    BY <1>3, <1>6
  <2>2. \A g \in DOMAIN pending : ~(g <= f)
    BY <1>6 DEF Before
  <2>3. Work(w, lo, hi)
    BY <2>1, <2>2 DEF Work
  <2> QED
    BY <2>1, <2>3 DEF WorkWaits
<1> HIDE DEF h, before
<1>7. CASE before # {} /\ h + Len(e) < f
  <2>1. w.pending = pending /\ w.piece = [first |-> f, data |-> d]
    BY <1>3, <1>7
  <2>2. \A g \in DOMAIN pending : g <= f => g + Len(pending[g]) < f
    <3> SUFFICES ASSUME NEW g \in DOMAIN pending, g <= f PROVE g + Len(pending[g]) < f
      OBVIOUS
    <3>1. g <= h /\ g \in Nat /\ h \in Nat /\ h <= f
      BY <1>2, <1>5, <1>7
    <3>2. CASE g = h
      BY <1>7, <3>2
    <3>3. CASE g # h
      <4>1. g + Len(pending[g]) < h
        BY <1>5, <1>7, <3>1, <3>3
      <4>2. Len(pending[g]) \in Nat
        BY DEF Entries, Stretch
      <4> QED
        BY <1>1, <3>1, <4>1, <4>2
    <3> QED
      BY <3>2, <3>3
  <2>3. Work(w, lo, hi)
    BY <2>1, <2>2 DEF Work
  <2> QED
    BY <2>1, <2>3 DEF WorkWaits
<1>8. CASE before # {} /\ ~(h + Len(e) < f) /\ h + Len(e) >= f + Len(d)
  <2>1. w.pending = pending /\ w.piece.data = <<>>
    BY <1>1, <1>3, <1>8
  <2>2. \A i \in Nat : Spans(f, d, i) => Waits(pending, i)
    <3> SUFFICES ASSUME NEW i \in Nat, f <= i, i < f + Len(d) PROVE Waits(pending, i)
      BY DEF Spans
    <3>1. h \in DOMAIN pending /\ h <= i /\ i < h + Len(e)
      BY <1>1, <1>5, <1>8
    <3> QED
      BY <3>1 DEF Waits, Spans
  <2> QED
    BY <2>1, <2>2
<1>9. CASE before # {} /\ ~(h + Len(e) < f) /\ ~(h + Len(e) >= f + Len(d))
  <2> DEFINE rest == Without(pending, h)
             s == e \o Drop(d, n)
  <2>0. s = e \o Drop(d, n) /\ rest = Without(pending, h) /\ n = h + Len(e) - f
    <3>1. PredEnd(pending, f) = h + Len(e)
      BY DEF PredEnd, End, Substring, h
    <3>2. h \in Nat /\ Len(e) \in Nat /\ f \in Nat
      BY <1>1, <1>5, <1>9
    <3> HIDE DEF e
    <3>3. n = h + Len(e) - f
      BY <3>1, <3>2
    <3> HIDE DEF n
    <3> QED
      BY <3>3
  <2> HIDE DEF s, rest, e, n
  <2>1. w.pending = rest /\ w.piece.first = h /\ w.piece.data = s
    BY <1>1, <1>3, <1>9, <2>0
  <2>2. /\ h \in DOMAIN pending /\ h \in Nat /\ h <= f /\ Stretch(h, e, lo, hi) /\ Len(e) \in Nat /\ Len(e) > 0
        /\ f <= h + Len(e) /\ h + Len(e) <= f + Len(d)
        /\ \A i \in DOMAIN pending : i < h => i + Len(pending[i]) < h
    BY <1>1, <1>5, <1>9
  <2>3. Stretch(h, s, lo, hi) /\ h + Len(s) = f + Len(d)
    <3>1. Stretch(f, d, lo, hi)
      OBVIOUS
    <3>2. h \in Nat /\ f \in Nat /\ Stretch(h, e, lo, hi) /\ h <= f /\ f <= h + Len(e) /\ h + Len(e) <= f + Len(d)
      BY <1>1, <2>2
    <3>3. n \in Nat /\ n + f = h + Len(e)
      BY <1>1, <2>0, <2>2
    <3>4. /\ Stretch(h, e \o Drop(d, n), lo, hi)
          /\ h + Len(e \o Drop(d, n)) = f + Len(d)
      BY ONLY <3>1, <3>2, <3>3, Joined
    <3> QED
      BY ONLY <2>0, <3>4
  <2>4. /\ Entries(rest, lo, hi)
        /\ DOMAIN rest = DOMAIN pending \ {h} /\ \A g \in DOMAIN rest : rest[g] = pending[g]
        /\ \A i \in Nat : Waits(pending, i) <=> Waits(rest, i) \/ Spans(h, e, i)
    <3>1. e = pending[h]
      BY DEF e
    <3>2. Entries(pending, lo, hi)
      OBVIOUS
    <3>3. /\ Entries(rest, lo, hi)
          /\ DOMAIN rest = DOMAIN pending \ {h} /\ \A g \in DOMAIN rest : rest[g] = pending[g]
          /\ \A i \in Nat : Waits(pending, i) <=> Waits(rest, i) \/ Spans(h, pending[h], i)
      <4>1. h \in DOMAIN pending
        BY <2>2
      <4>2. rest = Without(pending, h)
        BY <2>0
      <4>3. DOMAIN rest = DOMAIN pending \ {h} /\ \A g \in DOMAIN rest : rest[g] = pending[g]
        BY ONLY <4>2, WithoutIs
      <4>4. Entries(rest, lo, hi)
            /\ \A i \in Nat : Waits(pending, i) <=> Waits(rest, i) \/ Spans(h, pending[h], i)
        BY ONLY <3>2, <4>1, <4>2, Removed
      <4> QED
        BY <4>3, <4>4
    <3> QED
      BY <3>1, <3>3
  <2>5. Len(s) \in Nat /\ Len(s) > 0
    <3>1. Len(s) \in Nat
      BY <2>3 DEF Stretch
    <3> QED
      BY <1>1, <2>2, <2>3, <3>1
  <2>6. \A g \in DOMAIN rest : g <= h => g + Len(rest[g]) < h
    <3> SUFFICES ASSUME NEW g \in DOMAIN rest, g <= h PROVE g + Len(rest[g]) < h
      OBVIOUS
    <3>1. g \in DOMAIN pending /\ g # h /\ rest[g] = pending[g] /\ g \in Nat
      BY <1>2, <2>4
    <3>2. g < h
      BY <2>2, <3>1
    <3> QED
      BY <2>2, <3>1, <3>2
  <2>7. Work(w, lo, hi)
    BY <2>1, <2>3, <2>4, <2>5, <2>6 DEF Work
  <2>8. \A i \in Nat : Spans(h, s, i) <=> Spans(h, e, i) \/ Spans(f, d, i)
    <3>1. \A i \in Nat : (h <= i /\ i < h + Len(s))
                          <=> (h <= i /\ i < h + Len(e)) \/ (f <= i /\ i < f + Len(d))
      BY <1>1, <2>2, <2>3, <2>5
    <3> QED
      BY <3>1 DEF Spans
  <2>9. \A i \in Nat : WorkWaits(w, i) <=> Waits(pending, i) \/ Spans(f, d, i)
    BY <2>1, <2>4, <2>8 DEF WorkWaits
  <2> QED
    BY <2>7, <2>9
<1> QED
  BY <1>6, <1>7, <1>8, <1>9

(* The entries that begin at f or behind it. *)
After(pending, f) == {i \in DOMAIN pending : i >= f}
Succ(pending, f) == Min(After(pending, f))
SuccEnd(pending, f) == End(Substring(Succ(pending, f), pending[Succ(pending, f)]))

(* No successor touches the substring in hand: the loop is at its end. *)
Absorbed(w) ==
    After(w.pending, w.piece.first) = {} \/ Succ(w.pending, w.piece.first) > End(w.piece)

(* The two cases of a turn that absorbs. *)
LEMMA AbsorbUnfolds ==
  ASSUME NEW w
  PROVE  /\ Absorbed(w) => AbsorbOne(w) = w
         /\ ~Absorbed(w) =>
                AbsorbOne(w) =
                  [pending |-> Without(w.pending, Succ(w.pending, w.piece.first)),
                   piece |-> IF SuccEnd(w.pending, w.piece.first) > End(w.piece)
                             THEN Substring(w.piece.first,
                                    w.piece.data \o Drop(w.pending[Succ(w.pending, w.piece.first)],
                                       End(w.piece) - Succ(w.pending, w.piece.first)))
                             ELSE w.piece]
<1> DEFINE p == w.piece
           h == Succ(w.pending, p.first)
           it == Substring(h, w.pending[h])
           s == p.data \o Drop(it.data, End(p) - it.first)
<1>1. AbsorbOne(w) =
          IF After(w.pending, p.first) = {} \/ it.first > End(p)
          THEN w
          ELSE [pending |-> Without(w.pending, it.first),
                piece |-> IF End(it) > End(p) THEN Substring(p.first, s) ELSE p]
  BY Zenon DEF AbsorbOne, After, Succ
<1>2. it.first = h /\ it.data = w.pending[h]
  BY DEF Substring
<1>3. End(it) = SuccEnd(w.pending, p.first)
  BY Zenon DEF SuccEnd
<1>4. s = p.data \o Drop(w.pending[h], End(p) - h)
  <2> HIDE DEF it, h
  <2> QED
    BY ONLY <1>2
<1>5. Absorbed(w) <=> After(w.pending, p.first) = {} \/ it.first > End(p)
  <2>1. Absorbed(w) <=> After(w.pending, p.first) = {} \/ h > End(p)
    BY Zenon DEF Absorbed
  <2> HIDE DEF it, h
  <2> QED
    BY ONLY <1>2, <2>1
<1> HIDE DEF s, it
<1> QED
  BY ONLY <1>1, <1>2, <1>3, <1>4, <1>5

(* A turn takes in the next successor and no byte is lost, or nothing is   *)
(* left to take in.                                                        *)
LEMMA AbsorbOneIs ==
  ASSUME NEW lo \in Nat, NEW hi \in Nat, NEW w, Work(w, lo, hi),
         NEW v, v = AbsorbOne(w)
  PROVE  \/ Absorbed(w) /\ v = w
         \/ /\ Work(v, lo, hi)
            /\ Cardinality(DOMAIN v.pending) = Cardinality(DOMAIN w.pending) - 1
            /\ \A i \in Nat : WorkWaits(v, i) <=> WorkWaits(w, i)
<1>1. CASE Absorbed(w)
  BY <1>1, AbsorbUnfolds
<1>2. CASE ~Absorbed(w)
  <2> DEFINE pending == w.pending
             f == w.piece.first
             d == w.piece.data
             after == After(pending, f)
             h == Succ(pending, f)
             e == pending[h]
             rest == Without(pending, h)
             n == End(w.piece) - h
             s == d \o Drop(e, n)
             grows == SuccEnd(pending, f) > End(w.piece)
  <2>1. v = [pending |-> rest, piece |-> IF grows THEN Substring(f, s) ELSE w.piece]
    BY <1>2, AbsorbUnfolds
  <2>2. /\ Entries(pending, lo, hi) /\ Stretch(f, d, lo, hi) /\ Len(d) > 0
        /\ \A g \in DOMAIN pending : g <= f => g + Len(pending[g]) < f
    BY DEF Work
  <2>3. f \in Nat /\ d \in Seq(Nat) /\ Len(d) \in Nat
    BY <2>2 DEF Stretch
  <2>4. End(w.piece) = f + Len(d) /\ SuccEnd(pending, f) = h + Len(e)
    BY DEF End, SuccEnd, Substring
  <2>5. after # {} /\ ~(h > End(w.piece))
    BY <1>2, Zenon DEF Absorbed
  <2>6. h \in after
    <3>1. after \subseteq Nat
      BY <2>2 DEF After, Entries
    <3>2. h = Min(after)
      BY Zenon DEF Succ
    <3> HIDE DEF after, h
    <3> QED
      BY <2>5, <3>1, <3>2, MinIs
  <2>7. h \in DOMAIN pending /\ h \in Nat /\ f <= h
    <3>1. h \in DOMAIN pending /\ h >= f
      BY <2>6 DEF After
    <3>2. h \in Nat
      BY <2>2, <3>1 DEF Entries
    <3> HIDE DEF h
    <3> QED
      BY <2>3, <3>1, <3>2
  <2>8. rest = Without(pending, h) /\ s = d \o Drop(e, n)
        /\ n = End(w.piece) - h /\ e = pending[h] /\ (grows <=> SuccEnd(pending, f) > End(w.piece))
    OBVIOUS
  <2>9. w.pending = pending /\ w.piece.first = f /\ w.piece.data = d
    OBVIOUS
  <2> HIDE DEF pending, f, d, after, h, e, rest, n, s, grows
  <2>10. Stretch(h, e, lo, hi) /\ Len(e) > 0 /\ Len(e) \in Nat
    <3>1. Stretch(h, pending[h], lo, hi) /\ Len(pending[h]) > 0
      BY <2>2, <2>7 DEF Entries
    <3> QED
      BY <2>8, <3>1 DEF Stretch
  <2>11. /\ Entries(rest, lo, hi)
         /\ DOMAIN rest = DOMAIN pending \ {h} /\ \A g \in DOMAIN rest : rest[g] = pending[g]
         /\ Cardinality(DOMAIN rest) = Cardinality(DOMAIN pending) - 1
         /\ \A i \in Nat : Waits(pending, i) <=> Waits(rest, i) \/ Spans(h, pending[h], i)
    <3>1. Entries(pending, lo, hi) /\ h \in DOMAIN pending
      BY <2>2, <2>7
    <3>2. rest = Without(pending, h)
      BY <2>8
    <3>3. DOMAIN rest = DOMAIN pending \ {h} /\ \A g \in DOMAIN rest : rest[g] = pending[g]
      BY ONLY <3>2, WithoutIs
    <3>4. Entries(rest, lo, hi)
      BY ONLY <3>1, <3>2, Removed
    <3>5. /\ Cardinality(DOMAIN rest) = Cardinality(DOMAIN pending) - 1
          /\ \A i \in Nat : Waits(pending, i) <=> Waits(rest, i) \/ Spans(h, pending[h], i)
      BY ONLY <3>1, <3>2, Removed
    <3> QED
      BY <3>3, <3>4, <3>5
  <2>12. h <= f + Len(d) /\ (grows <=> h + Len(e) > f + Len(d)) /\ n = f + Len(d) - h
    BY <2>3, <2>4, <2>5, <2>7, <2>8
  <2>13. \A g \in DOMAIN rest : g <= f => g + Len(rest[g]) < f
    BY <2>2, <2>11
  <2>14. CASE grows
    <3>1. v.pending = rest /\ v.piece.first = f /\ v.piece.data = s
      BY <2>1, <2>14 DEF Substring
    <3>2. Stretch(f, s, lo, hi) /\ f + Len(s) = h + Len(e)
      <4>1. n \in Nat /\ n + h = f + Len(d) /\ f + Len(d) <= h + Len(e)
        BY <2>3, <2>7, <2>10, <2>12, <2>14
      <4>2. /\ Stretch(f, d \o Drop(e, n), lo, hi)
            /\ f + Len(d \o Drop(e, n)) = h + Len(e)
        BY ONLY <2>2, <2>3, <2>7, <2>10, <2>12, <4>1, Joined
      <4> QED
        BY ONLY <2>8, <4>2
    <3>3. Len(s) \in Nat /\ Len(s) > 0
      <4>1. Len(s) \in Nat
        BY <3>2 DEF Stretch
      <4> QED
        BY <2>2, <2>3, <2>7, <2>10, <2>12, <2>14, <3>2, <4>1
    <3>4. Work(v, lo, hi)
      BY <2>11, <2>13, <3>1, <3>2, <3>3 DEF Work
    <3>5. \A i \in Nat : Spans(f, s, i) <=> Spans(f, d, i) \/ Spans(h, e, i)
      BY <2>3, <2>7, <2>10, <2>12, <2>14, <3>2, <3>3 DEF Spans
    <3>6. \A i \in Nat : WorkWaits(v, i) <=> WorkWaits(w, i)
      BY <2>8, <2>9, <2>11, <3>1, <3>5 DEF WorkWaits
    <3> QED
      BY <2>9, <2>11, <3>1, <3>4, <3>6
  <2>15. CASE ~grows
    <3>1. v.pending = rest /\ v.piece = w.piece
      BY <2>1, <2>15
    <3>2. Work(v, lo, hi)
      BY <2>2, <2>9, <2>11, <2>13, <3>1 DEF Work
    <3>3. \A i \in Nat : Spans(h, e, i) => Spans(f, d, i)
      BY <2>3, <2>7, <2>10, <2>12, <2>15 DEF Spans
    <3>4. \A i \in Nat : WorkWaits(v, i) <=> WorkWaits(w, i)
      BY <2>8, <2>9, <2>11, <3>1, <3>3 DEF WorkWaits
    <3> QED
      BY <2>9, <2>11, <3>1, <3>2, <3>4
  <2> QED
    BY <2>14, <2>15
<1> QED
  BY <1>1, <1>2

-----------------------------------------------------------------------------
(* The loops of insert(), turn by turn: loop or flushing. *)
Turn(loop, x) == IF loop = "absorb" THEN AbsorbOne(x) ELSE FlushOne(x)

TurnsBy(loop, t, x, m) ==
    t = [k \in 0 .. m |-> IF k = 0 THEN x ELSE Turn(loop, t[k - 1])]

(* The states after each turn of a loop are a function of the turn. *)
LEMMA TurnsExist ==
  ASSUME NEW loop, NEW x, NEW L \in Nat
  PROVE  \E t : TurnsBy(loop, t, x, L)
<1> DEFINE T == {m \in 0 .. L : ~\E t : TurnsBy(loop, t, x, m)}
<1>1. L \in 0 .. L
  OBVIOUS
<1> SUFFICES ASSUME T # {} PROVE FALSE
  BY <1>1, Zenon
<1>2. T \subseteq Nat
  OBVIOUS
<1>3. PICK y \in T : \A z \in T : y <= z
  <2> HIDE DEF T
  <2> QED
    BY <1>2, LeastElement
<1>4. y # 0
  <2> DEFINE g == [k \in 0 .. 0 |-> x]
  <2>1. TurnsBy(loop, g, x, 0)
    BY DEF TurnsBy
  <2>2. \E t : TurnsBy(loop, t, x, 0)
    BY <2>1
  <2> QED
    BY <1>3, <2>2
<1>5. y - 1 \in 0 .. L /\ y - 1 \notin T /\ y \in Nat /\ y - 1 \in Nat
  <2>1. y \in 0 .. L
    BY <1>3
  <2> HIDE DEF T
  <2>2. y - 1 \in 0 .. L /\ ~(y <= y - 1)
    BY <1>4, <2>1
  <2> QED
    BY <1>3, <2>1, <2>2
<1>6. PICK g : TurnsBy(loop, g, x, y - 1)
  BY <1>5
<1> HIDE DEF T
<1> DEFINE last == Turn(loop, g[y - 1])
           h == [k \in 0 .. y |-> IF k < y THEN g[k] ELSE last]
<1>7. /\ \A k \in 0 .. y - 1 : h[k] = g[k]
      /\ h[y] = last
  BY <1>5
<1>8. \A k \in 0 .. y - 1 : g[k] = IF k = 0 THEN x ELSE Turn(loop, g[k - 1])
  BY <1>6 DEF TurnsBy
<1>9. h = [k \in 0 .. y |-> h[k]]
  OBVIOUS
<1> HIDE DEF h
<1>10. \A k \in 0 .. y : h[k] = IF k = 0 THEN x ELSE Turn(loop, h[k - 1])
  <2> SUFFICES ASSUME NEW k \in 0 .. y
               PROVE  h[k] = IF k = 0 THEN x ELSE Turn(loop, h[k - 1])
    OBVIOUS
  <2>1. CASE k = y
    <3>1. y - 1 \in 0 .. y - 1
      BY <1>5
    <3>2. h[y - 1] = g[y - 1]
      BY <1>7, <3>1
    <3> QED
      BY <1>4, <1>7, <2>1, <3>2
  <2>2. CASE k # y /\ k = 0
    <3>1. k \in 0 .. y - 1
      BY <1>5, <2>2
    <3> QED
      BY <1>7, <1>8, <2>2, <3>1
  <2>3. CASE k # y /\ k # 0
    <3>1. k \in 0 .. y - 1 /\ k - 1 \in 0 .. y - 1
      BY <1>5, <2>3
    <3>2. h[k] = g[k] /\ h[k - 1] = g[k - 1]
      BY <1>7, <3>1
    <3>3. g[k] = Turn(loop, g[k - 1])
      BY <1>8, <2>3, <3>1
    <3> QED
      BY <2>3, <3>2, <3>3
  <2> QED
    BY <2>1, <2>2, <2>3
<1>11. TurnsBy(loop, h, x, y)
  BY <1>9, <1>10 DEF TurnsBy
<1> QED
  BY <1>3, <1>11 DEF T

(* Every turn of a loop, from the first state on. *)
LEMMA TurnsAre ==
  ASSUME NEW loop, NEW x, NEW L \in Nat, NEW t, TurnsBy(loop, t, x, L)
  PROVE  t[0] = x /\ \A k \in 0 .. L - 1 : t[k + 1] = Turn(loop, t[k])
<1>1. \A k \in 0 .. L : t[k] = IF k = 0 THEN x ELSE Turn(loop, t[k - 1])
  BY DEF TurnsBy
<1>2. 0 \in 0 .. L /\ \A k \in 0 .. L - 1 : k + 1 \in 0 .. L /\ k + 1 # 0 /\ (k + 1) - 1 = k
  OBVIOUS
<1> QED
  BY <1>1, <1>2

(* The loop that absorbs ends where its turns end. *)
LEMMA AbsorbTurns ==
  ASSUME NEW w, Cardinality(DOMAIN w.pending) \in Nat
  PROVE  \E t : /\ TurnsBy("absorb", t, w, Cardinality(DOMAIN w.pending))
                /\ AbsorbSuccessors(w) = t[Cardinality(DOMAIN w.pending)]
<1> DEFINE L == Cardinality(DOMAIN w.pending)
           turn == CHOOSE t : t = [k \in 0 .. L |-> IF k = 0 THEN w ELSE AbsorbOne(t[k - 1])]
<1>1. AbsorbSuccessors(w) = turn[L]
  BY Zenon DEF AbsorbSuccessors
<1>2. \A t : TurnsBy("absorb", t, w, L)
              <=> t = [k \in 0 .. L |-> IF k = 0 THEN w ELSE AbsorbOne(t[k - 1])]
  BY DEF TurnsBy, Turn
<1>3. PICK t : TurnsBy("absorb", t, w, L)
  BY TurnsExist
<1>4. t = [k \in 0 .. L |-> IF k = 0 THEN w ELSE AbsorbOne(t[k - 1])]
  BY <1>2, <1>3
<1>5. turn = [k \in 0 .. L |-> IF k = 0 THEN w ELSE AbsorbOne(turn[k - 1])]
  BY <1>4
<1>6. TurnsBy("absorb", turn, w, L)
  BY <1>2, <1>5
<1> HIDE DEF turn
<1> QED
  BY <1>1, <1>6

(* Step 3: the loop ends with no successor touching, and neither loses nor *)
(* invents a byte.                                                         *)
LEMMA AbsorbIs ==
  ASSUME NEW lo \in Nat, NEW hi \in Nat, NEW w, Work(w, lo, hi),
         NEW v, v = AbsorbSuccessors(w)
  PROVE  /\ Work(v, lo, hi) /\ Absorbed(v)
         /\ \A i \in Nat : WorkWaits(v, i) <=> WorkWaits(w, i)
<1> DEFINE L == Cardinality(DOMAIN w.pending)
<1>1. IsFiniteSet(DOMAIN w.pending)
  BY DEF Work, Entries
<1>2. L \in Nat
  BY <1>1, FS_CardinalityType
<1>3. PICK t : TurnsBy("absorb", t, w, L) /\ v = t[L]
  BY <1>2, AbsorbTurns
<1> HIDE DEF L
<1>4. t[0] = w /\ \A k \in 0 .. L - 1 : t[k + 1] = Turn("absorb", t[k])
  <2>1. TurnsBy("absorb", t, w, L)
    BY <1>3
  <2> QED
    BY ONLY <1>2, <2>1, TurnsAre
<1>5. \A k \in 0 .. L - 1 : t[k + 1] = AbsorbOne(t[k])
  BY <1>4 DEF Turn
<1> DEFINE P(k) == /\ Work(t[k], lo, hi)
                   /\ \A i \in Nat : WorkWaits(t[k], i) <=> WorkWaits(w, i)
                   /\ Absorbed(t[k]) \/ Cardinality(DOMAIN t[k].pending) + k = L
           T == {k \in 0 .. L : ~P(k)}
<1>6. P(0)
  <2>1. Cardinality(DOMAIN t[0].pending) + 0 = L
    BY <1>2, <1>4 DEF L
  <2> QED
    BY <1>4, <2>1
<1>7. ASSUME NEW k \in 0 .. L - 1, P(k) PROVE P(k + 1)
  <2>1. t[k + 1] = AbsorbOne(t[k]) /\ Work(t[k], lo, hi)
    BY <1>5, <1>7
  <2>2. \/ Absorbed(t[k]) /\ t[k + 1] = t[k]
        \/ /\ Work(t[k + 1], lo, hi)
           /\ Cardinality(DOMAIN t[k + 1].pending) = Cardinality(DOMAIN t[k].pending) - 1
           /\ \A i \in Nat : WorkWaits(t[k + 1], i) <=> WorkWaits(t[k], i)
    BY ONLY <2>1, AbsorbOneIs
  <2>3. CASE Absorbed(t[k]) /\ t[k + 1] = t[k]
    BY <1>7, <2>3
  <2>4. CASE ~Absorbed(t[k])
    <3>1. /\ Work(t[k + 1], lo, hi)
          /\ Cardinality(DOMAIN t[k + 1].pending) = Cardinality(DOMAIN t[k].pending) - 1
          /\ \A i \in Nat : WorkWaits(t[k + 1], i) <=> WorkWaits(t[k], i)
      BY <2>2, <2>4
    <3>2. Cardinality(DOMAIN t[k].pending) + k = L
      BY <1>7, <2>4
    <3>3. Cardinality(DOMAIN t[k].pending) \in Nat
      BY <2>1, FS_CardinalityType DEF Work, Entries
    <3>4. Cardinality(DOMAIN t[k + 1].pending) + (k + 1) = L
      BY <1>2, <3>1, <3>2, <3>3
    <3> QED
      BY <1>7, <3>1, <3>4
  <2>5. CASE Absorbed(t[k]) /\ t[k + 1] # t[k]
    BY <2>1, <2>5, AbsorbUnfolds
  <2> QED
    BY <2>3, <2>4, <2>5
<1> HIDE DEF P
<1>8. T = {}
  <2> SUFFICES ASSUME T # {} PROVE FALSE
    OBVIOUS
  <2>1. T \subseteq Nat
    BY <1>2
  <2>2. PICK y \in T : \A z \in T : y <= z
    <3> HIDE DEF T
    <3> QED
      BY <2>1, LeastElement
  <2>3. y \in 0 .. L /\ ~P(y) /\ y # 0
    BY <1>6, <2>2
  <2>4. y - 1 \in 0 .. L - 1 /\ y - 1 \in 0 .. L /\ ~(y <= y - 1) /\ (y - 1) + 1 = y
    BY <1>2, <2>3
  <2>5. P(y - 1)
    BY <2>2, <2>4
  <2> QED
    BY <1>7, <2>3, <2>4, <2>5
<1>9. P(L)
  BY <1>2, <1>8
<1>10. Work(v, lo, hi) /\ (\A i \in Nat : WorkWaits(v, i) <=> WorkWaits(w, i))
       /\ (Absorbed(v) \/ Cardinality(DOMAIN v.pending) + L = L)
  BY <1>3, <1>9 DEF P
<1>11. Absorbed(v)
  <2> SUFFICES ASSUME Cardinality(DOMAIN v.pending) + L = L PROVE Absorbed(v)
    BY <1>10
  <2>1. IsFiniteSet(DOMAIN v.pending)
    BY <1>10 DEF Work, Entries
  <2>2. Cardinality(DOMAIN v.pending) \in Nat
    BY <2>1, FS_CardinalityType
  <2>3. Cardinality(DOMAIN v.pending) = 0
    BY <1>2, <2>2
  <2>4. DOMAIN v.pending = {}
    BY <2>1, <2>3, FS_EmptySet
  <2> QED
    BY <2>4 DEF Absorbed, After
<1> QED
  BY <1>10, <1>11

(* A substring that touches no entry becomes one. *)
LEMMA Added ==
  ASSUME NEW lo \in Nat, NEW hi \in Nat, NEW w, Work(w, lo, hi), Absorbed(w),
         NEW m, m = With(w.pending, w.piece)
  PROVE  Entries(m, lo, hi) /\ \A i \in Nat : Waits(m, i) <=> WorkWaits(w, i)
<1> DEFINE pending == w.pending
           f == w.piece.first
           d == w.piece.data
<1>1. /\ Entries(pending, lo, hi) /\ Stretch(f, d, lo, hi) /\ Len(d) > 0
      /\ \A g \in DOMAIN pending : g <= f => g + Len(pending[g]) < f
  BY DEF Work
<1>2. f \in Nat /\ Len(d) \in Nat /\ DOMAIN pending \subseteq Nat
      /\ \A g \in DOMAIN pending : Len(pending[g]) \in Nat
  BY <1>1 DEF Stretch, Entries
<1>3. \A g \in DOMAIN pending : g >= f => f + Len(d) < g
  <2>1. End(w.piece) = f + Len(d)
    BY DEF End
  <2>2. CASE After(pending, f) = {}
    BY <2>2 DEF After
  <2>3. CASE After(pending, f) # {} /\ Succ(pending, f) > f + Len(d)
    <3> DEFINE after == After(pending, f)
               h == Succ(pending, f)
    <3>1. after \subseteq Nat
      BY <1>2 DEF After
    <3>2. h = Min(after)
      BY Zenon DEF Succ
    <3>3. h \in after /\ (\A g \in after : h <= g)
      <4> HIDE DEF after, h
      <4> QED
        BY <2>3, <3>1, <3>2, MinIs DEF after
    <3>4. \A g \in DOMAIN pending : g >= f => g \in after
      BY DEF After
    <3>5. h > f + Len(d) /\ h \in Nat
      BY <2>3, <3>1, <3>3
    <3> HIDE DEF after, h
    <3> SUFFICES ASSUME NEW g \in DOMAIN pending, g >= f PROVE f + Len(d) < g
      OBVIOUS
    <3>6. h <= g /\ g \in Nat
      BY <1>2, <3>3, <3>4
    <3> HIDE DEF f, d, pending
    <3> QED
      BY <1>2, <3>5, <3>6
  <2> QED
    BY <2>1, <2>2, <2>3 DEF Absorbed
<1>4. /\ DOMAIN m = DOMAIN pending \cup {f}
      /\ m[f] = d
      /\ \A g \in DOMAIN pending : g # f => m[g] = pending[g]
  BY DEF With
<1> HIDE DEF pending, f, d
<1>5. f \notin DOMAIN pending
  BY <1>1, <1>2
<1>6. IsFiniteSet(DOMAIN m)
  BY <1>1, <1>4, FS_AddElement DEF Entries
<1>7. \A g \in DOMAIN m : Stretch(g, m[g], lo, hi) /\ Len(m[g]) > 0
  BY <1>1, <1>4 DEF Entries
<1>8. Apart(m)
  <2> SUFFICES ASSUME NEW g \in DOMAIN m, NEW h \in DOMAIN m, g < h
               PROVE  g + Len(m[g]) < h
    BY DEF Apart
  <2>1. g \in Nat /\ h \in Nat
    BY <1>2, <1>4
  <2>2. CASE g = f
    <3>1. h \in DOMAIN pending /\ h >= f
      BY <1>2, <1>4, <2>1, <2>2
    <3> QED
      BY <1>3, <1>4, <2>2, <3>1
  <2>3. CASE h = f
    <3>1. g \in DOMAIN pending /\ g <= f /\ g # f
      BY <1>2, <1>4, <2>1, <2>3
    <3> QED
      BY <1>1, <1>4, <2>3, <3>1
  <2>4. CASE g # f /\ h # f
    <3>1. g \in DOMAIN pending /\ h \in DOMAIN pending /\ m[g] = pending[g]
      BY <1>4, <2>4
    <3> QED
      BY <1>1, <3>1 DEF Entries, Apart
  <2> QED
    BY <2>2, <2>3, <2>4
<1>9. Entries(m, lo, hi)
  BY <1>2, <1>4, <1>6, <1>7, <1>8 DEF Entries
<1>10. \A i \in Nat : Waits(m, i) <=> Waits(pending, i) \/ Spans(f, d, i)
  BY <1>4, <1>5 DEF Waits
<1>11. \A i \in Nat : WorkWaits(w, i) <=> Waits(pending, i) \/ Spans(f, d, i)
  BY DEF WorkWaits, pending, f, d
<1> QED
  BY <1>9, <1>10, <1>11

(* Steps 2 and 3. *)
LEMMA StoreIs ==
  ASSUME NEW lo \in Nat, NEW hi \in Nat, NEW pending, Entries(pending, lo, hi),
         NEW c, Kept(c, lo, hi),
         NEW m, m = Store(MergePredecessor(pending, c))
  PROVE  /\ Entries(m, lo, hi)
         /\ \A i \in Nat : Waits(m, i) <=> Waits(pending, i) \/ Spans(c.first, c.data, i)
<1> DEFINE w == MergePredecessor(pending, c)
           v == AbsorbSuccessors(w)
<1>0. c = [first |-> c.first, data |-> c.data] /\ c.first \in Nat
  BY DEF Kept
<1>1. m = IF w.piece.data = <<>> THEN w.pending ELSE With(v.pending, v.piece)
  BY DEF Store
<1>2. CASE c.data = <<>>
  <2>1. w = [pending |-> pending, piece |-> c]
    BY <1>2, MergeUnfolds DEF Alone
  <2> HIDE DEF w
  <2>2. m = pending
    BY <1>1, <1>2, <2>1
  <2>3. Len(c.data) = 0
    BY <1>2
  <2>4. \A i \in Nat : ~Spans(c.first, c.data, i)
    BY <1>0, <2>3 DEF Spans
  <2> QED
    BY <2>2, <2>4
<1>3. CASE c.data # <<>>
  <2> DEFINE f == c.first
             d == c.data
  <2>1. Stretch(f, d, lo, hi) /\ Len(d) > 0
    BY <1>3 DEF Kept
  <2>2. w = MergePredecessor(pending, [first |-> f, data |-> d])
    BY <1>0
  <2>3. Entries(pending, lo, hi) /\ lo \in Nat /\ hi \in Nat
    OBVIOUS
  <2> HIDE DEF w, f, d
  <2>4. \/ /\ w.pending = pending /\ w.piece.data = <<>>
           /\ \A i \in Nat : Spans(f, d, i) => Waits(pending, i)
        \/ /\ Work(w, lo, hi)
           /\ \A i \in Nat : WorkWaits(w, i) <=> Waits(pending, i) \/ Spans(f, d, i)
    BY ONLY <2>1, <2>2, <2>3, MergeIs
  <2>5. CASE /\ w.pending = pending /\ w.piece.data = <<>>
             /\ \A i \in Nat : Spans(f, d, i) => Waits(pending, i)
    <3>1. m = pending
      BY <1>1, <2>5
    <3> QED
      BY <2>5, <3>1 DEF f, d
  <2>6. CASE /\ Work(w, lo, hi)
             /\ \A i \in Nat : WorkWaits(w, i) <=> Waits(pending, i) \/ Spans(f, d, i)
    <3>1. w.piece.data # <<>>
      <4>1. Len(w.piece.data) > 0
        BY <2>6 DEF Work
      <4> QED
        BY <4>1
    <3>2. /\ Work(v, lo, hi) /\ Absorbed(v)
          /\ \A i \in Nat : WorkWaits(v, i) <=> WorkWaits(w, i)
      BY <2>3, <2>6, AbsorbIs
    <3> HIDE DEF v
    <3>3. m = With(v.pending, v.piece)
      BY <1>1, <3>1
    <3>4. Work(v, lo, hi) /\ Absorbed(v)
      BY <3>2
    <3>5. Entries(m, lo, hi) /\ \A i \in Nat : Waits(m, i) <=> WorkWaits(v, i)
      BY ONLY <2>3, <3>3, <3>4, Added
    <3> QED
      BY <2>6, <3>2, <3>5 DEF f, d
  <2> QED
    BY <2>4, <2>5, <2>6
<1> QED
  BY <1>2, <1>3

-----------------------------------------------------------------------------
(* Step 4 of insert(): the entries, and the output they go to. *)
Flow(x) ==
    /\ GoodOutput(x.output, Source, Capacity)
    /\ Entries(x.pending, Len(x.output.pushed), x.output.popped + Capacity)

(* The next byte expected does not wait. *)
Gap(x) ==
    /\ GoodOutput(x.output, Source, Capacity)
    /\ Entries(x.pending, Len(x.output.pushed) + 1, x.output.popped + Capacity)

(* The entry at the next byte expected, if there is one, is pushed. *)
Flushed(x, y) ==
    LET next == Len(x.output.pushed)
    IN  \/ next \notin DOMAIN x.pending /\ y = x
        \/ /\ next \in DOMAIN x.pending
           /\ y.pending = Without(x.pending, next)
           /\ y.output = WriterPush(x.output, x.pending[next])
           /\ y.output.popped = x.output.popped /\ y.output.closed = x.output.closed
           /\ y.output.error = x.output.error
           /\ Len(y.output.pushed) = next + Len(x.pending[next])

(* A turn that flushes. *)
LEMMA FlushUnfolds ==
  ASSUME NEW x, NEW next, next = Len(x.output.pushed)
  PROVE  FlushOne(x) =
             IF DOMAIN x.pending # {} /\ Min(DOMAIN x.pending) = next
             THEN [pending |-> Without(x.pending, next),
                   output |-> WriterPush(x.output, x.pending[next])]
             ELSE x
BY DEF FlushOne, BytesPushed

(* A turn pushes the entry that is next, if there is one. *)
LEMMA FlushOneIs ==
  ASSUME NEW x, Flow(x), NEW y, y = FlushOne(x)
  PROVE  Gap(y) /\ Flushed(x, y)
<1> DEFINE next == Len(x.output.pushed)
           hi == x.output.popped + Capacity
           D == DOMAIN x.pending
<1>1. /\ GoodOutput(x.output, Source, Capacity) /\ Entries(x.pending, next, hi)
      /\ next \in Nat /\ hi \in Nat
  BY OutputWindow DEF Flow
<1>2. D \subseteq Nat /\ \A f \in D : f >= next
  BY <1>1 DEF Entries, Stretch
<1>3. y = IF D # {} /\ Min(D) = next
          THEN [pending |-> Without(x.pending, next),
                output |-> WriterPush(x.output, x.pending[next])]
          ELSE x
  BY FlushUnfolds
<1>4. next \in D <=> D # {} /\ Min(D) = next
  <2>1. CASE D = {}
    BY <2>1
  <2>2. CASE D # {}
    <3>1. Min(D) \in D /\ \A f \in D : Min(D) <= f
      <4> HIDE DEF D
      <4> QED
        BY <1>2, <2>2, MinIs
    <3> DEFINE h == Min(D)
    <3>2. h \in Nat /\ h \in D /\ \A f \in D : h <= f
      BY <1>2, <3>1
    <3> HIDE DEF h
    <3>3. next \in D => h = next
      BY <1>1, <1>2, <3>2
    <3> QED
      BY <2>2, <3>2, <3>3 DEF h
  <2> QED
    BY <2>1, <2>2
<1>5. CASE next \notin D
  <2>1. y = x
    BY <1>3, <1>4, <1>5
  <2>2. \A f \in D : f >= next + 1
    BY <1>1, <1>2, <1>5
  <2>3. Entries(x.pending, next + 1, hi)
    <3>1. \A f \in D : f \in Nat /\ next + 1 <= f
      BY <1>1, <1>2, <2>2
    <3> QED
      BY <1>1, <3>1 DEF Entries, Stretch
  <2> QED
    BY <1>1, <1>5, <2>1, <2>3 DEF Gap, Flushed
<1>6. CASE next \in D
  <2> DEFINE d == x.pending[next]
             rest == Without(x.pending, next)
             s == x.output
             o == WriterPush(s, d)
  <2>1. y = [pending |-> rest, output |-> o]
    BY <1>3, <1>4, <1>6
  <2>2. Stretch(next, d, next, hi) /\ Len(d) > 0
    BY <1>1, <1>6 DEF Entries
  <2>3. d \in Seq(Nat) /\ Len(d) \in Nat
    BY <2>2 DEF Stretch
  <2>4. Continues(s, d, Source, Capacity)
    BY <2>2, <2>3 DEF Continues, Stretch
  <2>5. /\ GoodOutput(o, Source, Capacity)
        /\ Len(o.pushed) = Len(s.pushed) + Len(d)
        /\ o.popped = s.popped /\ o.closed = s.closed /\ o.error = s.error
    <3>1. Fits(Source, Capacity)
      BY ReceiverAssumption, StreamAssumption DEF Fits
    <3>2. GoodOutput(s, Source, Capacity)
      BY <1>1
    <3> HIDE DEF s, d
    <3> QED
      BY <2>4, <3>1, <3>2, PushGood
  <2>6. Entries(rest, next, hi) /\ DOMAIN rest = D \ {next} /\ \A g \in DOMAIN rest : rest[g] = x.pending[g]
    <3>1. rest = Without(x.pending, next) /\ D = DOMAIN x.pending
      OBVIOUS
    <3>2. Entries(x.pending, next, hi) /\ next \in DOMAIN x.pending
      BY <1>1, <1>6
    <3> HIDE DEF rest, next, hi, D
    <3>3. DOMAIN rest = DOMAIN x.pending \ {next} /\ \A g \in DOMAIN rest : rest[g] = x.pending[g]
      BY ONLY <3>1, WithoutIs
    <3>4. Entries(rest, next, hi)
      BY ONLY <3>1, <3>2, Removed
    <3> QED
      BY <3>1, <3>3, <3>4
  <2> HIDE DEF rest, o
  <2>7. y.pending = rest /\ y.output = o
    BY <2>1
  <2>8. \A g \in DOMAIN rest : g \in Nat /\ next + Len(d) + 1 <= g
    <3> SUFFICES ASSUME NEW g \in DOMAIN rest PROVE g \in Nat /\ next + Len(d) + 1 <= g
      OBVIOUS
    <3>1. g \in D /\ g # next /\ g \in Nat /\ next <= g
      BY <1>1, <1>2, <2>6
    <3>2. next < g
      BY <1>1, <3>1
    <3>3. next + Len(x.pending[next]) < g
      BY <1>1, <1>6, <3>1, <3>2 DEF Entries, Apart
    <3> HIDE DEF d
    <3>4. next + Len(d) < g
      BY <3>3 DEF d
    <3> QED
      BY <1>1, <2>3, <3>1, <3>4
  <2>9. Entries(rest, next + Len(d) + 1, hi)
    BY <2>6, <2>8 DEF Entries, Stretch
  <2>10. Gap(y)
    <3>1. Len(o.pushed) = next + Len(d) /\ o.popped + Capacity = hi
      BY <2>5
    <3> HIDE DEF next, hi, d
    <3> QED
      BY <2>5, <2>7, <2>9, <3>1 DEF Gap
  <2> QED
    BY <1>6, <2>5, <2>7, <2>10 DEF Flushed, rest, o
<1> QED
  BY <1>5, <1>6

(* Where there is a gap, the loop stops. *)
LEMMA GapStops ==
  ASSUME NEW x, Gap(x)
  PROVE  FlushOne(x) = x
<1> DEFINE next == Len(x.output.pushed)
           hi == x.output.popped + Capacity
<1>1. /\ GoodOutput(x.output, Source, Capacity) /\ Entries(x.pending, next + 1, hi) /\ next \in Nat
  BY OutputWindow DEF Gap
<1>2. DOMAIN x.pending \subseteq Nat /\ \A f \in DOMAIN x.pending : next + 1 <= f
  BY <1>1 DEF Entries, Stretch
<1>3. \A f \in DOMAIN x.pending : f \in Nat /\ next <= f
  BY <1>1, <1>2
<1>4. Flow(x)
  <2>1. Entries(x.pending, next, hi)
    BY <1>1, <1>3 DEF Entries, Stretch
  <2> QED
    BY <1>1, <2>1 DEF Flow
<1>5. Flushed(x, FlushOne(x))
  BY <1>4, FlushOneIs
<1>6. next \notin DOMAIN x.pending
  BY <1>1, <1>2
<1> QED
  BY <1>5, <1>6 DEF Flushed

(* The loop that flushes ends where its turns end. *)
LEMMA FlushTurns ==
  ASSUME NEW x, Cardinality(DOMAIN x.pending) \in Nat
  PROVE  \E t : /\ TurnsBy("flush", t, x, Cardinality(DOMAIN x.pending))
                /\ FlushPrefix(x) = t[Cardinality(DOMAIN x.pending)]
<1> DEFINE L == Cardinality(DOMAIN x.pending)
           turn == CHOOSE t : t = [k \in 0 .. L |-> IF k = 0 THEN x ELSE FlushOne(t[k - 1])]
<1>1. FlushPrefix(x) = turn[L]
  BY Zenon DEF FlushPrefix
<1>2. \A t : TurnsBy("flush", t, x, L)
              <=> t = [k \in 0 .. L |-> IF k = 0 THEN x ELSE FlushOne(t[k - 1])]
  BY DEF TurnsBy, Turn
<1>3. PICK t : TurnsBy("flush", t, x, L)
  BY TurnsExist
<1>4. t = [k \in 0 .. L |-> IF k = 0 THEN x ELSE FlushOne(t[k - 1])]
  BY <1>2, <1>3
<1>5. turn = [k \in 0 .. L |-> IF k = 0 THEN x ELSE FlushOne(turn[k - 1])]
  BY <1>4
<1>6. TurnsBy("flush", turn, x, L)
  BY <1>2, <1>5
<1> HIDE DEF turn
<1> QED
  BY <1>1, <1>6

(* After the loop there is a gap before every entry. *)
LEMMA FlushIs ==
  ASSUME NEW x, Flow(x), NEW y, y = FlushPrefix(x)
  PROVE  Gap(y) /\ Flushed(x, y)
<1> DEFINE L == Cardinality(DOMAIN x.pending)
<1>1. IsFiniteSet(DOMAIN x.pending)
  BY DEF Flow, Entries
<1>2. L \in Nat
  BY <1>1, FS_CardinalityType
<1>3. PICK t : TurnsBy("flush", t, x, L) /\ y = t[L]
  BY <1>2, FlushTurns
<1>4. L = 0 => DOMAIN x.pending = {}
  BY <1>1, FS_EmptySet
<1> HIDE DEF L
<1>5. t[0] = x /\ \A k \in 0 .. L - 1 : t[k + 1] = Turn("flush", t[k])
  <2>1. TurnsBy("flush", t, x, L)
    BY <1>3
  <2> QED
    BY ONLY <1>2, <2>1, TurnsAre
<1>6. \A k \in 0 .. L - 1 : t[k + 1] = FlushOne(t[k])
  BY <1>5 DEF Turn
<1>7. CASE L = 0
  <2>1. y = x /\ DOMAIN x.pending = {}
    BY <1>3, <1>4, <1>5, <1>7
  <2>2. Gap(x)
    BY <2>1 DEF Flow, Gap, Entries, Apart
  <2> QED
    BY <2>1, <2>2 DEF Flushed
<1>8. CASE L # 0
  <2>1. t[1] = FlushOne(x)
    <3>1. 0 \in 0 .. L - 1
      BY <1>2, <1>8
    <3>2. t[0 + 1] = FlushOne(t[0])
      BY <1>6, <3>1
    <3> QED
      BY <1>5, <3>2
  <2>2. Gap(t[1]) /\ Flushed(x, t[1])
    BY <2>1, FlushOneIs
  <2> DEFINE T == {k \in 1 .. L : t[k] # t[1]}
  <2>3. T = {}
    <3> SUFFICES ASSUME T # {} PROVE FALSE
      OBVIOUS
    <3>1. T \subseteq Nat
      BY <1>2
    <3>2. PICK k \in T : \A j \in T : k <= j
      <4> HIDE DEF T
      <4> QED
        BY <3>1, LeastElement
    <3>3. k \in 1 .. L /\ k # 1 /\ t[k] # t[1]
      BY <3>2
    <3>4. k - 1 \in 0 .. L - 1 /\ k - 1 \in 1 .. L /\ ~(k <= k - 1) /\ (k - 1) + 1 = k
      BY <1>2, <3>3
    <3>5. t[k - 1] = t[1]
      BY <3>2, <3>4
    <3>6. t[k] = FlushOne(t[k - 1])
      BY <1>6, <3>4
    <3>7. FlushOne(t[1]) = t[1]
      BY <2>2, GapStops
    <3> QED
      BY <3>3, <3>5, <3>6, <3>7
  <2>4. t[L] = t[1]
    BY <1>2, <1>8, <2>3
  <2> QED
    BY <1>3, <2>2, <2>4
<1> QED
  BY <1>7, <1>8

-----------------------------------------------------------------------------
(* The reassembler with its map *)

PendingInv ==
    /\ GoodOutput(output_, Source, Capacity)
    /\ Entries(pending_, Len(output_.pushed) + 1, output_.popped + Capacity)
    /\ eof_seen_ \in BOOLEAN /\ (eof_seen_ => end_index_ = Len(Source))
    /\ ~output_.error => (output_.closed <=> eof_seen_ /\ Len(output_.pushed) = Len(Source))

LEMMA PendingStarts == MapInit => PendingInv
<1> SUFFICES ASSUME MapInit PROVE PendingInv
  OBVIOUS
<1>1. pending_ = [i \in {} |-> <<>>] /\ eof_seen_ = FALSE
  BY DEF MapInit
<1>2. output_ = [capacity |-> Capacity, pushed |-> <<>>, popped |-> 0, closed |-> FALSE, error |-> FALSE]
  BY DEF MapInit, NewStream
<1>3. GoodOutput(output_, Source, Capacity)
  BY <1>2, StreamConstants, EmptySeq DEF GoodOutput, StreamOf
<1>4. DOMAIN pending_ = {}
  BY <1>1
<1>5. Entries(pending_, Len(output_.pushed) + 1, output_.popped + Capacity)
  BY <1>4, FS_EmptySet DEF Entries, Apart
<1> QED
  BY <1>1, <1>2, <1>3, <1>5 DEF PendingInv

(* What the caller inserts is a stretch of the stream. *)
LEMMA SubstringIs ==
  ASSUME NEW first \in Nat, NEW len \in Nat, first + len <= Len(Source),
         NEW d, d = SubSeq(Source, first + 1, first + len)
  PROVE  Stretch(first, d, 0, Len(Source)) /\ Len(d) = len
<1>1. Source \in Seq(Nat) /\ Len(Source) \in Nat
  BY StreamConstants
<1>3. d \in Seq(Nat)
  BY <1>1
<1>4. Len(d) = len
  <2>1. first + 1 \in Nat /\ first + len \in Nat /\ first + 1 <= first + len + 1
    OBVIOUS
  <2>2. Len(d) = IF first + 1 <= first + len THEN (first + len) - (first + 1) + 1 ELSE 0
    BY ONLY <1>1, <2>1, d = SubSeq(Source, first + 1, first + len)
  <2> QED
    BY <2>2
<1>2. \A k \in 1 .. len : d[k] = Source[first + k]
  <2> SUFFICES ASSUME NEW k \in 1 .. len PROVE d[k] = Source[first + k]
    OBVIOUS
  <2>1. first + 1 \in 1 .. Len(Source) /\ first + len \in 1 .. Len(Source) /\ k \in 1 .. Len(d)
    BY <1>1, <1>4
  <2>2. d[k] = Source[(first + 1) + k - 1]
    BY <1>1, <2>1
  <2> QED
    BY <2>2
<1> QED
  BY <1>1, <1>2, <1>3, <1>4 DEF Stretch

(* What insert() does, with m the map before it is flushed. *)
Inserts(first, d, is_last, m, done) ==
    /\ Entries(m, Len(output_.pushed), output_.popped + Capacity)
    /\ \A i \in Nat : Waits(m, i) <=> \/ Waits(pending_, i)
                                      \/ /\ Spans(first, d, i)
                                         /\ Len(output_.pushed) <= i /\ i < output_.popped + Capacity
    /\ Gap(done) /\ Flushed([pending |-> m, output |-> output_], done)
    /\ eof_seen_' = (eof_seen_ \/ is_last)
    /\ end_index_' = IF is_last THEN (first + Len(d)) % AbsMod ELSE end_index_
    /\ pending_' = done.pending
    /\ output_' = IF eof_seen_' /\ Len(done.output.pushed) = end_index_'
                  THEN WriterClose(done.output) ELSE done.output

(* What insert() leaves in the map and pushes. *)
LEMMA InsertIs ==
  ASSUME PendingInv, NEW first \in Nat, NEW d, Stretch(first, d, 0, Len(Source)), NEW is_last \in BOOLEAN,
         InsertSubstring(first, d, is_last)
  PROVE  \E m, done : Inserts(first, d, is_last, m, done)
<1> DEFINE lo == Len(output_.pushed)
           hi == output_.popped + Capacity
           c == Clip(output_, Substring(first, d))
           m == Store(MergePredecessor(pending_, c))
           x == [pending |-> m, output |-> output_]
           done == FlushPrefix(x)
<1>1. GoodOutput(output_, Source, Capacity) /\ Entries(pending_, lo + 1, hi)
  BY DEF PendingInv
<1>2. lo \in Nat /\ hi \in Nat
  BY <1>1, OutputWindow
<1>3. Kept(c, lo, hi) /\ \A i \in Nat : Spans(c.first, c.data, i) <=> Spans(first, d, i) /\ lo <= i /\ i < hi
  BY <1>1, ClipIs
<1>4. Entries(pending_, lo, hi)
  <2>1. \A f \in DOMAIN pending_ : f \in Nat /\ lo <= f
    BY <1>1, <1>2 DEF Entries, Stretch
  <2> QED
    BY <1>1, <2>1 DEF Entries, Stretch
<1>5. /\ Entries(m, lo, hi)
      /\ \A i \in Nat : Waits(m, i) <=> Waits(pending_, i) \/ Spans(c.first, c.data, i)
  <2> HIDE DEF lo, hi, c
  <2> QED
    BY <1>2, <1>3, <1>4, StoreIs
<1> HIDE DEF c, m
<1>6. Flow(x)
  <2>1. x.pending = m /\ x.output = output_
    OBVIOUS
  <2> HIDE DEF x
  <2> QED
    BY <1>1, <1>5, <2>1 DEF Flow
<1>7. Gap(done) /\ Flushed(x, done)
  <2> HIDE DEF x
  <2> QED
    BY <1>6, FlushIs
<1>8. /\ eof_seen_' = (eof_seen_ \/ is_last)
      /\ end_index_' = IF is_last THEN (first + Len(d)) % AbsMod ELSE end_index_
      /\ pending_' = done.pending
      /\ output_' = IF Complete(eof_seen_', end_index_', done)
                    THEN WriterClose(done.output) ELSE done.output
  BY Zenon DEF InsertSubstring, m, c
<1> HIDE DEF done
<1>9. output_' = IF eof_seen_' /\ Len(done.output.pushed) = end_index_'
                 THEN WriterClose(done.output) ELSE done.output
  <2>1. Complete(eof_seen_', end_index_', done)
          <=> eof_seen_' /\ Len(done.output.pushed) = end_index_'
    BY DEF Complete, BytesPushed
  <2> QED
    BY <1>8, <2>1
<1>10. \A i \in Nat : Waits(m, i) <=> Waits(pending_, i) \/ (Spans(first, d, i) /\ lo <= i /\ i < hi)
  BY <1>3, <1>5
<1>11. Inserts(first, d, is_last, m, done)
  BY <1>5, <1>7, <1>8, <1>9, <1>10 DEF Inserts
<1> QED
  BY <1>11

(* The invariant after an insertion. *)
LEMMA InsertKeeps ==
  ASSUME PendingInv, NEW first \in Nat, NEW d, Stretch(first, d, 0, Len(Source)), NEW is_last \in BOOLEAN,
         is_last => first + Len(d) = Len(Source),
         NEW m, NEW done, Inserts(first, d, is_last, m, done)
  PROVE  PendingInv'
<1> DEFINE x == [pending |-> m, output |-> output_]
           o == done.output
<1>1. /\ Gap(done) /\ Flushed(x, done) /\ pending_' = done.pending
      /\ eof_seen_' = (eof_seen_ \/ is_last)
      /\ end_index_' = IF is_last THEN (first + Len(d)) % AbsMod ELSE end_index_
      /\ output_' = IF eof_seen_' /\ Len(o.pushed) = end_index_' THEN WriterClose(o) ELSE o
  BY DEF Inserts
<1>2. eof_seen_' \in BOOLEAN /\ (eof_seen_' => end_index_' = Len(Source))
  <2>1. Len(Source) % AbsMod = Len(Source)
    BY StreamConstants, SmallMod
  <2> QED
    BY <1>1, <2>1 DEF PendingInv
<1>3. GoodOutput(o, Source, Capacity) /\ Entries(done.pending, Len(o.pushed) + 1, o.popped + Capacity)
  BY <1>1 DEF Gap
<1>4. o.popped = output_.popped /\ o.closed = output_.closed /\ o.error = output_.error
      /\ Len(o.pushed) >= Len(output_.pushed) /\ Len(o.pushed) \in Nat /\ Len(output_.pushed) \in Nat
  <2>1. x.pending = m /\ x.output = output_
    OBVIOUS
  <2>2. Len(o.pushed) \in Nat /\ Len(output_.pushed) \in Nat
    BY <1>3, OutputWindow DEF PendingInv
  <2> HIDE DEF x
  <2>3. CASE done = x
    BY <2>1, <2>2, <2>3
  <2>4. CASE done # x
    <3> DEFINE next == Len(output_.pushed)
    <3>1. next \in DOMAIN m /\ o.popped = output_.popped /\ o.closed = output_.closed /\ o.error = output_.error
          /\ Len(o.pushed) = next + Len(m[next])
      BY <1>1, <2>1, <2>4 DEF Flushed
    <3>2. Len(m[next]) \in Nat
      BY <3>1 DEF Inserts, Entries, Stretch
    <3> QED
      BY <2>2, <3>1, <3>2
  <2> QED
    BY <2>3, <2>4
<1>5. Len(o.pushed) <= Len(Source)
  BY <1>3 DEF GoodOutput
<1> HIDE DEF o
<1>6. ~o.error => (o.closed => eof_seen_ /\ Len(o.pushed) = Len(Source))
  BY <1>4, <1>5, StreamConstants DEF PendingInv
<1>7. CASE eof_seen_' /\ Len(o.pushed) = end_index_'
  <2>1. output_' = [o EXCEPT !.closed = TRUE]
    BY <1>1, <1>7 DEF WriterClose
  <2>2. o \in StreamOf(Capacity, Nat)
    BY <1>3 DEF GoodOutput
  <2>3. output_' \in StreamOf(Capacity, Nat) /\ output_'.pushed = o.pushed /\ output_'.popped = o.popped
        /\ output_'.error = o.error /\ output_'.closed = TRUE
    BY <2>1, <2>2 DEF StreamOf
  <2>4. Len(o.pushed) = Len(Source)
    BY <1>2, <1>7
  <2>5. GoodOutput(output_', Source, Capacity)
    BY <1>3, <2>3, <2>4 DEF GoodOutput
  <2> QED
    BY <1>1, <1>2, <1>3, <1>7, <2>3, <2>4, <2>5 DEF PendingInv
<1>8. CASE ~(eof_seen_' /\ Len(o.pushed) = end_index_')
  <2>1. output_' = o
    BY <1>1, <1>8
  <2>2. ~(eof_seen_' /\ Len(o.pushed) = Len(Source))
    BY <1>2, <1>8
  <2>3. ~o.error => ~o.closed
    BY <1>1, <1>6, <2>2
  <2> QED
    BY <1>1, <1>2, <1>3, <2>1, <2>2, <2>3 DEF PendingInv
<1> QED
  BY <1>7, <1>8

(* The reader's pops move the window on; nothing else changes. *)
LEMMA ReadKeeps ==
  ASSUME PendingInv, NEW len \in 1 .. Capacity, Drain(len)
  PROVE  PendingInv'
<1> DEFINE buffered == Len(output_.pushed) - output_.popped
           n == IF len < buffered THEN len ELSE buffered
<1>1. /\ output_ \in StreamOf(Capacity, Nat) /\ output_.pushed \in Seq(Nat) /\ output_.popped \in Nat
      /\ output_.popped <= Len(output_.pushed) /\ Len(output_.pushed) <= output_.popped + Capacity
  BY DEF PendingInv, GoodOutput, StreamOf
<1>2. Len(output_.pushed) \in Nat /\ Capacity \in Nat
  BY <1>1, StreamConstants
<1>3. output_' = [output_ EXCEPT !.popped = @ + n]
  BY DEF Drain, ReaderPop, BytesBuffered
<1>4. pending_' = pending_ /\ end_index_' = end_index_ /\ eof_seen_' = eof_seen_
  BY DEF Drain
<1>5. n \in Nat /\ n <= buffered
  BY <1>1, <1>2
<1>6. output_.popped + n \in Nat /\ output_.popped + n <= Len(output_.pushed)
      /\ output_.popped <= output_.popped + n
  BY <1>1, <1>2, <1>5
<1> HIDE DEF n
<1>7. /\ output_' \in StreamOf(Capacity, Nat) /\ output_'.popped = output_.popped + n
      /\ output_'.pushed = output_.pushed /\ output_'.closed = output_.closed /\ output_'.error = output_.error
  BY <1>1, <1>3, <1>6 DEF StreamOf
<1>8. Len(output_.pushed) <= (output_.popped + n) + Capacity
  BY <1>1, <1>2, <1>6
<1>9. GoodOutput(output_', Source, Capacity)
  BY <1>6, <1>7, <1>8 DEF PendingInv, GoodOutput
<1>10. Entries(pending_, Len(output_.pushed) + 1, (output_.popped + n) + Capacity)
  <2>1. Entries(pending_, Len(output_.pushed) + 1, output_.popped + Capacity)
    BY DEF PendingInv
  <2>2. ASSUME NEW f \in DOMAIN pending_
        PROVE  Stretch(f, pending_[f], Len(output_.pushed) + 1, (output_.popped + n) + Capacity)
    <3>1. Stretch(f, pending_[f], Len(output_.pushed) + 1, output_.popped + Capacity)
      BY <2>1 DEF Entries
    <3>2. f + Len(pending_[f]) \in Nat /\ f + Len(pending_[f]) <= output_.popped + Capacity
      BY <3>1 DEF Stretch
    <3>3. f + Len(pending_[f]) <= (output_.popped + n) + Capacity
      BY <1>1, <1>2, <1>6, <3>2
    <3> QED
      BY <3>1, <3>3 DEF Stretch
  <2> QED
    BY <2>1, <2>2 DEF Entries
<1> QED
  BY <1>4, <1>7, <1>9, <1>10 DEF PendingInv

(* A reset marks the output and closes it. *)
LEMMA ResetKeeps ==
  ASSUME PendingInv, Reset
  PROVE  PendingInv'
<1>1. output_ \in StreamOf(Capacity, Nat)
  BY DEF PendingInv, GoodOutput
<1>2. output_' = [[output_ EXCEPT !.error = TRUE] EXCEPT !.closed = TRUE]
  BY DEF Reset, WriterClose, SetError
<1>3. pending_' = pending_ /\ end_index_' = end_index_ /\ eof_seen_' = eof_seen_
  BY DEF Reset
<1>4. /\ output_' \in StreamOf(Capacity, Nat) /\ output_'.popped = output_.popped
      /\ output_'.pushed = output_.pushed /\ output_'.error = TRUE
  BY <1>1, <1>2 DEF StreamOf
<1>5. GoodOutput(output_', Source, Capacity)
  BY <1>4 DEF PendingInv, GoodOutput
<1> QED
  BY <1>3, <1>4, <1>5 DEF PendingInv

LEMMA PendingStep == PendingInv /\ [MapNext]_vars => PendingInv'
<1> SUFFICES ASSUME PendingInv, [MapNext]_vars PROVE PendingInv'
  OBVIOUS
<1>1. ASSUME NEW first \in 0 .. Len(Source), NEW len \in 0 .. MaxSeg, NEW is_last \in BOOLEAN,
             Deliver(first, len, is_last)
      PROVE  PendingInv'
  <2> DEFINE d == SubSeq(Source, first + 1, first + len)
  <2>1. /\ first + len <= Len(Source) /\ (is_last => first + len = Len(Source))
        /\ InsertSubstring(first, d, is_last)
    BY <1>1 DEF Deliver
  <2>2. first \in Nat /\ len \in Nat
    BY StreamConstants
  <2>3. Stretch(first, d, 0, Len(Source)) /\ Len(d) = len
    BY <2>1, <2>2, SubstringIs
  <2> HIDE DEF d
  <2>4. PICK m, done : Inserts(first, d, is_last, m, done)
    BY <2>1, <2>2, <2>3, InsertIs
  <2>5. is_last => first + Len(d) = Len(Source)
    BY <2>1, <2>3
  <2> QED
    BY <2>2, <2>3, <2>4, <2>5, InsertKeeps
<1>2. ASSUME NEW len \in 1 .. Capacity, Drain(len)
      PROVE  PendingInv'
  BY <1>2, ReadKeeps
<1>3. CASE Reset
  BY <1>3, ResetKeeps
<1>4. CASE UNCHANGED vars
  BY <1>4 DEF PendingInv, vars
<1> QED
  BY <1>1, <1>2, <1>3, <1>4 DEF MapNext

LEMMA PendingIsKept == MapSpec => []PendingInv
<1> QED
  BY PendingStarts, PendingStep, PTL DEF MapSpec

(* "No two entries overlap or are adjacent" (reassembler.hh:40-41), none   *)
(* is empty, and all lie beyond what was pushed and within the window      *)
(* (reassembler.cc:18-31): after every insert(), read and reset.           *)
THEOREM MapIsSeparated == MapSpec => []EntriesAreSeparated
<1>1. PendingInv => EntriesAreSeparated
  <2> SUFFICES ASSUME PendingInv PROVE EntriesAreSeparated
    OBVIOUS
  <2>1. GoodOutput(output_, Source, Capacity)
        /\ Entries(pending_, Len(output_.pushed) + 1, output_.popped + Capacity)
    BY DEF PendingInv
  <2>2. /\ BytesPushed(output_) = Len(output_.pushed) /\ Len(output_.pushed) \in Nat
        /\ BytesPushed(output_) + AvailableCapacity(output_) = output_.popped + Capacity
    BY <2>1, OutputWindow
  <2>3. ASSUME NEW f \in DOMAIN pending_
        PROVE  /\ pending_[f] # <<>> /\ f > Len(output_.pushed)
               /\ f + Len(pending_[f]) <= output_.popped + Capacity
    BY <2>1, <2>2 DEF Entries, Stretch
  <2>4. \A f, g \in DOMAIN pending_ : f < g => f + Len(pending_[f]) < g
    BY <2>1 DEF Entries, Apart
  <2> QED
    BY <2>2, <2>3, <2>4 DEF EntriesAreSeparated
<1> QED
  BY <1>1, PendingIsKept, PTL

(* What was pushed is a prefix of the stream, and the output is closed     *)
(* just when the end was seen and nothing is missing                       *)
(* (reassembler.cc:69-77).                                                 *)
THEOREM MapIsFaithful == MapSpec => []OutputIsFaithful
<1>1. PendingInv => OutputIsFaithful
  <2> SUFFICES ASSUME PendingInv PROVE OutputIsFaithful
    OBVIOUS
  <2> DEFINE got == output_.pushed
             n == Len(got)
             pre == SubSeq(Source, 1, n)
  <2>1. got \in Seq(Nat) /\ n \in Nat /\ n <= Len(Source) /\ \A i \in 1 .. n : got[i] = Source[i]
    BY DEF PendingInv, GoodOutput, StreamOf
  <2>2. pre = SubSeq(Source, 0 + 1, 0 + n) /\ 0 + n <= Len(Source)
    BY <2>1
  <2>3. Stretch(0, pre, 0, Len(Source)) /\ Len(pre) = n
    <3> HIDE DEF pre, n
    <3> QED
      BY <2>1, <2>2, SubstringIs
  <2>4. pre \in Seq(Nat) /\ \A i \in 1 .. n : pre[i] = Source[i]
    <3> HIDE DEF pre, n
    <3> QED
      BY <2>1, <2>3 DEF Stretch
  <2>5. got = pre
    <3> HIDE DEF pre, got
    <3> QED
      BY <2>1, <2>3, <2>4, SeqEqual
  <2> QED
    BY <2>5 DEF OutputIsFaithful, PendingInv
<1> QED
  BY <1>1, PendingIsKept, PTL

-----------------------------------------------------------------------------
(* The map as ReassemblerSpec has it: by index.  Entries hold the stream's *)
(* own bytes, so where a byte waits is all there is to know.               *)
ByIndex(pending) == [i \in {j \in Nat : Waits(pending, j)} |-> Source[i + 1]]

HeldBy(pending) ==
    LET holders(i) == {f \in DOMAIN pending : f <= i /\ i < f + Len(pending[f])}
    IN  [i \in {j \in 0 .. Len(Source) : holders(j) # {}} |->
            LET f == CHOOSE g \in holders(i) : TRUE IN pending[f][i - f + 1]]

(* What is held, by index, is determined by which bytes wait. *)
LEMMA IsByIndex ==
  ASSUME NEW h, NEW pending, h = [i \in DOMAIN h |-> h[i]],
         \A i : i \in DOMAIN h <=> i \in Nat /\ Waits(pending, i),
         \A i \in DOMAIN h : h[i] = Source[i + 1]
  PROVE  h = ByIndex(pending)
<1>1. DOMAIN h = {j \in Nat : Waits(pending, j)}
  OBVIOUS
<1>2. h = [i \in DOMAIN h |-> Source[i + 1]]
  OBVIOUS
<1> QED
  BY <1>1, <1>2 DEF ByIndex

(* The refinement mapping, by index. *)
LEMMA HeldIs ==
  ASSUME NEW pending, NEW lo, NEW hi, Entries(pending, lo, hi)
  PROVE  HeldBy(pending) = ByIndex(pending)
<1> DEFINE holders(i) == {f \in DOMAIN pending : f <= i /\ i < f + Len(pending[f])}
           S == {j \in 0 .. Len(Source) : holders(j) # {}}
           v(i) == LET f == CHOOSE g \in holders(i) : TRUE IN pending[f][i - f + 1]
           h == [i \in S |-> v(i)]
<1>1. HeldBy(pending) = h
  BY Zenon DEF HeldBy
<1>2. \A f \in DOMAIN pending : /\ f \in Nat /\ Len(pending[f]) \in Nat /\ f + Len(pending[f]) <= Len(Source)
                                /\ \A k \in 1 .. Len(pending[f]) : pending[f][k] = Source[f + k]
  BY DEF Entries, Stretch
<1>3. ASSUME NEW i \in Nat, NEW f \in DOMAIN pending, Spans(f, pending[f], i)
      PROVE  i \in 0 .. Len(Source) /\ i - f + 1 \in 1 .. Len(pending[f]) /\ f + (i - f + 1) = i + 1
  BY <1>2, <1>3, StreamConstants DEF Spans
<1>4. \A i : i \in S <=> i \in Nat /\ Waits(pending, i)
  <2> SUFFICES ASSUME NEW i PROVE i \in S <=> i \in Nat /\ Waits(pending, i)
    OBVIOUS
  <2>1. i \in S => i \in Nat /\ Waits(pending, i)
    BY StreamConstants DEF Waits, Spans
  <2>2. ASSUME i \in Nat, Waits(pending, i) PROVE i \in S
    <3>1. PICK f \in DOMAIN pending : Spans(f, pending[f], i)
      BY <2>2 DEF Waits
    <3>2. f \in holders(i)
      BY <3>1 DEF Spans
    <3> QED
      BY <1>3, <2>2, <3>1, <3>2
  <2> QED
    BY <2>1, <2>2
<1>5. ASSUME NEW i \in S PROVE v(i) = Source[i + 1]
  <2> DEFINE f == CHOOSE g \in holders(i) : TRUE
  <2>1. f \in holders(i)
    OBVIOUS
  <2>2. v(i) = pending[f][i - f + 1]
    OBVIOUS
  <2>3. f \in DOMAIN pending /\ Spans(f, pending[f], i)
    BY <2>1 DEF Spans
  <2> HIDE DEF f
  <2>4. i \in Nat
    BY <1>4
  <2>5. i - f + 1 \in 1 .. Len(pending[f]) /\ f + (i - f + 1) = i + 1
    BY <1>3, <2>3, <2>4
  <2>6. pending[f][i - f + 1] = Source[f + (i - f + 1)]
    BY <1>2, <2>3, <2>5
  <2> QED
    BY <2>2, <2>5, <2>6
<1> HIDE DEF v, S
<1>6. DOMAIN h = S /\ \A i \in S : h[i] = v(i)
  OBVIOUS
<1>7. h = [i \in DOMAIN h |-> h[i]]
  OBVIOUS
<1>8. h = ByIndex(pending)
  <2> HIDE DEF h
  <2>1. \A i : i \in DOMAIN h <=> i \in Nat /\ Waits(pending, i)
    BY <1>4, <1>6
  <2>2. \A i \in DOMAIN h : h[i] = Source[i + 1]
    BY <1>5, <1>6
  <2> QED
    BY <1>7, <2>1, <2>2, IsByIndex
<1> QED
  BY <1>1, <1>8

(* The reassembler of ReassemblerSpec that this one implements. *)
Shown(pending, end_index, eof_seen, output) ==
    [output |-> output, held |-> ByIndex(pending), end_index |-> end_index, eof_seen |-> eof_seen]

(* Where the run of bytes at the next index ends is where its entry ends. *)
LEMMA RunIsEntry ==
  ASSUME NEW pending, NEW lo \in Nat, NEW hi \in Nat, lo <= hi, Entries(pending, lo, hi)
  PROVE  RunLength(ByIndex(pending), lo) = IF lo \in DOMAIN pending THEN Len(pending[lo]) ELSE 0
<1> DEFINE h == ByIndex(pending)
           n == RunLength(h, lo)
<1>1. \A i : i \in DOMAIN h <=> i \in Nat /\ Waits(pending, i)
  BY DEF ByIndex
<1>2. \A f \in DOMAIN pending : /\ f \in Nat /\ Len(pending[f]) \in Nat /\ Len(pending[f]) > 0
                                /\ lo <= f /\ f + Len(pending[f]) <= hi
  BY DEF Entries, Stretch
<1> HIDE DEF h
<1>3. \A i \in DOMAIN h : i \in lo .. (hi - 1)
  BY <1>1, <1>2 DEF Waits, Spans
<1>4. /\ n \in 0 .. (hi - lo) /\ lo + n \notin DOMAIN h
      /\ \A i \in lo .. (lo + n - 1) : i \in DOMAIN h
  BY <1>3, RunIsFound
<1> HIDE DEF n
<1>5. n \in Nat
  BY <1>4
<1>6. CASE lo \notin DOMAIN pending
  <2>1. lo \notin DOMAIN h
    BY <1>1, <1>2, <1>6 DEF Waits, Spans
  <2>2. n = 0
    BY <1>4, <1>5, <2>1
  <2> QED
    BY <1>6, <2>2 DEF n, h
<1>7. CASE lo \in DOMAIN pending
  <2> DEFINE L == Len(pending[lo])
  <2>1. L \in Nat /\ L > 0
    BY <1>2, <1>7
  <2>2. \A i \in lo .. (lo + L - 1) : i \in DOMAIN h
    <3> SUFFICES ASSUME NEW i \in lo .. (lo + L - 1) PROVE i \in DOMAIN h
      OBVIOUS
    <3>1. i \in Nat /\ Spans(lo, pending[lo], i)
      BY <2>1 DEF Spans
    <3> QED
      BY <1>1, <1>7, <3>1 DEF Waits
  <2>3. lo + L \notin DOMAIN h
    <3> SUFFICES ASSUME lo + L \in DOMAIN h PROVE FALSE
      OBVIOUS
    <3>1. PICK f \in DOMAIN pending : Spans(f, pending[f], lo + L)
      BY <1>1 DEF Waits
    <3>2. lo < f => lo + L < f
      BY <1>7, <3>1 DEF Entries, Apart
    <3>3. f = lo
      BY <1>2, <2>1, <3>1, <3>2 DEF Spans
    <3> QED
      BY <2>1, <3>1, <3>3 DEF Spans
  <2> HIDE DEF L
  <2>4. ~(n < L)
    <3> SUFFICES ASSUME n < L PROVE FALSE
      OBVIOUS
    <3>1. lo + n \in lo .. (lo + L - 1)
      BY <1>5, <2>1
    <3> QED
      BY <1>4, <2>2, <3>1
  <2>5. ~(L < n)
    <3> SUFFICES ASSUME L < n PROVE FALSE
      OBVIOUS
    <3>1. lo + L \in lo .. (lo + n - 1)
      BY <1>5, <2>1
    <3> QED
      BY <1>4, <2>3, <3>1
  <2>6. n = L
    BY <1>5, <2>1, <2>4, <2>5
  <2> QED
    BY <1>7, <2>6 DEF n, h, L
<1> QED
  BY <1>6, <1>7

(* What joins the bytes that wait. *)
LEMMA MergedIs ==
  ASSUME NEW pending, NEW m, NEW first \in Nat, NEW d, Stretch(first, d, 0, Len(Source)),
         NEW lo \in Nat, NEW hi \in Nat, NEW z,
         FirstUnassembled(z) = lo, FirstUnacceptable(z) = hi,
         \A i \in Nat : Waits(m, i) <=> Waits(pending, i) \/ (Spans(first, d, i) /\ lo <= i /\ i < hi)
  PROVE  Merged(ByIndex(pending), Accepted(z, first, d)) = ByIndex(m)
<1> DEFINE old == ByIndex(pending)
           new == Accepted(z, first, d)
           h == Merged(old, new)
<1>1. (\A i : i \in DOMAIN old <=> i \in Nat /\ Waits(pending, i)) /\ \A i \in DOMAIN old : old[i] = Source[i + 1]
  BY DEF ByIndex
<1>2. d \in Seq(Nat) /\ Len(d) \in Nat /\ \A k \in 1 .. Len(d) : d[k] = Source[first + k]
  BY DEF Stretch
<1>3. new = [i \in {j \in first .. (first + Len(d) - 1) : lo <= j /\ j < hi} |-> d[i - first + 1]]
  BY DEF Accepted
<1>4. \A i : i \in DOMAIN new <=> i \in Nat /\ Spans(first, d, i) /\ lo <= i /\ i < hi
  BY <1>2, <1>3 DEF Spans
<1>5. ASSUME NEW i \in DOMAIN new PROVE new[i] = Source[i + 1]
  <2>1. i \in Nat /\ Spans(first, d, i) /\ new[i] = d[i - first + 1]
    BY <1>3, <1>4, <1>5
  <2>2. i - first + 1 \in 1 .. Len(d) /\ first + (i - first + 1) = i + 1
    BY <1>2, <2>1 DEF Spans
  <2>3. d[i - first + 1] = Source[first + (i - first + 1)]
    BY <1>2, <2>2
  <2> QED
    BY <2>1, <2>2, <2>3
<1>6. h = [i \in DOMAIN old \cup DOMAIN new |-> IF i \in DOMAIN old THEN old[i] ELSE new[i]]
  BY DEF Merged
<1> HIDE DEF old, new, h
<1>7. h = [i \in DOMAIN h |-> h[i]] /\ \A i : i \in DOMAIN h <=> i \in Nat /\ Waits(m, i)
  BY <1>1, <1>4, <1>6
<1>8. \A i \in DOMAIN h : h[i] = Source[i + 1]
  BY <1>1, <1>5, <1>6
<1>9. h = ByIndex(m)
  BY <1>7, <1>8, IsByIndex
<1> QED
  BY <1>9 DEF h, old, new

(* Pushing the entry is releasing the run; what is left waits on. *)
LEMMA FlushShown ==
  ASSUME NEW out, NEW held, NEW e, NEW b, NEW m, NEW done, GoodOutput(out, Source, Capacity),
         Entries(m, Len(out.pushed), out.popped + Capacity),
         Flushed([pending |-> m, output |-> out], done)
  PROVE  Flush([output |-> out, held |-> held, end_index |-> e, eof_seen |-> b], ByIndex(m))
           = [output |-> done.output, held |-> ByIndex(done.pending), end_index |-> e, eof_seen |-> b]
<1> DEFINE lo == Len(out.pushed)
           hi == out.popped + Capacity
           h == ByIndex(m)
           n == RunLength(h, lo)
           x == [k \in 1 .. n |-> h[lo + k - 1]]
           rest == [i \in {j \in DOMAIN h : j >= lo + n} |-> h[i]]
           z == [output |-> out, held |-> held, end_index |-> e, eof_seen |-> b]
<1>1. lo \in Nat /\ hi \in Nat /\ lo <= hi
  BY OutputWindow
<1>2. Flush(z, h) = [output |-> WriterPush(out, x), held |-> rest, end_index |-> e, eof_seen |-> b]
  <2>1. FirstUnassembled(z) = lo /\ z.output = out
    BY DEF FirstUnassembled, BytesPushed
  <2>2. Flush(z, h) = [z EXCEPT !.output = WriterPush(out, x), !.held = rest]
    BY <2>1 DEF Flush
  <2> HIDE DEF x, rest
  <2> QED
    BY <2>2
<1>3. n = IF lo \in DOMAIN m THEN Len(m[lo]) ELSE 0
  <2> HIDE DEF lo, hi
  <2>1. Entries(m, lo, hi)
    BY DEF lo, hi
  <2> QED
    BY <1>1, <2>1, RunIsEntry
<1>4. (\A i : i \in DOMAIN h <=> i \in Nat /\ Waits(m, i)) /\ \A i \in DOMAIN h : h[i] = Source[i + 1]
  BY DEF ByIndex
<1>5. out.pushed \in Seq(Nat) /\ out \in StreamOf(Capacity, Nat)
  BY DEF GoodOutput, StreamOf
<1>6. /\ \A f \in DOMAIN m : /\ f \in Nat /\ m[f] \in Seq(Nat) /\ Len(m[f]) \in Nat /\ Len(m[f]) > 0 /\ lo <= f
                             /\ \A k \in 1 .. Len(m[f]) : m[f][k] = Source[f + k]
      /\ \A f, g \in DOMAIN m : f < g => f + Len(m[f]) < g
  BY DEF Entries, Stretch, Apart
<1>7. n \in Nat
  BY <1>3, <1>6
<1>8. h = [i \in DOMAIN h |-> h[i]]
  BY DEF ByIndex
<1> HIDE DEF h
<1>9. (\A i : i \in DOMAIN rest <=> i \in DOMAIN h /\ i >= lo + n) /\ (\A i \in DOMAIN rest : rest[i] = h[i])
      /\ rest = [i \in DOMAIN rest |-> rest[i]]
  OBVIOUS
<1> DEFINE y == [pending |-> m, output |-> out]
<1>12. Flushed(y, done) /\ y.pending = m /\ y.output = out /\ Len(y.output.pushed) = lo
  OBVIOUS
<1>13. Entries(m, lo, hi)
  OBVIOUS
<1> HIDE DEF y, n, lo, hi
<1>10. CASE lo \notin DOMAIN m
  <2>1. n = 0
    BY <1>3, <1>10
  <2>2. done.pending = m /\ done.output = out
    BY <1>10, <1>12 DEF Flushed
  <2>3. x = <<>>
    BY <2>1, EmptySeq
  <2>4. Take(<<>>, AvailableCapacity(out)) = <<>>
    BY DEF Take
  <2>5. WriterPush(out, x) = out
    <3>1. out.pushed \o <<>> = out.pushed
      BY <1>5
    <3>2. WriterPush(out, x) = [out EXCEPT !.pushed = out.pushed]
      BY <2>3, <2>4, <3>1 DEF WriterPush
    <3> QED
      BY <1>5, <3>2 DEF StreamOf
  <2>6. rest = ByIndex(m)
    <3> HIDE DEF rest
    <3>1. \A i \in DOMAIN h : i >= lo + n
      BY <1>1, <1>4, <1>6, <2>1 DEF Waits, Spans
    <3> QED
      BY <1>4, <1>9, <3>1, IsByIndex
  <2> QED
    BY <1>2, <2>2, <2>5, <2>6 DEF h
<1>11. CASE lo \in DOMAIN m
  <2>1. n = Len(m[lo]) /\ m[lo] \in Seq(Nat)
    BY <1>3, <1>6, <1>11
  <2>2. done.pending = Without(m, lo) /\ done.output = WriterPush(out, m[lo])
    BY <1>11, <1>12 DEF Flushed
  <2>3. ASSUME NEW k \in 1 .. n PROVE x[k] = m[lo][k] /\ m[lo][k] \in Nat
    <3>1. lo + k - 1 \in Nat /\ Spans(lo, m[lo], lo + k - 1) /\ (lo + k - 1) + 1 = lo + k
      BY <1>1, <1>7, <2>1 DEF Spans
    <3>2. lo + k - 1 \in DOMAIN h
      BY <1>4, <1>11, <3>1 DEF Waits
    <3>3. h[lo + k - 1] = Source[lo + k]
      BY <1>4, <3>1, <3>2
    <3>4. m[lo][k] = Source[lo + k] /\ x[k] = h[lo + k - 1]
      BY <1>6, <1>11, <2>1
    <3>5. m[lo][k] \in Nat
      BY <2>1, ElementOfSeq
    <3> QED
      BY <3>3, <3>4, <3>5
  <2>4. x = m[lo]
    <3>1. x = [k \in 1 .. n |-> x[k]]
      OBVIOUS
    <3> HIDE DEF x
    <3>2. x \in [1 .. n -> Nat]
      BY <2>3, <3>1
    <3>3. x \in Seq(Nat) /\ Len(x) = n
      BY <1>7, <3>2
    <3> QED
      BY <2>1, <2>3, <3>3, SeqEqual
  <2> DEFINE w == Without(m, lo)
  <2>5. DOMAIN w = DOMAIN m \ {lo} /\ (\A g \in DOMAIN w : w[g] = m[g])
        /\ \A i \in Nat : Waits(m, i) <=> Waits(w, i) \/ Spans(lo, m[lo], i)
    <3>1. w = Without(m, lo)
      OBVIOUS
    <3> HIDE DEF w
    <3>2. lo \in DOMAIN m
      BY <1>11
    <3>3. DOMAIN w = DOMAIN m \ {lo} /\ \A g \in DOMAIN w : w[g] = m[g]
      BY ONLY <3>1, WithoutIs
    <3>4. \A i \in Nat : Waits(m, i) <=> Waits(w, i) \/ Spans(lo, m[lo], i)
      BY ONLY <3>2, <3>3 DEF Waits
    <3> QED
      BY <3>3, <3>4
  <2> HIDE DEF w
  <2>6. ASSUME NEW i \in Nat PROVE (Waits(m, i) /\ i >= lo + n) <=> Waits(w, i)
    <3>1. Waits(m, i) /\ i >= lo + n => Waits(w, i)
      BY <1>1, <2>1, <2>5, <1>7 DEF Spans
    <3>2. ASSUME Waits(w, i) PROVE i >= lo + n
      <4>1. PICK f \in DOMAIN w : Spans(f, w[f], i)
        BY <3>2 DEF Waits
      <4>2. f \in DOMAIN m /\ f # lo /\ f <= i
        BY <2>5, <4>1 DEF Spans
      <4>3. f \in Nat /\ lo < f
        BY <1>1, <1>6, <4>2
      <4>4. lo + Len(m[lo]) < f
        BY <1>6, <1>11, <4>2, <4>3
      <4> QED
        BY <1>1, <1>7, <2>1, <4>2, <4>3, <4>4
    <3> QED
      BY <2>5, <3>1, <3>2
  <2>7. rest = ByIndex(w)
    <3> HIDE DEF rest
    <3>1. \A i : i \in DOMAIN rest <=> i \in Nat /\ Waits(w, i)
      BY <1>4, <1>9, <2>6
    <3> QED
      BY <1>4, <1>9, <3>1, IsByIndex
  <2> HIDE DEF x, rest
  <2> QED
    BY <1>2, <2>2, <2>4, <2>7 DEF w, h
<1> QED
  BY <1>10, <1>11

-----------------------------------------------------------------------------
(* One insertion is one insertion. *)
LEMMA InsertShown ==
  ASSUME PendingInv, NEW first \in Nat, NEW d, Stretch(first, d, 0, Len(Source)), NEW is_last \in BOOLEAN,
         NEW m, NEW done, Inserts(first, d, is_last, m, done)
  PROVE  Shown(pending_', end_index_', eof_seen_', output_')
           = Insert(Shown(pending_, end_index_, eof_seen_, output_), first, d, is_last)
<1> DEFINE z == Shown(pending_, end_index_, eof_seen_, output_)
           noted == NoteEnd(z, first, d, is_last)
           lo == Len(output_.pushed)
           hi == output_.popped + Capacity
           held == Merged(z.held, Accepted(z, first, d))
           f == Flush(noted, held)
<1>1. GoodOutput(output_, Source, Capacity) /\ eof_seen_ \in BOOLEAN
  BY DEF PendingInv
<1>2. /\ Entries(m, lo, hi) /\ Flushed([pending |-> m, output |-> output_], done)
      /\ \A i \in Nat : Waits(m, i) <=> Waits(pending_, i) \/ (Spans(first, d, i) /\ lo <= i /\ i < hi)
      /\ eof_seen_' = (eof_seen_ \/ is_last)
      /\ end_index_' = IF is_last THEN (first + Len(d)) % AbsMod ELSE end_index_
      /\ pending_' = done.pending
      /\ output_' = IF eof_seen_' /\ Len(done.output.pushed) = end_index_'
                    THEN WriterClose(done.output) ELSE done.output
  BY DEF Inserts
<1>3. z = [output |-> output_, held |-> ByIndex(pending_), end_index |-> end_index_, eof_seen |-> eof_seen_]
  BY DEF Shown
<1>4. FirstUnassembled(z) = lo /\ FirstUnacceptable(z) = hi /\ z.held = ByIndex(pending_)
      /\ lo \in Nat /\ hi \in Nat
  <2>1. /\ BytesPushed(output_) + AvailableCapacity(output_) = hi
        /\ lo \in Nat /\ hi \in Nat
    BY <1>1, OutputWindow
  <2>2. z.output = output_ /\ z.held = ByIndex(pending_)
    BY <1>3
  <2> HIDE DEF z, hi
  <2> QED
    BY <2>1, <2>2 DEF FirstUnassembled, FirstUnacceptable, BytesPushed, AvailableCapacity
<1>5. held = ByIndex(m)
  <2> HIDE DEF z, lo, hi
  <2> QED
    BY <1>2, <1>4, MergedIs
<1>6. noted = [output |-> output_, held |-> ByIndex(pending_), end_index |-> end_index_', eof_seen |-> eof_seen_']
  <2>1. CASE is_last
    <3>1. noted = [z EXCEPT !.end_index = (first + Len(d)) % AbsMod, !.eof_seen = TRUE]
      BY <2>1 DEF NoteEnd
    <3>2. eof_seen_' = TRUE /\ end_index_' = (first + Len(d)) % AbsMod
      BY <1>1, <1>2, <2>1
    <3> HIDE DEF noted, z
    <3> QED
      BY <1>3, <3>1, <3>2
  <2>2. CASE ~is_last
    BY <1>1, <1>2, <1>3, <2>2 DEF NoteEnd
  <2> QED
    BY <2>1, <2>2
<1> HIDE DEF noted, held, z
<1>7. f = [output |-> done.output, held |-> ByIndex(done.pending),
           end_index |-> end_index_', eof_seen |-> eof_seen_']
  BY <1>1, <1>2, <1>5, <1>6, FlushShown
<1> HIDE DEF f
<1>8. Insert(z, first, d, is_last) = CloseAtEnd(f)
  BY Zenon DEF Insert, f, noted, held
<1>9. CloseAtEnd(f) = [output |-> output_', held |-> ByIndex(pending_'),
                       end_index |-> end_index_', eof_seen |-> eof_seen_']
  <2>1. CASE eof_seen_' /\ Len(done.output.pushed) = end_index_'
    BY <1>2, <1>7, <2>1 DEF CloseAtEnd, BytesPushed
  <2>2. CASE ~(eof_seen_' /\ Len(done.output.pushed) = end_index_')
    BY <1>2, <1>7, <2>2 DEF CloseAtEnd, BytesPushed
  <2> QED
    BY <2>1, <2>2
<1> QED
  BY <1>8, <1>9 DEF Shown, z

(* The instance's operators are this module's. *)
LEMMA SameInsert ==
  \A z, first, d, is_last : Abstract!Insert(z, first, d, is_last) = Insert(z, first, d, is_last)
<1>1. \A z, first, d, is_last : Abstract!NoteEnd(z, first, d, is_last) = NoteEnd(z, first, d, is_last)
  BY Zenon DEF Abstract!NoteEnd, NoteEnd
<1>2. \A z : Abstract!CloseAtEnd(z) = CloseAtEnd(z)
  BY Zenon DEF Abstract!CloseAtEnd, CloseAtEnd, Abstract!WriterClose, WriterClose,
               Abstract!BytesPushed, BytesPushed
<1>3. \A old, new : Abstract!Merged(old, new) = Merged(old, new)
  BY Zenon DEF Abstract!Merged, Merged
<1>4. \A z, first, d : Abstract!Accepted(z, first, d) = Accepted(z, first, d)
  BY Zenon DEF Abstract!Accepted, Accepted, Abstract!FirstUnassembled, FirstUnassembled,
               Abstract!FirstUnacceptable, FirstUnacceptable, Abstract!BytesPushed, BytesPushed,
               Abstract!AvailableCapacity, AvailableCapacity
<1>5. \A z, h : Abstract!Flush(z, h) = Flush(z, h)
  BY Zenon DEF Abstract!Flush, Flush, Abstract!FirstUnassembled, FirstUnassembled,
               Abstract!BytesPushed, BytesPushed, Abstract!RunLength, RunLength,
               Abstract!Cardinality, Cardinality,
               Abstract!WriterPush, WriterPush, Abstract!Take, Take,
               Abstract!AvailableCapacity, AvailableCapacity
<1> QED
  BY Zenon, <1>1, <1>2, <1>3, <1>4, <1>5 DEF Abstract!Insert, Insert

(* The refinement mapping, where the invariant holds. *)
LEMMA MappedIs ==
  ASSUME NEW p, NEW e, NEW b, NEW o, NEW lo, NEW hi, Entries(p, lo, hi)
  PROVE  [output |-> o, held |-> HeldBy(p), end_index |-> e, eof_seen |-> b] = Shown(p, e, b, o)
BY HeldIs DEF Shown

(* Every step of the reassembler with its map is the step of the one that  *)
(* holds single bytes (reassembler.cc:7-78): what waits in the map, by     *)
(* index, is what that one holds, and the entry that is pushed is its run  *)
(* of bytes without a gap.                                                 *)
THEOREM MapImplementsReassembler == MapSpec => ImplementsReassembler
<1> DEFINE z == [output |-> output_, held |-> Held, end_index |-> end_index_, eof_seen |-> eof_seen_]
<1>1. Held = HeldBy(pending_) /\ Held' = HeldBy(pending_')
  BY Zenon DEF Held, HeldIndices, Holders, HeldBy
<1>2. PendingInv => z = Shown(pending_, end_index_, eof_seen_, output_)
  BY <1>1, MappedIs DEF PendingInv
<1>3. PendingInv' => z' = Shown(pending_', end_index_', eof_seen_', output_')
  <2> SUFFICES ASSUME PendingInv' PROVE z' = Shown(pending_', end_index_', eof_seen_', output_')
    OBVIOUS
  <2>1. Entries(pending_', Len(output_'.pushed) + 1, output_'.popped + Capacity)
    BY DEF PendingInv
  <2>2. z' = [output |-> output_', held |-> HeldBy(pending_'), end_index |-> end_index_', eof_seen |-> eof_seen_']
    BY <1>1
  <2> QED
    BY ONLY <2>1, <2>2, MappedIs
<1>4. MapInit => Abstract!Init
  <2> SUFFICES ASSUME MapInit PROVE z = NewReassembler(Capacity)
    BY DEF Abstract!Init, Abstract!NewReassembler, Abstract!NewStream,
           NewReassembler, NewStream
  <2>1. /\ pending_ = [i \in {} |-> <<>>] /\ end_index_ = 0 /\ eof_seen_ = FALSE
        /\ output_ = NewStream(Capacity)
    BY DEF MapInit, NewStream, NewStream
  <2>2. z = Shown(pending_, end_index_, eof_seen_, output_)
    BY <1>2, PendingStarts
  <2>3. DOMAIN pending_ = {}
    BY <2>1
  <2>4. ByIndex(pending_) = <<>>
    <3>1. \A j : ~Waits(pending_, j)
      BY <2>3 DEF Waits
    <3>2. {j \in Nat : Waits(pending_, j)} = {}
      BY <3>1
    <3>3. ByIndex(pending_) = [i \in {} |-> Source[i + 1]]
      BY <3>2 DEF ByIndex
    <3> QED
      BY <3>3
  <2> QED
    BY <2>1, <2>2, <2>4 DEF Shown, NewReassembler
<1>5. PendingInv /\ PendingInv' /\ [MapNext]_vars => [Abstract!Next]_z
  <2> SUFFICES ASSUME PendingInv, PendingInv', [MapNext]_vars
               PROVE  Abstract!Next \/ z' = z
    OBVIOUS
  <2> DEFINE now == Shown(pending_, end_index_, eof_seen_, output_)
             then == Shown(pending_', end_index_', eof_seen_', output_')
  <2>1. z = now /\ z' = then
    BY <1>2, <1>3
  <2>2. /\ now = [output |-> output_, held |-> ByIndex(pending_), end_index |-> end_index_, eof_seen |-> eof_seen_]
        /\ then = [output |-> output_', held |-> ByIndex(pending_'), end_index |-> end_index_',
                   eof_seen |-> eof_seen_']
    BY DEF Shown
  <2>3. ASSUME NEW first \in 0 .. Len(Source), NEW len \in 0 .. MaxSeg, NEW is_last \in BOOLEAN,
               Deliver(first, len, is_last)
        PROVE  Abstract!Deliver(first, len, is_last)
    <3> DEFINE d == SubSeq(Source, first + 1, first + len)
    <3>1. /\ first + len <= Len(Source) /\ (is_last => first + len = Len(Source))
          /\ InsertSubstring(first, d, is_last)
      BY <2>3 DEF Deliver
    <3>2. first \in Nat /\ len \in Nat
      BY StreamConstants
    <3>3. Stretch(first, d, 0, Len(Source)) /\ Len(d) = len
      BY <3>1, <3>2, SubstringIs
    <3> HIDE DEF d
    <3>4. PICK m, done : Inserts(first, d, is_last, m, done)
      BY <3>1, <3>2, <3>3, InsertIs
    <3>5. then = Insert(now, first, d, is_last)
      BY <3>2, <3>3, <3>4, InsertShown
    <3> HIDE DEF now, then, z
    <3>6. z' = Abstract!Insert(z, first, d, is_last)
      BY <2>1, <3>5, SameInsert
    <3> QED
      BY <3>1, <3>6 DEF Abstract!Deliver, d, z
  <2>4. ASSUME NEW len \in 1 .. Capacity, Drain(len)
        PROVE  Abstract!Read(len)
    <3>1. /\ len <= BytesBuffered(output_) /\ output_' = ReaderPop(output_, len)
          /\ pending_' = pending_ /\ end_index_' = end_index_ /\ eof_seen_' = eof_seen_
      BY <2>4 DEF Drain
    <3>2. ReaderPop(output_, len) = Abstract!ReaderPop(output_, len)
          /\ BytesBuffered(output_) = Abstract!BytesBuffered(output_)
      BY Zenon DEF ReaderPop, Abstract!ReaderPop, BytesBuffered, Abstract!BytesBuffered
    <3>3. then = [now EXCEPT !.output = Abstract!ReaderPop(now.output, len)]
      BY <2>2, <3>1, <3>2
    <3>4. now.output = output_
      BY <2>2
    <3> HIDE DEF now, then, z
    <3>5. z' = Abstract!ReadOutput(z, len)
      BY <2>1, <3>3 DEF Abstract!ReadOutput
    <3>6. len <= Abstract!BytesBuffered(z.output)
      BY <2>1, <3>1, <3>2, <3>4
    <3> QED
      BY <3>5, <3>6 DEF Abstract!Read, z
  <2>5. CASE Reset
    <3>1. /\ output_' = WriterClose(SetError(output_))
          /\ pending_' = pending_ /\ end_index_' = end_index_ /\ eof_seen_' = eof_seen_
      BY <2>5 DEF Reset
    <3>2. WriterClose(SetError(output_))
            = Abstract!WriterClose(Abstract!SetError(output_))
      BY Zenon DEF WriterClose, SetError, Abstract!WriterClose, Abstract!SetError
    <3>3. then = [now EXCEPT !.output = Abstract!WriterClose(Abstract!SetError(now.output))]
      BY <2>2, <3>1, <3>2
    <3> HIDE DEF now, then, z
    <3>4. z' = Abstract!Abort(z)
      BY <2>1, <3>3 DEF Abstract!Abort
    <3> QED
      BY <3>4 DEF Abstract!Reset, Abstract!Next, z
  <2>6. CASE UNCHANGED vars
    <3>1. then = now
      BY <2>6 DEF vars
    <3> QED
      BY <2>1, <3>1
  <2> QED
    BY <2>3, <2>4, <2>5, <2>6 DEF MapNext, Abstract!Next
<1> QED
  BY <1>4, <1>5, PendingIsKept, PTL DEF MapSpec, ImplementsReassembler, Abstract!Spec
=============================================================================
