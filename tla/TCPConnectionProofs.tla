------------------------- MODULE TCPConnectionProofs ------------------------
(***************************************************************************)
(* When a connection breaks and what a broken peer does; and that both     *)
(* ends of an unbroken one agree, that nobody leaves it early, and that    *)
(* each direction of it is a reliable stream.  For any network, any        *)
(* applications, and any capacities, windows and widths.                   *)
(*                                                                         *)
(* The first half is about flags.  Every flag that stands for an error, in *)
(* a stream, in a segment waiting to be acknowledged or in one under way,  *)
(* has its value in one set of flags: {FALSE} as long as nothing failed,   *)
(* BOOLEAN from then on.  That every operation keeps to the set it finds   *)
(* is what makes resets impossible without a cause; the rest of the        *)
(* invariant says enough about the numbers and sequences of a peer for its *)
(* operations to be defined.                                               *)
(*                                                                         *)
(* The second half is about bytes.  Its invariant, DirectionInv, says of   *)
(* each sender and the receiver at the other end (Direction, in TCPLemmas) *)
(* that the sender is sound, that what the receiver has is a prefix of     *)
(* what the sender has sent, that every segment under way is a piece of    *)
(* that and every acknowledgement under way covers no more than the        *)
(* receiver has, and that without an error the sender believes no more     *)
(* acknowledged than that.  A step moves one side (SideMoves) or is a step *)
(* of the clock (TimePasses): senders only add to what they have sent, and *)
(* receivers to what they have, so what is under way stays as true as it   *)
(* was.                                                                    *)
(***************************************************************************)
EXTENDS TCPConnection, TCPLemmas

(* The sets of values that error flags may have. *)
Flags == {{FALSE}, BOOLEAN}

StreamRecord(E) ==
    [capacity : Nat, pushed : Seq(Nat), popped : Nat, closed : BOOLEAN, error : E]

FlaggedStream(s, E) ==
    /\ s \in StreamRecord(E)
    /\ s.popped <= Len(s.pushed) /\ Len(s.pushed) <= s.popped + s.capacity

Segment(E) == [seqno : Int, SYN : BOOLEAN, payload : Seq(Nat), FIN : BOOLEAN, RST : E]
Answer(E) == [ackno : Int, window_size : Nat, RST : E]
Message(E) == [sender : Segment(E), receiver : Answer(E)]

FiniteHeld(held) == IsFiniteSet(DOMAIN held) /\ \A i \in DOMAIN held : held[i] \in Nat

FlaggedReassembler(r, E) ==
    /\ r = [output |-> r.output, held |-> r.held, end_index |-> r.end_index, eof_seen |-> r.eof_seen]
    /\ FlaggedStream(r.output, E)
    /\ FiniteHeld(r.held)

FlaggedReceiver(rcv, E) ==
    /\ rcv = [reassembler |-> rcv.reassembler, isn |-> rcv.isn]
    /\ FlaggedReassembler(rcv.reassembler, E)
    /\ rcv.isn \in Int

FlaggedSender(s, E) ==
    /\ s = [input |-> s.input, isn |-> s.isn, timer |-> s.timer, window_size |-> s.window_size,
            zero_window |-> s.zero_window, next_seqno |-> s.next_seqno,
            bytes_in_flight |-> s.bytes_in_flight, syn_sent |-> s.syn_sent,
            fin_sent |-> s.fin_sent, outstanding |-> s.outstanding]
    /\ FlaggedStream(s.input, E)
    /\ s.isn \in Int /\ s.window_size \in Nat /\ s.next_seqno \in Nat
    /\ s.bytes_in_flight \in Int /\ s.syn_sent \in BOOLEAN
    /\ s.outstanding \in Seq(Segment(E))

FlaggedPeer(p, E) ==
    /\ p = [sender |-> p.sender, receiver |-> p.receiver, need_send |-> p.need_send,
            linger_after_streams_finish |-> p.linger_after_streams_finish,
            since_last_receipt |-> p.since_last_receipt]
    /\ FlaggedSender(p.sender, E)
    /\ FlaggedReceiver(p.receiver, E)

-----------------------------------------------------------------------------
(* Streams *)

(* The fields of a stream. *)
LEMMA StreamTypes ==
  ASSUME NEW E, NEW s, FlaggedStream(s, E)
  PROVE  /\ s.capacity \in Nat /\ s.pushed \in Seq(Nat) /\ Len(s.pushed) \in Nat /\ s.popped \in Nat
         /\ s.closed \in BOOLEAN /\ s.error \in E
         /\ s.popped <= Len(s.pushed) /\ Len(s.pushed) <= s.popped + s.capacity
         /\ BytesBuffered(s) \in Nat /\ AvailableCapacity(s) \in Nat
<1>1. /\ s.capacity \in Nat /\ s.pushed \in Seq(Nat) /\ s.popped \in Nat
      /\ s.closed \in BOOLEAN /\ s.error \in E
  BY DEF FlaggedStream, StreamRecord
<1>2. /\ Len(s.pushed) \in Nat
      /\ s.popped <= Len(s.pushed) /\ Len(s.pushed) <= s.popped + s.capacity
  BY <1>1 DEF FlaggedStream
<1>3. BytesBuffered(s) \in Nat /\ AvailableCapacity(s) \in Nat
  BY <1>1, <1>2 DEF BytesBuffered, AvailableCapacity
<1> QED
  BY <1>1, <1>2, <1>3

(* The first n elements of a sequence. *)
LEMMA TakeType ==
  ASSUME NEW d \in Seq(Nat), NEW n \in Nat
  PROVE  Take(d, n) \in Seq(Nat) /\ Len(Take(d, n)) \in Nat /\ Len(Take(d, n)) <= n
<1>1. CASE n < Len(d)
  <2>1. Take(d, n) = SubSeq(d, 1, n)
    BY <1>1 DEF Take
  <2>2. \A i \in 1 .. n : d[i] \in Nat
    BY <1>1
  <2>3. SubSeq(d, 1, n) \in Seq(Nat) /\ Len(SubSeq(d, 1, n)) = n
    BY <1>1, <2>2
  <2> QED
    BY <2>1, <2>3
<1>2. CASE ~(n < Len(d))
  BY <1>2 DEF Take
<1> QED
  BY <1>1, <1>2

LEMMA Joined ==
  ASSUME NEW S, NEW a \in Seq(S), NEW b \in Seq(S)
  PROVE  a \o b \in Seq(S) /\ Len(a \o b) = Len(a) + Len(b)
  OBVIOUS

(* push, pop, close and set_error keep a stream good; only set_error needs *)
(* a flag for it (byte_stream.cc:5-21, 46-62).                             *)
LEMMA WriterPushGood ==
  ASSUME NEW E, NEW s, FlaggedStream(s, E), NEW data \in Seq(Nat)
  PROVE  FlaggedStream(WriterPush(s, data), E)
<1> DEFINE x == Take(data, AvailableCapacity(s))
           u == s.pushed \o x
           t == WriterPush(s, data)
<1>1. /\ s.capacity \in Nat /\ s.pushed \in Seq(Nat) /\ Len(s.pushed) \in Nat /\ s.popped \in Nat
      /\ s.popped <= Len(s.pushed) /\ Len(s.pushed) <= s.popped + s.capacity
      /\ AvailableCapacity(s) \in Nat
  BY StreamTypes
<1>2. x \in Seq(Nat) /\ Len(x) \in Nat /\ Len(x) <= AvailableCapacity(s)
  BY <1>1, TakeType
<1>3. t = [s EXCEPT !.pushed = u]
  BY DEF WriterPush
<1> HIDE DEF x
<1>4. u \in Seq(Nat) /\ Len(u) = Len(s.pushed) + Len(x)
  BY <1>1, <1>2, Joined
<1> HIDE DEF t, u
<1>5. t \in StreamRecord(E) /\ t.pushed = u /\ t.popped = s.popped /\ t.capacity = s.capacity
  BY <1>3, <1>4 DEF FlaggedStream, StreamRecord
<1>6. Len(u) >= Len(s.pushed) /\ Len(u) <= s.popped + s.capacity
  BY <1>1, <1>2, <1>4 DEF AvailableCapacity
<1>7. FlaggedStream(t, E)
  BY <1>1, <1>4, <1>5, <1>6 DEF FlaggedStream
<1> QED
  BY <1>7 DEF t

LEMMA ReaderPopGood ==
  ASSUME NEW E, NEW s, FlaggedStream(s, E), NEW len \in Nat
  PROVE  FlaggedStream(ReaderPop(s, len), E) /\ ReaderPop(s, len).pushed = s.pushed
<1> DEFINE n == IF len < BytesBuffered(s) THEN len ELSE BytesBuffered(s)
           t == ReaderPop(s, len)
<1>1. /\ s.capacity \in Nat /\ s.pushed \in Seq(Nat) /\ Len(s.pushed) \in Nat /\ s.popped \in Nat
      /\ s.popped <= Len(s.pushed) /\ Len(s.pushed) <= s.popped + s.capacity
      /\ BytesBuffered(s) \in Nat
  BY StreamTypes
<1>2. n \in Nat /\ n <= Len(s.pushed) - s.popped
  BY <1>1 DEF BytesBuffered
<1> DEFINE q == s.popped + n
<1>3. t = [s EXCEPT !.popped = q]
  BY DEF ReaderPop
<1>4. q \in Nat /\ q <= Len(s.pushed) /\ q >= s.popped
  BY <1>1, <1>2
<1> HIDE DEF n, t, q
<1>5. /\ t \in StreamRecord(E) /\ t.pushed = s.pushed /\ t.popped = q /\ t.capacity = s.capacity
  BY <1>3, <1>4 DEF FlaggedStream, StreamRecord
<1>6. FlaggedStream(t, E)
  BY <1>1, <1>4, <1>5 DEF FlaggedStream
<1> QED
  BY <1>5, <1>6 DEF t

LEMMA WriterCloseGood ==
  ASSUME NEW E, NEW s, FlaggedStream(s, E)
  PROVE  FlaggedStream(WriterClose(s), E) /\ WriterClose(s).pushed = s.pushed
BY DEF FlaggedStream, StreamRecord, WriterClose

LEMMA SetErrorGood ==
  ASSUME NEW E, NEW s, FlaggedStream(s, E)
  PROVE  FlaggedStream(SetError(s), BOOLEAN) /\ SetError(s).pushed = s.pushed
BY DEF FlaggedStream, StreamRecord, SetError

LEMMA NewStreamGood ==
  ASSUME NEW E \in Flags, NEW capacity \in Nat
  PROVE  FlaggedStream(NewStream(capacity), E)
<1>1. FALSE \in E
  BY DEF Flags
<1>2. NewStream(capacity) \in StreamRecord(E)
  <2>1. <<>> \in Seq(Nat) /\ 0 \in Nat /\ FALSE \in BOOLEAN
    OBVIOUS
  <2> QED
    BY <1>1, <2>1, Zenon DEF NewStream, StreamRecord
<1>3. /\ NewStream(capacity).popped = 0 /\ NewStream(capacity).capacity = capacity
      /\ Len(NewStream(capacity).pushed) = 0
  BY DEF NewStream
<1> QED
  BY <1>2, <1>3 DEF FlaggedStream

(* A flag that is allowed may as well be set. *)
LEMMA StreamWeaker ==
  ASSUME NEW E \in Flags, NEW s, FlaggedStream(s, E)
  PROVE  FlaggedStream(s, BOOLEAN)
BY DEF Flags, FlaggedStream, StreamRecord

(* A flag that is set can only be of the larger set. *)
LEMMA FlagSet ==
  ASSUME NEW E \in Flags, NEW b \in E, b
  PROVE  E = BOOLEAN
BY DEF Flags

-----------------------------------------------------------------------------
(* The receiving half *)

(* Taking in a substring (reassembler.cc:7-78).                            *)
LEMMA FlaggedInsert ==
  ASSUME NEW E, NEW r, FlaggedReassembler(r, E), NEW first \in Int, NEW data \in Seq(Nat), NEW last
  PROVE  FlaggedReassembler(Insert(r, first, data, last), E)
<1> DEFINE new == Accepted(r, first, data)
           held == Merged(r.held, new)
           noted == NoteEnd(r, first, data, last)
           s == r.output
           from == Len(s.pushed)
           n == RunLength(held, from)
           x == [k \in 1 .. n |-> held[from + k - 1]]
           rest == [i \in {j \in DOMAIN held : j >= from + n} |-> held[i]]
           o == WriterPush(s, x)
           f == Flush(noted, held)
<1>1. /\ r = [output |-> s, held |-> r.held, end_index |-> r.end_index, eof_seen |-> r.eof_seen]
      /\ FlaggedStream(s, E) /\ IsFiniteSet(DOMAIN r.held) /\ \A i \in DOMAIN r.held : r.held[i] \in Nat
  BY DEF FlaggedReassembler, FiniteHeld
<1>2. from \in Nat /\ Len(data) \in Nat
  BY <1>1, StreamTypes
<1>3. IsFiniteSet(DOMAIN new) /\ \A i \in DOMAIN new : new[i] \in Nat
  <2>1. /\ DOMAIN new \subseteq first .. (first + Len(data) - 1)
        /\ \A i \in DOMAIN new : new[i] = data[i - first + 1]
    BY DEF Accepted
  <2> HIDE DEF new
  <2>2. IsFiniteSet(first .. (first + Len(data) - 1))
    <3>1. first + Len(data) - 1 \in Int
      BY <1>2
    <3> QED
      BY <3>1, FS_Interval
  <2>3. IsFiniteSet(DOMAIN new)
    BY <2>1, <2>2, FS_Subset
  <2>4. ASSUME NEW i \in DOMAIN new PROVE new[i] \in Nat
    <3>1. i \in first .. (first + Len(data) - 1)
      BY <2>1
    <3>2. i - first + 1 \in 1 .. Len(data)
      BY <1>2, <3>1
    <3> QED
      BY <2>1, <3>2
  <2> QED
    BY <2>3, <2>4
<1> HIDE DEF new
<1>4. IsFiniteSet(DOMAIN held) /\ \A i \in DOMAIN held : held[i] \in Nat
  <2>1. DOMAIN held = DOMAIN r.held \cup DOMAIN new
    BY DEF Merged
  <2>2. \A i \in DOMAIN held : held[i] = IF i \in DOMAIN r.held THEN r.held[i] ELSE new[i]
    BY DEF Merged
  <2> HIDE DEF held
  <2>3. IsFiniteSet(DOMAIN held)
    BY <1>1, <1>3, <2>1, FS_Union
  <2> QED
    BY <1>1, <1>3, <2>1, <2>2, <2>3
<1> HIDE DEF held, from
<1>5. n \in Nat /\ \A i \in from .. (from + n - 1) : i \in DOMAIN held
  <2> DEFINE D == DOMAIN held
             Stops(m) == (\A i \in from .. (from + m - 1) : i \in D) /\ from + m \notin D
  <2>1. \E m \in 0 .. Cardinality(D) : Stops(m)
    <3>1. from \in Int /\ IsFiniteSet(D)
      BY <1>2, <1>4
    <3> HIDE DEF D
    <3> QED
      BY <3>1, RunEnds
  <2>2. n = CHOOSE m \in 0 .. Cardinality(D) : Stops(m)
    BY DEF RunLength
  <2> HIDE DEF Stops, n
  <2>3. n \in 0 .. Cardinality(D) /\ Stops(n)
    BY <2>1, <2>2
  <2> QED
    BY <2>3 DEF Stops
<1> HIDE DEF n
<1>6. x \in Seq(Nat)
  <2>1. \A k \in 1 .. n : held[from + k - 1] \in Nat
    <3> SUFFICES ASSUME NEW k \in 1 .. n PROVE held[from + k - 1] \in Nat
      OBVIOUS
    <3>1. from + k - 1 \in from .. (from + n - 1)
      BY <1>2, <1>5
    <3> QED
      BY <1>4, <1>5, <3>1
  <2> QED
    BY <1>5, <2>1
<1> HIDE DEF x
<1>7. FlaggedStream(o, E)
  BY <1>1, <1>6, WriterPushGood
<1>8. FiniteHeld(rest)
  <2>1. DOMAIN rest \subseteq DOMAIN held /\ \A i \in DOMAIN rest : rest[i] = held[i]
    OBVIOUS
  <2> HIDE DEF rest
  <2>2. IsFiniteSet(DOMAIN rest)
    BY <1>4, <2>1, FS_Subset
  <2> QED
    BY <1>4, <2>1, <2>2 DEF FiniteHeld
<1>9. /\ noted = [output |-> s, held |-> r.held, end_index |-> noted.end_index, eof_seen |-> noted.eof_seen]
  BY <1>1 DEF NoteEnd
<1> HIDE DEF noted, rest, o
<1>10. f = [output |-> o, held |-> rest, end_index |-> noted.end_index, eof_seen |-> noted.eof_seen]
  <2>1. noted.output = s
    BY <1>9
  <2>2. f = [noted EXCEPT !.output = o, !.held = rest]
    BY <2>1 DEF Flush, FirstUnassembled, BytesPushed, o, rest, x, n, from
  <2> QED
    BY <1>9, <2>2
<1>11. Insert(r, first, data, last) = CloseAtEnd(f)
  BY DEF Insert, noted, held, new
<1> HIDE DEF f
<1>12. CloseAtEnd(f) \in {f, [f EXCEPT !.output = WriterClose(o)]}
  BY <1>10 DEF CloseAtEnd
<1>13. FlaggedStream(WriterClose(o), E)
  BY <1>7, WriterCloseGood
<1> DEFINE c == WriterClose(o)
           g == [f EXCEPT !.output = c]
<1> HIDE DEF c
<1>14. g = [output |-> c, held |-> rest, end_index |-> noted.end_index, eof_seen |-> noted.eof_seen]
  BY <1>10
<1>15. FlaggedReassembler(f, E)
  BY <1>7, <1>8, <1>10 DEF FlaggedReassembler
<1> HIDE DEF g
<1>16. FlaggedReassembler(g, E)
  BY <1>8, <1>13, <1>14 DEF FlaggedReassembler, c
<1>17. CloseAtEnd(f) = f \/ CloseAtEnd(f) = g
  BY <1>12 DEF g, c
<1> QED
  BY <1>11, <1>15, <1>16, <1>17

(* An abort needs a flag (reassembler.cc). *)
LEMMA AbortGood ==
  ASSUME NEW E, NEW r, FlaggedReassembler(r, E)
  PROVE  FlaggedReassembler(Abort(r), BOOLEAN)
<1> DEFINE o == WriterClose(SetError(r.output))
           t == Abort(r)
<1>1. FlaggedStream(o, BOOLEAN)
  <2>1. FlaggedStream(SetError(r.output), BOOLEAN)
    BY SetErrorGood DEF FlaggedReassembler
  <2> QED
    BY <2>1, WriterCloseGood
<1>2. t = [r EXCEPT !.output = o]
  BY DEF Abort
<1> HIDE DEF o, t
<1>3. t = [output |-> o, held |-> r.held, end_index |-> r.end_index, eof_seen |-> r.eof_seen]
  BY <1>2 DEF FlaggedReassembler
<1>4. FlaggedReassembler(t, BOOLEAN)
  BY <1>1, <1>3 DEF FlaggedReassembler
<1> QED
  BY <1>4 DEF t

(* What unwrap() and wrap() return are integers. *)
LEMMA UnwrapInt ==
  ASSUME NEW raw \in Int, NEW z \in Int, NEW cp \in Int
  PROVE  Unwrap(raw, z, cp) \in Int
<1> USE WidthAssumption
<1> DEFINE c == Candidate(raw, z, cp)
<1>1. c \in Int
  BY DEF Candidate
<1> HIDE DEF c
<1>2. (c + SeqMod) % AbsMod \in Int
  <2>1. AbsMod \in Nat \ {0}
    OBVIOUS
  <2> QED
    BY <1>1, <2>1
<1> QED
  BY <1>1, <1>2 DEF Unwrap, c

LEMMA WrapInt ==
  ASSUME NEW a \in Int, NEW z \in Int
  PROVE  Wrap(a, z) \in Int
BY WidthAssumption DEF Wrap, Plus

(* A segment sets the error flag only if its own is set                    *)
(* (tcp_receiver.cc:7-29).                                                 *)
LEMMA ReceiverReceiveGood ==
  ASSUME NEW E \in Flags, NEW rcv, FlaggedReceiver(rcv, E), NEW m \in Segment(E)
  PROVE  FlaggedReceiver(ReceiverReceive(rcv, m), E)
<1> DEFINE isn == IF rcv.isn = NoSeqno THEN m.seqno ELSE rcv.isn
           abs_seqno == Unwrap(m.seqno, isn, BytesPushed(Inbound(rcv)))
           first == StreamIndex(m, abs_seqno)
           r == rcv.reassembler
           t == ReceiverReceive(rcv, m)
<1>1. /\ m.seqno \in Int /\ m.payload \in Seq(Nat) /\ m.RST \in E
      /\ rcv = [reassembler |-> r, isn |-> rcv.isn] /\ FlaggedReassembler(r, E) /\ rcv.isn \in Int
  BY DEF Segment, FlaggedReceiver
<1>2. isn \in Int
  BY <1>1
<1>3. BytesPushed(Inbound(rcv)) \in Int
  BY <1>1, StreamTypes DEF Inbound, FlaggedReassembler, BytesPushed
<1> HIDE DEF isn
<1>4. abs_seqno \in Int
  BY <1>1, <1>2, <1>3, UnwrapInt
<1> HIDE DEF abs_seqno
<1>5. first \in Int
  <2>1. AbsMod \in Nat \ {0}
    BY WidthAssumption
  <2> QED
    BY <1>4, <2>1 DEF StreamIndex
<1>6. CASE m.RST
  <2>1. E = BOOLEAN
    BY <1>1, <1>6, FlagSet
  <2> DEFINE a == Abort(r)
  <2>2. FlaggedReassembler(a, E)
    BY <1>1, <2>1, AbortGood
  <2>3. t = [rcv EXCEPT !.reassembler = a]
    BY <1>6 DEF ReceiverReceive
  <2> HIDE DEF a, t
  <2>4. t = [reassembler |-> a, isn |-> rcv.isn]
    BY <1>1, <2>3
  <2>5. FlaggedReceiver(t, E)
    BY <1>1, <2>2, <2>4 DEF FlaggedReceiver
  <2> QED
    BY <2>5 DEF t
<1>7. CASE ~m.RST /\ rcv.isn = NoSeqno /\ ~m.SYN
  BY <1>7 DEF ReceiverReceive
<1>8. CASE ~m.RST /\ ~(rcv.isn = NoSeqno /\ ~m.SYN)
  <2> DEFINE a == Insert(r, first, m.payload, m.FIN)
  <2>1. t = [isn |-> isn, reassembler |-> a]
    BY <1>8 DEF ReceiverReceive, abs_seqno, isn
  <2> HIDE DEF first
  <2>2. FlaggedReassembler(a, E)
    BY <1>1, <1>5, FlaggedInsert
  <2> HIDE DEF a, t
  <2>3. FlaggedReceiver(t, E)
    BY <1>2, <2>1, <2>2 DEF FlaggedReceiver
  <2> QED
    BY <2>3 DEF t
<1> QED
  BY <1>6, <1>7, <1>8

LEMMA AnswerType ==
  ASSUME NEW E, NEW a \in Int, NEW w \in Nat, NEW b \in E
  PROVE  ReceiverMessage(a, w, b) \in Answer(E)
BY Zenon DEF ReceiverMessage, Answer

(* A receiver says RST only if its stream has an error                     *)
(* (tcp_receiver.cc:31-46).                                                *)
LEMMA ReceiverSendGood ==
  ASSUME NEW E \in Flags, NEW rcv, FlaggedReceiver(rcv, E)
  PROVE  ReceiverSend(rcv) \in Answer(E)
<1> DEFINE s == Inbound(rcv)
<1>1. FlaggedStream(s, E) /\ rcv.isn \in Int
  BY DEF FlaggedReceiver, FlaggedReassembler, Inbound
<1> HIDE DEF s
<1>2. AvailableCapacity(s) \in Nat /\ Len(s.pushed) \in Nat /\ s.error \in E
  BY <1>1, StreamTypes
<1>3. WindowSize(rcv) \in Nat
  BY <1>2, WindowAssumption DEF WindowSize, s
<1>4. Wrap(AckedThrough(rcv), rcv.isn) \in Int
  <2>1. AckedThrough(rcv) \in Int
    BY <1>2 DEF AckedThrough, BytesPushed, s
  <2> QED
    BY <1>1, <2>1, WrapInt
<1>5. NoSeqno \in Int /\ 0 \in Nat
  BY DEF NoSeqno
<1>6. FALSE \in E
  BY DEF Flags
<1>7. CASE s.error
  <2>1. TRUE \in E
    BY <1>2, <1>7, FlagSet
  <2>2. ReceiverSend(rcv) = ReceiverMessage(NoSeqno, 0, TRUE)
    BY <1>7 DEF ReceiverSend, s
  <2> QED
    BY <1>5, <2>1, <2>2, AnswerType
<1>8. CASE ~s.error
  <2>1. ReceiverSend(rcv) \in {ReceiverMessage(NoSeqno, WindowSize(rcv), FALSE),
                               ReceiverMessage(Wrap(AckedThrough(rcv), rcv.isn), WindowSize(rcv), FALSE)}
    BY <1>8 DEF ReceiverSend, s
  <2>2. ReceiverMessage(NoSeqno, WindowSize(rcv), FALSE) \in Answer(E)
    BY <1>3, <1>5, <1>6, AnswerType
  <2>3. ReceiverMessage(Wrap(AckedThrough(rcv), rcv.isn), WindowSize(rcv), FALSE) \in Answer(E)
    BY <1>3, <1>4, <1>6, AnswerType
  <2> QED
    BY <2>1, <2>2, <2>3
<1> QED
  BY <1>7, <1>8

(* What the application reads. *)
LEMMA ReadOutputGood ==
  ASSUME NEW E, NEW r, FlaggedReassembler(r, E), NEW n \in Nat
  PROVE  /\ FlaggedReassembler(ReadOutput(r, n), E)
         /\ ReadOutput(r, n).output.pushed = r.output.pushed
<1> DEFINE o == ReaderPop(r.output, n)
           t == ReadOutput(r, n)
<1>1. FlaggedStream(o, E) /\ o.pushed = r.output.pushed
  BY ReaderPopGood DEF FlaggedReassembler
<1>2. t = [r EXCEPT !.output = o]
  BY DEF ReadOutput
<1> HIDE DEF o, t
<1>3. t = [output |-> o, held |-> r.held, end_index |-> r.end_index, eof_seen |-> r.eof_seen]
  BY <1>2 DEF FlaggedReassembler
<1>4. FlaggedReassembler(t, E) /\ t.output.pushed = r.output.pushed
  BY <1>1, <1>3 DEF FlaggedReassembler
<1> QED
  BY <1>4 DEF t

-----------------------------------------------------------------------------
(* The sending half *)

(* The fields of a sender. *)
LEMMA FlaggedSenderTypes ==
  ASSUME NEW E, NEW s, FlaggedSender(s, E)
  PROVE  /\ s.isn \in Int /\ s.window_size \in Nat /\ s.next_seqno \in Nat
         /\ s.bytes_in_flight \in Int /\ s.syn_sent \in BOOLEAN
         /\ s.outstanding \in Seq(Segment(E)) /\ Len(s.outstanding) \in Nat
         /\ FlaggedStream(s.input, E)
         /\ s.input.pushed \in Seq(Nat) /\ Len(s.input.pushed) \in Nat /\ s.input.popped \in Nat
         /\ s.input.popped <= Len(s.input.pushed) /\ s.input.error \in E
         /\ BytesBuffered(s.input) \in Nat
         /\ BytesBuffered(s.input) = Len(s.input.pushed) - s.input.popped
<1>1. /\ s.isn \in Int /\ s.window_size \in Nat /\ s.next_seqno \in Nat
      /\ s.bytes_in_flight \in Int /\ s.syn_sent \in BOOLEAN
      /\ s.outstanding \in Seq(Segment(E)) /\ FlaggedStream(s.input, E)
  BY DEF FlaggedSender
<1>2. Len(s.outstanding) \in Nat
  BY <1>1
<1>3. BytesBuffered(s.input) = Len(s.input.pushed) - s.input.popped
  BY DEF BytesBuffered
<1> QED
  BY <1>1, <1>2, <1>3, StreamTypes

(* The numbers that push() computes are natural, and it takes no more than *)
(* is buffered (tcp_sender.cc:13-59).                                      *)
LEMMA FlaggedPushNumbers ==
  ASSUME NEW E, NEW s, FlaggedSender(s, E)
  PROVE  /\ PayloadToSend(s) \in Nat /\ PayloadToSend(s) <= BytesBuffered(s.input)
         /\ LengthToSend(s) \in Nat /\ SegmentsToSend(s) \in Nat
<1>1. /\ s.next_seqno \in Nat /\ s.bytes_in_flight \in Int /\ s.window_size \in Nat
      /\ BytesBuffered(s.input) \in Nat
  BY FlaggedSenderTypes
<1>2. RightEdge(s) \in Int
  BY <1>1 DEF RightEdge, AbsAck, EffectiveWindow
<1>3. Budget(s) \in Nat
  BY <1>1, <1>2 DEF Budget
<1>4. Bit(SendsSyn(s)) \in {0, 1} /\ (Bit(SendsSyn(s)) = 1 => Budget(s) > 0) /\ Bit(SendsFin(s)) \in {0, 1}
  BY DEF Bit, SendsSyn
<1> DEFINE p == PayloadToSend(s)
<1>5. p \in Nat /\ p <= BytesBuffered(s.input)
  <2> DEFINE y == Bit(SendsSyn(s))
             b == Budget(s)
             n == BytesBuffered(s.input)
  <2>1. p = IF n < b - y THEN n ELSE b - y
    BY DEF PayloadToSend, Least
  <2> HIDE DEF y, b, n, p
  <2>2. b \in Nat /\ n \in Nat /\ y \in {0, 1} /\ (y = 1 => b > 0)
    BY <1>1, <1>3, <1>4 DEF b, n, y
  <2>3. b - y \in Nat
    BY <2>2
  <2>4. p \in Nat /\ p <= n
    BY <2>1, <2>2, <2>3
  <2> QED
    BY <2>4 DEF n
<1> HIDE DEF p
<1>6. LengthToSend(s) \in Nat
  BY <1>4, <1>5 DEF LengthToSend, p
<1>7. SegmentsToSend(s) \in Nat
  <2>1. SegmentsToSend(s) \in {0, 1} \/ (p # 0 /\ SegmentsToSend(s) = 1 + ((p - 1) \div MaxPayload))
    BY DEF SegmentsToSend, p
  <2>2. p # 0 => 1 + ((p - 1) \div MaxPayload) \in Nat
    <3> SUFFICES ASSUME p # 0 PROVE 1 + ((p - 1) \div MaxPayload) \in Nat
      OBVIOUS
    <3>1. p \in Nat \ {0} /\ MaxPayload \in Nat \ {0}
      BY <1>5, WindowAssumption
    <3>2. 1 + ((p - 1) \div MaxPayload) \in Nat \ {0}
      BY <3>1, PartsCover
    <3> QED
      BY <3>2
  <2> QED
    BY <2>1, <2>2
<1> QED
  BY <1>5, <1>6, <1>7 DEF p

LEMMA SegmentType ==
  ASSUME NEW E, NEW q \in Int, NEW y \in BOOLEAN, NEW d \in Seq(Nat), NEW f \in BOOLEAN, NEW b \in E
  PROVE  SenderMessage(q, y, d, f, b) \in Segment(E)
BY Zenon DEF SenderMessage, Segment

(* A part of a sequence. *)
LEMMA PartType ==
  ASSUME NEW d \in Seq(Nat), NEW a \in Nat \ {0}, NEW b \in Int, b <= Len(d)
  PROVE  SubSeq(d, a, b) \in Seq(Nat)
<1>1. \A i \in a .. b : d[i] \in Nat
  <2> SUFFICES ASSUME NEW i \in a .. b PROVE d[i] \in Nat
    OBVIOUS
  <2>1. i \in 1 .. Len(d)
    OBVIOUS
  <2> QED
    BY <2>1
<1> QED
  BY <1>1

(* The segments of a push carry the sender's error flag                    *)
(* (tcp_sender.cc:8-73).                                                   *)
LEMMA PushSegmentsGood ==
  ASSUME NEW E, NEW s, FlaggedSender(s, E)
  PROVE  PushSegments(s) \in Seq(Segment(E))
<1> DEFINE N == SegmentsToSend(s)
           P == PayloadToSend(s)
<1>1. /\ s.isn \in Int /\ s.next_seqno \in Nat
      /\ s.input.pushed \in Seq(Nat) /\ Len(s.input.pushed) \in Nat /\ s.input.popped \in Nat
      /\ s.input.popped <= Len(s.input.pushed) /\ s.input.error \in E
      /\ BytesBuffered(s.input) = Len(s.input.pushed) - s.input.popped
  BY FlaggedSenderTypes
<1>2. N \in Nat /\ P \in Nat /\ P <= BytesBuffered(s.input)
  BY FlaggedPushNumbers
<1>3. ASSUME NEW k \in Nat \ {0}
      PROVE  PayloadBefore(s, k) \in Nat /\ PayloadBefore(s, k) <= P
  <2>1. (k - 1) * MaxPayload \in Nat
    BY WindowAssumption
  <2> DEFINE x == (k - 1) * MaxPayload
  <2>2. PayloadBefore(s, k) = IF x < P THEN x ELSE P
    BY DEF PayloadBefore, Least
  <2> HIDE DEF x, P
  <2> QED
    BY <1>2, <2>1, <2>2 DEF x
<1>4. ASSUME NEW k \in 1 .. N
      PROVE  SegmentToSend(s, k) \in Segment(E)
  <2> DEFINE a == PayloadBefore(s, k)
             b == PayloadBefore(s, k + 1)
             q == Wrap(s.next_seqno + (IF k = 1 THEN 0 ELSE Bit(SendsSyn(s))) + a, s.isn)
             d == SubSeq(s.input.pushed, s.input.popped + a + 1, s.input.popped + b)
             y == SendsSyn(s) /\ k = 1
             f == SendsFin(s) /\ k = SegmentsToSend(s)
  <2>1. k \in Nat \ {0} /\ k + 1 \in Nat \ {0}
    BY <1>2
  <2>2. a \in Nat /\ b \in Nat /\ b <= P
    BY <1>3, <2>1
  <2> HIDE DEF a, b
  <2>3. q \in Int
    <3>1. (IF k = 1 THEN 0 ELSE Bit(SendsSyn(s))) \in Nat
      BY DEF Bit
    <3>2. s.next_seqno + (IF k = 1 THEN 0 ELSE Bit(SendsSyn(s))) + a \in Int
      BY <1>1, <2>2, <3>1
    <3> QED
      BY <1>1, <3>2, WrapInt
  <2>4. d \in Seq(Nat)
    <3>1. /\ s.input.popped + a + 1 \in Nat \ {0} /\ s.input.popped + b \in Int
          /\ s.input.popped + b <= Len(s.input.pushed)
      <4> DEFINE i == s.input.popped
                 l == Len(s.input.pushed)
      <4>1. i \in Nat /\ l \in Nat /\ P \in Nat /\ P <= l - i
        BY <1>1, <1>2
      <4> HIDE DEF i, l, P
      <4>2. i + a + 1 \in Nat \ {0} /\ i + b \in Int /\ i + b <= l
        BY ONLY <2>2, <4>1
      <4> QED
        BY <4>2 DEF i, l
    <3> QED
      BY <1>1, <3>1, PartType
  <2>5. y \in BOOLEAN /\ f \in BOOLEAN
    OBVIOUS
  <2>6. SegmentToSend(s, k) = SenderMessage(q, y, d, f, s.input.error)
    BY DEF SegmentToSend, a, b
  <2> HIDE DEF q, d, y, f
  <2> QED
    BY <1>1, <2>3, <2>4, <2>5, <2>6, SegmentType
<1>5. PushSegments(s) = [k \in 1 .. N |-> SegmentToSend(s, k)]
  BY DEF PushSegments
<1> HIDE DEF N
<1> QED
  BY <1>2, <1>4, <1>5

(* push() keeps a sender good, and it is the only one that sends SYN. *)
LEMMA SenderPushGood ==
  ASSUME NEW E, NEW s, FlaggedSender(s, E)
  PROVE  /\ FlaggedSender(SenderPush(s), E)
         /\ SenderPush(s).syn_sent = s.syn_sent \/ SenderPush(s).syn_sent
<1>1. CASE LengthToSend(s) = 0
  BY <1>1 DEF SenderPush
<1>2. CASE LengthToSend(s) # 0
  <2> DEFINE input == ReaderPop(s.input, PayloadToSend(s))
             next == s.next_seqno + LengthToSend(s)
             flight == s.bytes_in_flight + LengthToSend(s)
             fin == s.fin_sent \/ SendsFin(s)
             queue == s.outstanding \o PushSegments(s)
             timer == IF s.timer.running THEN s.timer ELSE TimerStart(s.timer)
             t == SenderPush(s)
  <2>1. /\ s.next_seqno \in Nat /\ s.bytes_in_flight \in Int /\ s.window_size \in Nat
        /\ s.outstanding \in Seq(Segment(E)) /\ FlaggedStream(s.input, E) /\ s.isn \in Int
    BY FlaggedSenderTypes
  <2>2. PayloadToSend(s) \in Nat /\ LengthToSend(s) \in Nat
    BY FlaggedPushNumbers
  <2>3. FlaggedStream(input, E)
    BY <2>1, <2>2, ReaderPopGood
  <2>4. next \in Nat /\ flight \in Int
    BY <2>1, <2>2
  <2>5. queue \in Seq(Segment(E))
    <3>1. PushSegments(s) \in Seq(Segment(E))
      BY PushSegmentsGood
    <3> DEFINE M == Segment(E)
    <3> HIDE DEF M
    <3> QED
      BY <2>1, <3>1, Joined DEF M
  <2>6. t = [s EXCEPT !.input = input, !.next_seqno = next, !.bytes_in_flight = flight,
                      !.syn_sent = TRUE, !.fin_sent = fin, !.outstanding = queue, !.timer = timer]
    BY <1>2 DEF SenderPush
  <2> HIDE DEF input, next, flight, fin, queue, timer, t
  <2>7. t = [input |-> input, isn |-> s.isn, timer |-> timer, window_size |-> s.window_size,
             zero_window |-> s.zero_window, next_seqno |-> next, bytes_in_flight |-> flight,
             syn_sent |-> TRUE, fin_sent |-> fin, outstanding |-> queue]
    BY <2>6 DEF FlaggedSender
  <2>8. FlaggedSender(t, E) /\ t.syn_sent = TRUE
    BY <2>1, <2>3, <2>4, <2>5, <2>7 DEF FlaggedSender
  <2> QED
    BY <2>8 DEF t
<1> QED
  BY <1>1, <1>2

(* Where a segment of the queue begins and ends are integers. *)
LEMMA SegmentNumbers ==
  ASSUME NEW E, NEW s, FlaggedSender(s, E), NEW k \in 1 .. Len(s.outstanding)
  PROVE  SegmentStart(s, k) \in Int /\ SegmentEnd(s, k) \in Int
<1> DEFINE m == s.outstanding[k]
<1>1. s.outstanding \in Seq(Segment(E)) /\ s.isn \in Int /\ s.next_seqno \in Int
  BY FlaggedSenderTypes
<1>2. m \in Segment(E)
  <2> DEFINE M == Segment(E)
  <2> HIDE DEF M
  <2> QED
    BY <1>1, ElementOfSeq DEF M
<1> HIDE DEF m
<1>3. m.seqno \in Int /\ m.payload \in Seq(Nat)
  BY <1>2 DEF Segment
<1>4. Len(m.payload) \in Int
  BY <1>3
<1>5. SequenceLength(m) \in Int
  BY <1>4 DEF SequenceLength
<1>6. Unwrap(m.seqno, s.isn, s.next_seqno) \in Int
  BY <1>1, <1>3, UnwrapInt
<1> QED
  BY <1>5, <1>6 DEF SegmentEnd, SegmentStart, m

(* The segments fully acknowledged are the first few of the queue. *)
LEMMA AckedCountType ==
  ASSUME NEW E, NEW s, FlaggedSender(s, E), NEW a \in Int
  PROVE  AckedCount(s, a) \in 0 .. Len(s.outstanding)
<1> DEFINE T == {k \in 1 .. Len(s.outstanding) : SegmentEnd(s, k) <= a}
           Q(n) == /\ \A k \in 1 .. n : SegmentEnd(s, k) <= a
                   /\ n < Len(s.outstanding) => SegmentEnd(s, n + 1) > a
<1>1. Len(s.outstanding) \in Nat /\ s.outstanding \in Seq(Segment(E)) /\ s.isn \in Int /\ s.next_seqno \in Nat
  BY FlaggedSenderTypes
<1>2. ASSUME NEW k \in 1 .. Len(s.outstanding) PROVE SegmentEnd(s, k) \in Int
  BY SegmentNumbers
<1>3. PICK n \in 0 .. Len(s.outstanding) :
         (\A k \in 1 .. n : k \in T) /\ (n < Len(s.outstanding) => n + 1 \notin T)
  <2> HIDE DEF T
  <2> QED
    BY <1>1, LoopStops
<1>4. Q(n)
  <2>1. \A k \in 1 .. n : SegmentEnd(s, k) <= a
    BY <1>3
  <2>2. ASSUME n < Len(s.outstanding) PROVE SegmentEnd(s, n + 1) > a
    <3>1. n + 1 \in 1 .. Len(s.outstanding)
      BY <1>1, <2>2
    <3>2. SegmentEnd(s, n + 1) \in Int /\ ~(SegmentEnd(s, n + 1) <= a)
      BY <1>2, <1>3, <2>2, <3>1
    <3> QED
      BY <3>2
  <2> QED
    BY <2>1, <2>2
<1>5. AckedCount(s, a) = CHOOSE j \in 0 .. Len(s.outstanding) : Q(j)
  BY DEF AckedCount
<1> HIDE DEF Q
<1> QED
  BY <1>4, <1>5

(* The acknowledged segments leave the queue (tcp_sender.cc:96-115).       *)
LEMMA PopAckedGood ==
  ASSUME NEW E, NEW s, FlaggedSender(s, E), NEW n \in 0 .. Len(s.outstanding)
  PROVE  FlaggedSender(PopAcked(s, n), E) /\ PopAcked(s, n).syn_sent = s.syn_sent
<1>1. CASE n = 0
  BY <1>1 DEF PopAcked
<1>2. CASE n # 0
  <2> DEFINE queue == SubSeq(s.outstanding, n + 1, Len(s.outstanding))
             flight == s.bytes_in_flight - AckedLength(s, n)
             timer == IF n = Len(s.outstanding) THEN TimerStop(TimerResetBackoff(s.timer))
                      ELSE TimerStart(TimerResetBackoff(s.timer))
             t == PopAcked(s, n)
  <2>1. /\ s.next_seqno \in Nat /\ s.bytes_in_flight \in Int /\ s.window_size \in Nat
        /\ s.outstanding \in Seq(Segment(E)) /\ FlaggedStream(s.input, E) /\ s.isn \in Int
        /\ Len(s.outstanding) \in Nat
    BY FlaggedSenderTypes
  <2>2. AckedLength(s, n) \in Int
    <3>1. n \in 1 .. Len(s.outstanding) /\ 1 \in 1 .. Len(s.outstanding)
      BY <1>2, <2>1
    <3>2. SegmentEnd(s, n) \in Int /\ SegmentStart(s, 1) \in Int
      BY <3>1, SegmentNumbers
    <3> QED
      BY <1>2, <3>2 DEF AckedLength
  <2>3. flight \in Int
    BY <2>1, <2>2
  <2>4. queue \in Seq(Segment(E))
    <3> DEFINE M == Segment(E)
               o == s.outstanding
    <3>1. o \in Seq(M)
      BY <2>1
    <3> HIDE DEF M, o
    <3>2. SubSeq(o, n + 1, Len(o)) \in Seq(M)
      <4>1. Len(o) \in Nat /\ n \in 0 .. Len(o)
        BY <3>1 DEF o
      <4>2. \A i \in (n + 1) .. Len(o) : i \in 1 .. Len(o)
        BY <4>1
      <4>3. \A i \in (n + 1) .. Len(o) : o[i] \in M
        BY <3>1, <4>2
      <4> QED
        BY <3>1, <4>1, <4>3
    <3> QED
      BY <3>2 DEF M, o
  <2>5. t = [s EXCEPT !.outstanding = queue, !.bytes_in_flight = flight, !.timer = timer]
    BY <1>2 DEF PopAcked
  <2> HIDE DEF queue, flight, timer, t
  <2>6. t = [input |-> s.input, isn |-> s.isn, timer |-> timer, window_size |-> s.window_size,
             zero_window |-> s.zero_window, next_seqno |-> s.next_seqno, bytes_in_flight |-> flight,
             syn_sent |-> s.syn_sent, fin_sent |-> s.fin_sent, outstanding |-> queue]
    BY <2>5 DEF FlaggedSender
  <2>7. FlaggedSender(t, E) /\ t.syn_sent = s.syn_sent
    BY <2>1, <2>3, <2>4, <2>6 DEF FlaggedSender
  <2> QED
    BY <2>7 DEF t
<1> QED
  BY <1>1, <1>2

(* A message sets the error flag only if its own is set                    *)
(* (tcp_sender.cc:75-116).                                                 *)
LEMMA SenderReceiveGood ==
  ASSUME NEW E \in Flags, NEW s, FlaggedSender(s, E), NEW m \in Answer(E)
  PROVE  FlaggedSender(SenderReceive(s, m), E) /\ SenderReceive(s, m).syn_sent = s.syn_sent
<1> DEFINE updated == [s EXCEPT !.zero_window = (m.window_size = 0), !.window_size = m.window_size]
           a == Unwrap(m.ackno, s.isn, s.next_seqno)
           t == SenderReceive(s, m)
<1>1. m.ackno \in Int /\ m.window_size \in Nat /\ m.RST \in E
  BY DEF Answer
<1>2. /\ s.next_seqno \in Nat /\ s.bytes_in_flight \in Int /\ s.window_size \in Nat
      /\ s.outstanding \in Seq(Segment(E)) /\ FlaggedStream(s.input, E) /\ s.isn \in Int
      /\ s.syn_sent \in BOOLEAN
  BY FlaggedSenderTypes
<1>3. a \in Int
  <2>1. s.next_seqno \in Int
    BY <1>2
  <2> QED
    BY <1>1, <1>2, <2>1, UnwrapInt
<1>4. FlaggedSender(updated, E) /\ updated.syn_sent = s.syn_sent
  <2> DEFINE z == (m.window_size = 0)
             w == m.window_size
  <2> HIDE DEF z, w
  <2>1. updated = [s EXCEPT !.zero_window = z, !.window_size = w]
    BY DEF z, w
  <2>2. w \in Nat
    BY <1>1 DEF w
  <2> HIDE DEF updated
  <2>3. updated = [input |-> s.input, isn |-> s.isn, timer |-> s.timer, window_size |-> w,
                   zero_window |-> z, next_seqno |-> s.next_seqno,
                   bytes_in_flight |-> s.bytes_in_flight, syn_sent |-> s.syn_sent,
                   fin_sent |-> s.fin_sent, outstanding |-> s.outstanding]
    BY <2>1 DEF FlaggedSender
  <2> QED
    BY <1>2, <2>2, <2>3 DEF FlaggedSender
<1>5. CASE m.RST
  <2>1. E = BOOLEAN
    BY <1>1, <1>5, FlagSet
  <2> DEFINE input == SetError(s.input)
             timer == TimerStop(s.timer)
  <2>2. FlaggedStream(input, E)
    BY <1>2, <2>1, SetErrorGood
  <2>3. t = [s EXCEPT !.outstanding = <<>>, !.bytes_in_flight = 0, !.timer = timer, !.input = input]
    BY <1>5 DEF SenderReceive, SenderReset
  <2> HIDE DEF input, timer, t
  <2>4. t = [input |-> input, isn |-> s.isn, timer |-> timer, window_size |-> s.window_size,
             zero_window |-> s.zero_window, next_seqno |-> s.next_seqno, bytes_in_flight |-> 0,
             syn_sent |-> s.syn_sent, fin_sent |-> s.fin_sent, outstanding |-> <<>>]
    BY <2>3 DEF FlaggedSender
  <2>5. <<>> \in Seq(Segment(E)) /\ 0 \in Int
    OBVIOUS
  <2>6. FlaggedSender(t, E) /\ t.syn_sent = s.syn_sent
    BY <1>2, <2>2, <2>4, <2>5 DEF FlaggedSender
  <2> QED
    BY <2>6 DEF t
<1>6. CASE ~m.RST /\ (m.ackno = NoSeqno \/ a > s.next_seqno)
  <2>1. t = updated
    BY <1>6 DEF SenderReceive
  <2> QED
    BY <1>4, <2>1
<1>7. CASE ~m.RST /\ ~(m.ackno = NoSeqno \/ a > s.next_seqno)
  <2>1. t = PopAcked(updated, AckedCount(updated, a))
    BY <1>7 DEF SenderReceive
  <2> HIDE DEF updated, a, t
  <2>2. AckedCount(updated, a) \in 0 .. Len(updated.outstanding)
    BY <1>3, <1>4, AckedCountType
  <2>3. FlaggedSender(t, E) /\ t.syn_sent = s.syn_sent
    BY <1>4, <2>1, <2>2, PopAckedGood
  <2> QED
    BY <2>3 DEF t
<1> QED
  BY <1>5, <1>6, <1>7

(* A retransmission repeats a segment as it is (tcp_sender.cc:118-132).    *)
LEMMA SenderTickGood ==
  ASSUME NEW E, NEW s, FlaggedSender(s, E), NEW ms
  PROVE  /\ FlaggedSender(SenderTick(s, ms), E) /\ SenderTick(s, ms).syn_sent = s.syn_sent
         /\ TickSegments(s, ms) \in Seq(Segment(E))
<1> DEFINE t == SenderTick(s, ms)
<1>1. \E timer : t = [s EXCEPT !.timer = timer]
  BY DEF SenderTick
<1>2. PICK timer : t = [s EXCEPT !.timer = timer]
  BY <1>1
<1> HIDE DEF t
<1>3. t = [input |-> s.input, isn |-> s.isn, timer |-> timer, window_size |-> s.window_size,
           zero_window |-> s.zero_window, next_seqno |-> s.next_seqno,
           bytes_in_flight |-> s.bytes_in_flight, syn_sent |-> s.syn_sent,
           fin_sent |-> s.fin_sent, outstanding |-> s.outstanding]
  BY <1>2 DEF FlaggedSender
<1>4. FlaggedSender(t, E) /\ t.syn_sent = s.syn_sent
  BY <1>3 DEF FlaggedSender
<1>5. TickSegments(s, ms) \in Seq(Segment(E))
  <2> DEFINE M == Segment(E)
             o == s.outstanding
  <2>1. o \in Seq(M)
    BY FlaggedSenderTypes
  <2> HIDE DEF M, o
  <2>2. o # <<>> => <<Head(o)>> \in Seq(M)
    BY <2>1
  <2>3. TickSegments(s, ms) = <<>> \/ (o # <<>> /\ TickSegments(s, ms) = <<Head(o)>>)
    BY DEF TickSegments, Retransmits, o
  <2>4. <<>> \in Seq(M)
    OBVIOUS
  <2>5. TickSegments(s, ms) \in Seq(M)
    BY <2>2, <2>3, <2>4
  <2> QED
    BY <2>5 DEF M
<1> QED
  BY <1>4, <1>5 DEF t

-----------------------------------------------------------------------------
(* One end of the connection *)

(* The two halves of a peer. *)
LEMMA PeerTypes ==
  ASSUME NEW E, NEW p, FlaggedPeer(p, E)
  PROVE  FlaggedSender(p.sender, E) /\ FlaggedReceiver(p.receiver, E) /\ p.sender.syn_sent \in BOOLEAN
<1>1. FlaggedSender(p.sender, E) /\ FlaggedReceiver(p.receiver, E)
  BY DEF FlaggedPeer
<1> QED
  BY <1>1, FlaggedSenderTypes

(* A peer with another sender, another receiver, or both. *)
LEMMA PeerBuilt ==
  ASSUME NEW E, NEW p, NEW s, FlaggedSender(s, E), NEW r, FlaggedReceiver(r, E), NEW n, NEW l, NEW t,
         p = [sender |-> s, receiver |-> r, need_send |-> n,
              linger_after_streams_finish |-> l, since_last_receipt |-> t]
  PROVE  FlaggedPeer(p, E) /\ p.sender = s /\ p.receiver = r
BY DEF FlaggedPeer

(* Every segment takes along what the receiving half says                  *)
(* (tcp_peer.hh:96-100).                                                   *)
LEMMA TransmitGood ==
  ASSUME NEW E \in Flags, NEW p, FlaggedPeer(p, E), NEW segments \in Seq(Segment(E))
  PROVE  /\ FlaggedPeer(Transmit(p, segments).peer, E)
         /\ Transmit(p, segments).peer.sender = p.sender
         /\ Transmit(p, segments).peer.receiver = p.receiver
         /\ Transmit(p, segments).messages \in Seq(Message(E))
<1> DEFINE answer == ReceiverSend(p.receiver)
           need == p.need_send /\ segments = <<>>
           q == [p EXCEPT !.need_send = need]
           ms == [k \in DOMAIN segments |-> TCPMessage(segments[k], answer)]
<1>1. FlaggedSender(p.sender, E) /\ FlaggedReceiver(p.receiver, E)
  BY PeerTypes
<1>2. answer \in Answer(E)
  BY <1>1, ReceiverSendGood
<1>3. Transmit(p, segments) = [peer |-> q, messages |-> ms]
  BY DEF Transmit, Result
<1> HIDE DEF answer, need
<1>4. q = [sender |-> p.sender, receiver |-> p.receiver, need_send |-> need,
           linger_after_streams_finish |-> p.linger_after_streams_finish,
           since_last_receipt |-> p.since_last_receipt]
  BY DEF FlaggedPeer
<1> HIDE DEF q
<1>5. FlaggedPeer(q, E) /\ q.sender = p.sender /\ q.receiver = p.receiver
  BY <1>1, <1>4, PeerBuilt
<1>6. ms \in Seq(Message(E))
  <2> DEFINE M == Segment(E)
             A == Answer(E)
             W == Message(E)
  <2>1. segments \in Seq(M) /\ answer \in A
    BY <1>2
  <2>2. \A x \in M : TCPMessage(x, answer) \in W
    BY <2>1 DEF TCPMessage, Message
  <2> HIDE DEF M, A, W
  <2>3. Len(segments) \in Nat /\ DOMAIN segments = 1 .. Len(segments)
    BY <2>1
  <2>4. \A k \in 1 .. Len(segments) : TCPMessage(segments[k], answer) \in W
    BY <2>1, <2>2
  <2> DEFINE L == Len(segments)
             g(k) == TCPMessage(segments[k], answer)
  <2>5. ms = [k \in 1 .. L |-> g(k)] /\ L \in Nat /\ \A k \in 1 .. L : g(k) \in W
    BY <2>3, <2>4
  <2> HIDE DEF L, g, ms
  <2>6. ms \in Seq(W)
    BY <2>5
  <2> QED
    BY <2>6 DEF W
<1> HIDE DEF ms
<1>7. Transmit(p, segments).peer = q /\ Transmit(p, segments).messages = ms
  BY <1>3
<1> QED
  BY <1>5, <1>6, <1>7

(* TCPPeer::push *)
LEMMA PeerPushGood ==
  ASSUME NEW E \in Flags, NEW p, FlaggedPeer(p, E)
  PROVE  /\ FlaggedPeer(PeerPush(p).peer, E)
         /\ PeerPush(p).messages \in Seq(Message(E))
         /\ PeerPush(p).peer.sender = SenderPush(p.sender) /\ PeerPush(p).peer.receiver = p.receiver
         /\ p.sender.syn_sent => PeerPush(p).peer.sender.syn_sent
<1> DEFINE s == SenderPush(p.sender)
           q == [p EXCEPT !.sender = s]
           segments == PushSegments(p.sender)
<1>1. FlaggedSender(p.sender, E) /\ FlaggedReceiver(p.receiver, E) /\ p.sender.syn_sent \in BOOLEAN
  BY PeerTypes
<1>2. FlaggedSender(s, E) /\ (s.syn_sent = p.sender.syn_sent \/ s.syn_sent)
  BY <1>1, SenderPushGood
<1>3. segments \in Seq(Segment(E))
  BY <1>1, PushSegmentsGood
<1>4. PeerPush(p) = Transmit(q, segments)
  BY DEF PeerPush
<1> HIDE DEF s, segments
<1>5. q = [sender |-> s, receiver |-> p.receiver, need_send |-> p.need_send,
           linger_after_streams_finish |-> p.linger_after_streams_finish,
           since_last_receipt |-> p.since_last_receipt]
  BY DEF FlaggedPeer
<1> HIDE DEF q
<1>6. FlaggedPeer(q, E) /\ q.sender = s /\ q.receiver = p.receiver
  BY <1>1, <1>2, <1>5, PeerBuilt
<1>7. /\ FlaggedPeer(PeerPush(p).peer, E) /\ PeerPush(p).peer.sender = s
      /\ PeerPush(p).messages \in Seq(Message(E)) /\ PeerPush(p).peer.receiver = p.receiver
  BY <1>3, <1>4, <1>6, TransmitGood
<1>8. p.sender.syn_sent => s.syn_sent
  BY <1>2
<1>9. p.sender.syn_sent => PeerPush(p).peer.sender.syn_sent
  BY <1>7, <1>8
<1> QED
  BY <1>7, <1>9 DEF s

(* TCPPeer::tick *)
LEMMA PeerTickGood ==
  ASSUME NEW E \in Flags, NEW p, FlaggedPeer(p, E), NEW t
  PROVE  /\ FlaggedPeer(PeerTick(p, t).peer, E)
         /\ PeerTick(p, t).messages \in Seq(Message(E))
         /\ PeerTick(p, t).peer.sender.syn_sent = p.sender.syn_sent
         /\ PeerTick(p, t).peer.sender = SenderTick(p.sender, t)
         /\ PeerTick(p, t).peer.receiver = p.receiver
<1> DEFINE s == SenderTick(p.sender, t)
           since == Least(p.since_last_receipt + t, LingerTime)
           q == [p EXCEPT !.sender = s, !.since_last_receipt = since]
           segments == TickSegments(p.sender, t)
<1>1. FlaggedSender(p.sender, E) /\ FlaggedReceiver(p.receiver, E)
  BY PeerTypes
<1>2. FlaggedSender(s, E) /\ s.syn_sent = p.sender.syn_sent /\ segments \in Seq(Segment(E))
  BY <1>1, SenderTickGood
<1>3. PeerTick(p, t) = Transmit(q, segments)
  BY DEF PeerTick
<1> HIDE DEF s, segments, since
<1>a. q = [p EXCEPT !.sender = s, !.since_last_receipt = since]
  OBVIOUS
<1> HIDE DEF q
<1>4. q = [sender |-> s, receiver |-> p.receiver, need_send |-> p.need_send,
           linger_after_streams_finish |-> p.linger_after_streams_finish,
           since_last_receipt |-> since]
  BY <1>a DEF FlaggedPeer
<1>5. FlaggedPeer(q, E) /\ q.sender = s /\ q.receiver = p.receiver
  BY <1>1, <1>2, <1>4, PeerBuilt
<1>6. /\ FlaggedPeer(PeerTick(p, t).peer, E) /\ PeerTick(p, t).peer.sender = s
      /\ PeerTick(p, t).messages \in Seq(Message(E)) /\ PeerTick(p, t).peer.receiver = p.receiver
  BY <1>2, <1>3, <1>5, TransmitGood
<1> QED
  BY <1>2, <1>6 DEF s

(* The reply of receive() changes neither half. *)
LEMMA ReplyGood ==
  ASSUME NEW E \in Flags, NEW p, FlaggedPeer(p, E), NEW ms \in Seq(Message(E)), NEW result,
         result = [peer |-> p, messages |-> ms]
  PROVE  /\ FlaggedPeer(Reply(result).peer, E)
         /\ Reply(result).messages \in Seq(Message(E))
         /\ Reply(result).peer.sender = p.sender /\ Reply(result).peer.receiver = p.receiver
<1>0. result.peer = p /\ result.messages = ms
  OBVIOUS
<1>1. CASE ~p.need_send
  <2>1. Reply(result) = result
    BY <1>0, <1>1 DEF Reply
  <2> QED
    BY <1>0, <2>1
<1>2. CASE p.need_send
  <2> DEFINE e == MakeEmptyMessage(p.sender)
             reply == Transmit(p, <<e>>)
             W == Message(E)
             M == Segment(E)
  <2>1. e \in M
    <3>1. /\ p.sender.next_seqno \in Int /\ p.sender.isn \in Int /\ p.sender.input.error \in E
      BY PeerTypes, FlaggedSenderTypes
    <3>2. Wrap(p.sender.next_seqno, p.sender.isn) \in Int
      BY <3>1, WrapInt
    <3>3. <<>> \in Seq(Nat) /\ FALSE \in BOOLEAN
      OBVIOUS
    <3> QED
      BY <3>1, <3>2, <3>3, SegmentType DEF MakeEmptyMessage
  <2> HIDE DEF e
  <2>2. <<e>> \in Seq(M)
    <3> HIDE DEF M
    <3> QED
      BY <2>1
  <2>3. /\ FlaggedPeer(reply.peer, E) /\ reply.peer.sender = p.sender
        /\ reply.peer.receiver = p.receiver
        /\ reply.messages \in Seq(W)
    BY <2>2, TransmitGood
  <2>4. Reply(result) = [peer |-> reply.peer, messages |-> ms \o reply.messages]
    BY <1>0, <1>2 DEF Reply, Result, e
  <2> HIDE DEF reply
  <2>5. ms \o reply.messages \in Seq(W)
    <3>1. ms \in Seq(W)
      OBVIOUS
    <3> HIDE DEF W
    <3> QED
      BY <2>3, <3>1, Joined
  <2>6. Reply(result).peer = reply.peer /\ Reply(result).messages = ms \o reply.messages
    BY <2>4
  <2> QED
    BY <2>3, <2>5, <2>6
<1> QED
  BY <1>1, <1>2

(* Nor does deciding not to linger. *)
LEMMA DropLingerGood ==
  ASSUME NEW E, NEW p, FlaggedPeer(p, E)
  PROVE  /\ FlaggedPeer(DropLinger(p), E)
         /\ DropLinger(p).sender = p.sender /\ DropLinger(p).receiver = p.receiver
<1> DEFINE no == FALSE
           q == [p EXCEPT !.linger_after_streams_finish = no]
<1>1. DropLinger(p) = p \/ DropLinger(p) = q
  BY DEF DropLinger
<1> HIDE DEF no
<1>a. q = [p EXCEPT !.linger_after_streams_finish = no]
  OBVIOUS
<1> HIDE DEF q
<1>2. q = [sender |-> p.sender, receiver |-> p.receiver, need_send |-> p.need_send,
           linger_after_streams_finish |-> no, since_last_receipt |-> p.since_last_receipt]
  BY <1>a DEF FlaggedPeer
<1>3. FlaggedPeer(q, E) /\ q.sender = p.sender /\ q.receiver = p.receiver
  BY <1>2, PeerTypes, PeerBuilt
<1> QED
  BY <1>1, <1>3

(* TCPPeer::receive: a segment without RST breaks nothing                  *)
(* (tcp_peer.hh:50-83).                                                    *)
LEMMA PeerReceiveGood ==
  ASSUME NEW E \in Flags, NEW p, FlaggedPeer(p, E), NEW m \in Message(E)
  PROVE  /\ FlaggedPeer(PeerReceive(p, m).peer, E)
         /\ PeerReceive(p, m).messages \in Seq(Message(E))
         /\ p.sender.syn_sent => PeerReceive(p, m).peer.sender.syn_sent
         /\ Active(p) => PeerReceive(p, m).peer.sender = SenderPush(SenderReceive(p.sender, m.receiver))
<1>1. CASE ~Active(p)
  <2>1. PeerReceive(p, m) = [peer |-> p, messages |-> <<>>]
    BY <1>1 DEF PeerReceive, Result
  <2>2. PeerReceive(p, m).peer = p /\ PeerReceive(p, m).messages = <<>>
    BY <2>1
  <2>3. <<>> \in Seq(Message(E))
    OBVIOUS
  <2> QED
    BY <1>1, <2>2, <2>3
<1>2. CASE Active(p)
  <2> DEFINE s == SenderReceive(p.sender, m.receiver)
             r == ReceiverReceive(p.receiver, m.sender)
             need == p.need_send \/ CallsForReply(p, m)
             received == [p EXCEPT !.since_last_receipt = 0, !.need_send = need,
                                   !.receiver = r, !.sender = s]
             pushed == PeerPush(received)
             result == Reply(pushed)
  <2>1. m.sender \in Segment(E) /\ m.receiver \in Answer(E)
    BY DEF Message
  <2>2. FlaggedSender(p.sender, E) /\ FlaggedReceiver(p.receiver, E) /\ p.sender.syn_sent \in BOOLEAN
    BY PeerTypes
  <2>3. FlaggedReceiver(r, E)
    BY <2>1, <2>2, ReceiverReceiveGood
  <2>4. FlaggedSender(s, E) /\ s.syn_sent = p.sender.syn_sent
    BY <2>1, <2>2, SenderReceiveGood
  <2>5. PeerReceive(p, m) = [peer |-> DropLinger(result.peer), messages |-> result.messages]
    BY <1>2 DEF PeerReceive, Result
  <2> HIDE DEF s, r, need
  <2>a. received = [p EXCEPT !.since_last_receipt = 0, !.need_send = need, !.receiver = r, !.sender = s]
    OBVIOUS
  <2> HIDE DEF received
  <2>6. received = [sender |-> s, receiver |-> r, need_send |-> need,
                    linger_after_streams_finish |-> p.linger_after_streams_finish,
                    since_last_receipt |-> 0]
    BY <2>a DEF FlaggedPeer
  <2>7. FlaggedPeer(received, E) /\ received.sender = s
    BY <2>3, <2>4, <2>6, PeerBuilt
  <2>8. /\ FlaggedPeer(pushed.peer, E) /\ pushed.messages \in Seq(Message(E))
        /\ pushed.peer.sender = SenderPush(s) /\ (s.syn_sent => pushed.peer.sender.syn_sent)
    BY <2>7, PeerPushGood
  <2>9. pushed = [peer |-> pushed.peer, messages |-> pushed.messages]
    BY DEF PeerPush, Transmit, Result
  <2> HIDE DEF pushed
  <2>10. /\ FlaggedPeer(result.peer, E) /\ result.messages \in Seq(Message(E))
         /\ result.peer.sender = pushed.peer.sender
    BY <2>8, <2>9, ReplyGood
  <2> HIDE DEF result
  <2>11. FlaggedPeer(DropLinger(result.peer), E) /\ DropLinger(result.peer).sender = result.peer.sender
    BY <2>10, DropLingerGood
  <2>12. PeerReceive(p, m).peer = DropLinger(result.peer) /\ PeerReceive(p, m).messages = result.messages
    BY <2>5
  <2>13. PeerReceive(p, m).peer.sender = SenderPush(s)
    BY <2>8, <2>10, <2>11, <2>12
  <2>14. p.sender.syn_sent => SenderPush(s).syn_sent
    BY <2>4, <2>8
  <2>15. p.sender.syn_sent => PeerReceive(p, m).peer.sender.syn_sent
    BY <2>13, <2>14
  <2> QED
    BY <2>10, <2>11, <2>12, <2>13, <2>15 DEF s
<1> QED
  BY <1>1, <1>2

(* The first push of a sender sends SYN (tcp_sender.cc:22-25).             *)
LEMMA FirstPush ==
  ASSUME NEW s, s.next_seqno = 0, s.bytes_in_flight = 0, s.window_size = 1, ~s.zero_window,
         ~s.syn_sent, ~s.fin_sent, BytesBuffered(s.input) = 0, ~s.input.closed,
         s = [input |-> s.input, isn |-> s.isn, timer |-> s.timer, window_size |-> s.window_size,
              zero_window |-> s.zero_window, next_seqno |-> s.next_seqno,
              bytes_in_flight |-> s.bytes_in_flight, syn_sent |-> s.syn_sent,
              fin_sent |-> s.fin_sent, outstanding |-> s.outstanding]
  PROVE  SenderPush(s).syn_sent
<1>1. RightEdge(s) = 1
  BY DEF RightEdge, AbsAck, EffectiveWindow
<1>2. Budget(s) = 1
  BY <1>1 DEF Budget
<1>3. SendsSyn(s) /\ Bit(SendsSyn(s)) = 1
  BY <1>2 DEF SendsSyn, Bit
<1>4. PayloadToSend(s) = 0
  <2> DEFINE y == Bit(SendsSyn(s))
             b == Budget(s)
             n == BytesBuffered(s.input)
  <2>1. PayloadToSend(s) = IF n < b - y THEN n ELSE b - y
    BY DEF PayloadToSend, Least
  <2>2. y = 1 /\ b = 1 /\ n = 0
    BY <1>2, <1>3
  <2> HIDE DEF y, b, n
  <2> QED
    BY <2>1, <2>2
<1>5. ~SendsFin(s) /\ Bit(SendsFin(s)) = 0
  BY DEF SendsFin, Bit
<1>6. LengthToSend(s) # 0
  <2> DEFINE y == Bit(SendsSyn(s))
             f == Bit(SendsFin(s))
             n == PayloadToSend(s)
  <2>1. LengthToSend(s) = y + n + f
    BY DEF LengthToSend
  <2>2. y = 1 /\ n = 0 /\ f = 0
    BY <1>3, <1>4, <1>5
  <2> HIDE DEF y, n, f
  <2> QED
    BY <2>1, <2>2
<1> QED
  BY <1>6 DEF SenderPush

-----------------------------------------------------------------------------
(* The network *)

(* The wire sets both flags of a segment if one is set, and no other       *)
(* (tcp_segment.cc).                                                       *)
LEMMA WireGood ==
  ASSUME NEW E \in Flags, NEW m \in Message(E)
  PROVE  OverTheWire(m) \in Message(E)
<1> DEFINE reset == m.sender.RST \/ m.receiver.RST
           s == [m.sender EXCEPT !.RST = reset]
           r == [m.receiver EXCEPT !.RST = reset]
           t == OverTheWire(m)
<1>1. /\ m.sender \in Segment(E) /\ m.receiver \in Answer(E)
      /\ m = [sender |-> m.sender, receiver |-> m.receiver]
  BY DEF Message
<1>2. m.sender.RST \in E /\ m.receiver.RST \in E
  BY <1>1 DEF Segment, Answer
<1>3. reset \in E
  BY <1>2 DEF Flags
<1>4. t = [m EXCEPT !.sender = s, !.receiver = r]
  BY <1>1 DEF OverTheWire
<1> HIDE DEF reset
<1>5. s \in Segment(E)
  BY <1>1, <1>3 DEF Segment
<1>6. r \in Answer(E)
  BY <1>1, <1>3 DEF Answer
<1> HIDE DEF s, r, t
<1>7. t = [sender |-> s, receiver |-> r]
  BY <1>1, <1>4
<1>8. t \in Message(E)
  BY <1>5, <1>6, <1>7 DEF Message
<1> QED
  BY <1>8 DEF t

(* The wire keeps to the set of flags. *)
LEMMA CarryGood ==
  ASSUME NEW E \in Flags, NEW old, old \subseteq Message(E), NEW ms \in Seq(Message(E))
  PROVE  Carry(old, ms) \subseteq Message(E)
<1> DEFINE W == Message(E)
           new == [k \in DOMAIN ms |-> OverTheWire(ms[k])]
           first(n) == old \cup {new[k] : k \in 1 .. n}
           fits == {n \in DOMAIN ms : Cardinality(first(n)) <= sc.under_way}
<1>1. Carry(old, ms) = old \cup {new[k] : k \in fits}
  BY DEF Carry
<1>2. \A k \in DOMAIN ms : ms[k] \in W
  <2>1. ms \in Seq(W)
    OBVIOUS
  <2> HIDE DEF W
  <2> QED
    BY <2>1
<1>3. \A k \in fits : k \in DOMAIN ms
  OBVIOUS
<1> HIDE DEF fits
<1>4. \A k \in fits : new[k] = OverTheWire(ms[k])
  BY <1>3
<1> HIDE DEF new
<1>5. \A k \in fits : new[k] \in Message(E)
  BY <1>2, <1>3, <1>4, WireGood
<1> QED
  BY <1>1, <1>5

(* Without a message nothing is added. *)
LEMMA CarryNothing ==
  ASSUME NEW old
  PROVE  Carry(old, <<>>) = old
<1> DEFINE new == [k \in DOMAIN <<>> |-> OverTheWire(<<>>[k])]
           first(n) == old \cup {new[k] : k \in 1 .. n}
           fits == {n \in DOMAIN <<>> : Cardinality(first(n)) <= sc.under_way}
<1>1. Carry(old, <<>>) = old \cup {new[k] : k \in fits}
  BY DEF Carry
<1>2. fits = {}
  OBVIOUS
<1> HIDE DEF new, fits
<1> QED
  BY <1>1, <1>2

-----------------------------------------------------------------------------
(* The connection *)

(* Both peers and the segments under way, with error flags in E. *)
FlaggedState(ps, nt, E) ==
    /\ ps = [side \in Sides |-> ps[side]] /\ nt = [side \in Sides |-> nt[side]]
    /\ \A side \in Sides : FlaggedPeer(ps[side], E) /\ nt[side] \subseteq Message(E)

(* The values of error flags so far. *)
Errors == IF faults = 0 THEN {FALSE} ELSE BOOLEAN

NewPeers(c) ==
    [side \in Sides |-> NewPeer(IF side = "client" THEN ClientISN ELSE ServerISN,
                                SendCapacity, c.recv_capacity, RTO)]

(* Nothing happens before the client's SYN, and the server listens. *)
Untouched(c, ps, nt, lsn) == ps = NewPeers(c) /\ nt = [side \in Sides |-> {}] /\ lsn = TRUE

ConnectionInv ==
    /\ sc \in Scenarios /\ faults \in Nat
    /\ FlaggedState(peers, net, Errors)
    /\ ~peers["client"].sender.syn_sent => Untouched(sc, peers, net, listening)

(* The set of flags of the current state. *)
LEMMA ErrorsAreFlags == Errors \in Flags
BY DEF Errors, Flags

(* One peer becomes the result of an operation. *)
LEMMA ApplyGood ==
  ASSUME NEW E \in Flags, NEW base, FlaggedState(peers, base, E), NEW side \in Sides,
         NEW p, FlaggedPeer(p, E), NEW ms \in Seq(Message(E)), NEW result,
         result.peer = p, result.messages = ms, Apply(side, result, base)
  PROVE  /\ FlaggedState(peers', net', E) /\ peers'[side] = p /\ peers'[Other(side)] = peers[Other(side)]
         /\ net'[side] = base[side] /\ (ms = <<>> => net'[Other(side)] = base[Other(side)])
<1> DEFINE o == Other(side)
           c == Carry(base[o], ms)
<1>1. o \in Sides /\ o # side /\ Sides = {side, o}
  BY DEF Sides, Other
<1>2. /\ peers = [x \in Sides |-> peers[x]] /\ base = [x \in Sides |-> base[x]]
      /\ \A x \in Sides : FlaggedPeer(peers[x], E) /\ base[x] \subseteq Message(E)
  BY DEF FlaggedState
<1>3. c \subseteq Message(E)
  BY <1>1, <1>2, CarryGood
<1>4. peers' = [peers EXCEPT ![side] = p] /\ net' = [base EXCEPT ![o] = c]
  BY DEF Apply
<1> HIDE DEF o, c
<1>5. /\ peers' = [x \in Sides |-> peers'[x]] /\ net' = [x \in Sides |-> net'[x]]
      /\ peers'[side] = p /\ peers'[o] = peers[o] /\ net'[o] = c /\ net'[side] = base[side]
  BY <1>1, <1>2, <1>4
<1>6. \A x \in Sides : FlaggedPeer(peers'[x], E) /\ net'[x] \subseteq Message(E)
  BY <1>1, <1>2, <1>3, <1>5
<1>7. ms = <<>> => c = base[o]
  BY CarryNothing DEF c
<1> QED
  BY <1>5, <1>6, <1>7 DEF FlaggedState, o

(* What is good without errors is good with them. *)
LEMMA SegmentWeaker ==
  ASSUME NEW E \in Flags
  PROVE  Segment(E) \subseteq Segment(BOOLEAN) /\ Answer(E) \subseteq Answer(BOOLEAN)
         /\ Message(E) \subseteq Message(BOOLEAN)
<1>1. E \subseteq BOOLEAN
  BY DEF Flags
<1>2. Segment(E) \subseteq Segment(BOOLEAN)
  BY <1>1 DEF Segment
<1>3. Answer(E) \subseteq Answer(BOOLEAN)
  BY <1>1 DEF Answer
<1>4. Message(E) \subseteq Message(BOOLEAN)
  BY <1>2, <1>3 DEF Message
<1> QED
  BY <1>2, <1>3, <1>4

(* What keeps to a set of flags keeps to a larger one. *)
LEMMA PeerWeaker ==
  ASSUME NEW E \in Flags, NEW p, FlaggedPeer(p, E)
  PROVE  FlaggedPeer(p, BOOLEAN)
<1>1. FlaggedSender(p.sender, BOOLEAN)
  <2> DEFINE M == Segment(E)
             B == Segment(BOOLEAN)
             o == p.sender.outstanding
  <2>1. o \in Seq(M) /\ M \subseteq B
    BY PeerTypes, FlaggedSenderTypes, SegmentWeaker
  <2>2. o \in Seq(B)
    <3> HIDE DEF M, B, o
    <3>1. Len(o) \in Nat /\ o = [k \in 1 .. Len(o) |-> o[k]] /\ \A k \in 1 .. Len(o) : o[k] \in B
      BY <2>1
    <3> QED
      BY <3>1
  <2>3. FlaggedStream(p.sender.input, BOOLEAN)
    BY PeerTypes, FlaggedSenderTypes, StreamWeaker
  <2> QED
    BY <2>2, <2>3 DEF FlaggedPeer, FlaggedSender
<1>2. FlaggedReceiver(p.receiver, BOOLEAN)
  BY StreamWeaker DEF FlaggedPeer, FlaggedReceiver, FlaggedReassembler
<1> QED
  BY <1>1, <1>2 DEF FlaggedPeer

LEMMA StateWeaker ==
  ASSUME NEW E \in Flags, NEW ps, NEW nt, FlaggedState(ps, nt, E)
  PROVE  FlaggedState(ps, nt, BOOLEAN)
<1>1. \A side \in Sides : FlaggedPeer(ps[side], BOOLEAN) /\ nt[side] \subseteq Message(BOOLEAN)
  BY PeerWeaker, SegmentWeaker DEF FlaggedState
<1> QED
  BY <1>1 DEF FlaggedState

-----------------------------------------------------------------------------
(* The first state *)

(* A new peer has no flag set. *)
LEMMA NewPeerGood ==
  ASSUME NEW E \in Flags, NEW isn \in Int, NEW capacity \in Nat
  PROVE  LET p == NewPeer(isn, SendCapacity, capacity, RTO)
         IN  /\ FlaggedPeer(p, E)
             /\ p.sender = NewSender(SendCapacity, isn, RTO) /\ p.receiver = NewReceiver(capacity)
<1> DEFINE s == NewSender(SendCapacity, isn, RTO)
           r == NewReceiver(capacity)
           p == NewPeer(isn, SendCapacity, capacity, RTO)
<1>1. FlaggedStream(NewStream(SendCapacity), E) /\ FlaggedStream(NewStream(capacity), E)
  BY NewStreamGood, ConnectionAssumption
<1>2. FlaggedSender(s, E)
  <2> DEFINE i == NewStream(SendCapacity)
             t == NewTimer(RTO)
  <2>1. s = [input |-> i, isn |-> isn, timer |-> t, window_size |-> 1, zero_window |-> FALSE,
             next_seqno |-> 0, bytes_in_flight |-> 0, syn_sent |-> FALSE, fin_sent |-> FALSE,
             outstanding |-> <<>>]
    BY DEF NewSender
  <2>2. <<>> \in Seq(Segment(E))
    OBVIOUS
  <2> HIDE DEF s, i, t
  <2> QED
    BY <1>1, <2>1, <2>2 DEF FlaggedSender, i
<1>3. FlaggedReceiver(r, E)
  <2> DEFINE o == NewStream(capacity)
             a == NewReassembler(capacity)
  <2>1. a = [output |-> o, held |-> <<>>, end_index |-> 0, eof_seen |-> FALSE] /\ FlaggedStream(o, E)
    BY <1>1 DEF NewReassembler
  <2>2. FiniteHeld(<<>>)
    BY FS_EmptySet DEF FiniteHeld
  <2>3. r = [reassembler |-> a, isn |-> NoSeqno] /\ NoSeqno \in Int
    BY DEF NewReceiver, NoSeqno
  <2> HIDE DEF o, a, r
  <2>4. FlaggedReassembler(a, E)
    BY <2>1, <2>2 DEF FlaggedReassembler
  <2> QED
    BY <2>3, <2>4 DEF FlaggedReceiver
<1>4. p = [sender |-> s, receiver |-> r, need_send |-> FALSE,
           linger_after_streams_finish |-> TRUE, since_last_receipt |-> 0]
  BY DEF NewPeer
<1> HIDE DEF s, r, p
<1>5. FlaggedPeer(p, E) /\ p.sender = s /\ p.receiver = r
  <2> DEFINE no == FALSE
             yes == TRUE
  <2>1. p = [sender |-> s, receiver |-> r, need_send |-> no,
             linger_after_streams_finish |-> yes, since_last_receipt |-> 0]
    BY <1>4
  <2> HIDE DEF no, yes
  <2> QED
    BY <1>2, <1>3, <2>1, PeerBuilt
<1> QED
  BY <1>5 DEF p, s, r

(* What a peer is that nobody has called. *)
LEMMA NewPeersFacts ==
  ASSUME NEW c \in Scenarios, NEW side \in Sides
  PROVE  LET p == NewPeers(c)[side]
         IN  /\ FlaggedPeer(p, {FALSE})
             /\ p.sender.next_seqno = 0 /\ p.sender.bytes_in_flight = 0 /\ p.sender.window_size = 1
             /\ ~p.sender.zero_window /\ ~p.sender.syn_sent /\ ~p.sender.fin_sent
             /\ p.sender.input = NewStream(SendCapacity)
             /\ p.receiver.isn = NoSeqno
             /\ PeerInbound(p) = NewStream(c.recv_capacity)
<1> DEFINE isn == IF side = "client" THEN ClientISN ELSE ServerISN
           cap == c.recv_capacity
           p == NewPeers(c)[side]
<1>1. isn \in Int /\ cap \in Nat /\ {FALSE} \in Flags
  BY ConnectionAssumption, WidthAssumption DEF Seqno, Flags
<1>2. p = NewPeer(isn, SendCapacity, cap, RTO)
  BY DEF NewPeers
<1> HIDE DEF isn, cap, p
<1>3. /\ FlaggedPeer(p, {FALSE}) /\ p.sender = NewSender(SendCapacity, isn, RTO)
      /\ p.receiver = NewReceiver(cap)
  BY <1>1, <1>2, NewPeerGood
<1>4. /\ p.sender.next_seqno = 0 /\ p.sender.bytes_in_flight = 0 /\ p.sender.window_size = 1
      /\ ~p.sender.zero_window /\ ~p.sender.syn_sent /\ ~p.sender.fin_sent
      /\ p.sender.input = NewStream(SendCapacity)
  BY <1>3 DEF NewSender
<1>5. p.receiver.isn = NoSeqno /\ PeerInbound(p) = NewStream(cap)
  BY <1>3 DEF NewReceiver, NewReassembler, PeerInbound, Inbound
<1> QED
  BY <1>3, <1>4, <1>5 DEF p, cap

LEMMA InitGood == Init => ConnectionInv
<1> SUFFICES ASSUME Init PROVE ConnectionInv
  OBVIOUS
<1>1. /\ sc \in Scenarios /\ faults = 0 /\ peers = NewPeers(sc) /\ net = [side \in Sides |-> {}]
      /\ listening = TRUE
  BY DEF Init, NewPeers
<1>2. Errors = {FALSE}
  BY <1>1 DEF Errors
<1>3. FlaggedState(peers, net, {FALSE})
  <2>1. \A side \in Sides : FlaggedPeer(peers[side], {FALSE})
    BY <1>1, NewPeersFacts
  <2>2. peers = [side \in Sides |-> peers[side]]
    BY <1>1 DEF NewPeers
  <2>3. net = [side \in Sides |-> net[side]] /\ \A side \in Sides : net[side] \subseteq Message({FALSE})
    BY <1>1
  <2> QED
    BY <2>1, <2>2, <2>3 DEF FlaggedState
<1> QED
  BY <1>1, <1>2, <1>3 DEF ConnectionInv, Untouched

-----------------------------------------------------------------------------
(* The steps *)

(* Peer x is as it was, or has sent SYN if it had. *)
KeepsSyn == \A x \in Sides : peers[x].sender.syn_sent => peers'[x].sender.syn_sent

(* A segment arrives: an active peer answers, any other is left alone. *)
LEMMA ArriveGood ==
  ASSUME NEW E \in Flags, NEW base, FlaggedState(peers, base, E), NEW side \in Sides,
         NEW m \in Message(E), Arrive(side, m, base)
  PROVE  /\ FlaggedState(peers', net', E) /\ KeepsSyn
         /\ \A x \in Sides : Broken(peers[x]) => peers'[x] = peers[x] /\ net'[Other(x)] = base[Other(x)]
<1> DEFINE p == peers[side]
           result == PeerReceive(p, m)
<1>1. CASE Discards(side, m)
  <2>1. peers' = peers /\ net' = base
    BY <1>1 DEF Arrive
  <2> QED
    BY <2>1 DEF KeepsSyn
<1>2. CASE ~Discards(side, m)
  <2>1. Apply(side, result, base)
    BY <1>2 DEF Arrive
  <2>2. FlaggedPeer(p, E)
    BY DEF FlaggedState
  <2>3. /\ FlaggedPeer(result.peer, E) /\ result.messages \in Seq(Message(E))
        /\ p.sender.syn_sent => result.peer.sender.syn_sent
    BY <2>2, PeerReceiveGood
  <2>4. Broken(p) => result.peer = p /\ result.messages = <<>>
    BY DEF Broken, PeerReceive, Active, Result
  <2> HIDE DEF result, p
  <2>5. /\ FlaggedState(peers', net', E) /\ peers'[side] = result.peer
        /\ peers'[Other(side)] = peers[Other(side)] /\ net'[side] = base[side]
        /\ result.messages = <<>> => net'[Other(side)] = base[Other(side)]
    BY <2>1, <2>3, ApplyGood
  <2>6. \A x \in Sides : x = side \/ (x = Other(side) /\ Other(x) = side)
    BY DEF Sides, Other
  <2>7. KeepsSyn
    BY <2>3, <2>5, <2>6 DEF KeepsSyn, p
  <2>8. \A x \in Sides : Broken(peers[x]) => peers'[x] = peers[x] /\ net'[Other(x)] = base[Other(x)]
    BY <2>4, <2>5, <2>6 DEF p
  <2> QED
    BY <2>5, <2>7, <2>8
<1> QED
  BY <1>1, <1>2

(* A broken peer neither sends nor accepts anything in this step. *)
Silent ==
    \A side \in Sides :
        Broken(peers[side]) =>
            /\ net'[Other(side)] \subseteq net[Other(side)]
            /\ peers'[side].sender.next_seqno = peers[side].sender.next_seqno
            /\ peers'[side].sender.outstanding = peers[side].sender.outstanding
            /\ PeerInbound(peers'[side]).pushed = PeerInbound(peers[side]).pushed

(* What every step does once the client has sent its SYN. *)
GoodStep ==
    /\ sc' = sc /\ faults' \in Nat
    /\ FlaggedState(peers', net', Errors')
    /\ KeepsSyn /\ Silent

(* Who is left alone and adds nothing to the wire is silent. *)
LEMMA SilentWhenUnchanged ==
  ASSUME \A x \in Sides : Broken(peers[x]) => peers'[x] = peers[x] /\ net'[Other(x)] \subseteq net[Other(x)]
  PROVE  Silent
BY DEF Silent

(* The application writes (tcp_minnow_socket_impl.hh, rule 2). *)
LEMMA WriteStep ==
  ASSUME ConnectionInv, NEW side \in Sides, NEW n \in Nat, NEW eof, AppWrite(side, n, eof)
  PROVE  GoodStep
<1> DEFINE p == peers[side]
           data == [i \in 1 .. n |-> BytesPushed(Outbound(p)) + i]
           filled == WriterPush(Outbound(p), data)
           input == IF eof THEN WriterClose(filled) ELSE filled
           s == [p.sender EXCEPT !.input = input]
           q == [p EXCEPT !.sender.input = input]
           result == PeerPush(q)
<1>1. /\ sc' = sc /\ faults' = faults /\ faults \in Nat /\ FlaggedState(peers, net, Errors)
      /\ Active(p) /\ Apply(side, result, net)
  BY DEF ConnectionInv, AppWrite, MayWrite
<1>2. Errors' = Errors /\ Errors \in Flags
  BY <1>1, ErrorsAreFlags DEF Errors
<1>3. FlaggedPeer(p, Errors)
  BY <1>1 DEF FlaggedState
<1>4. FlaggedSender(p.sender, Errors) /\ FlaggedReceiver(p.receiver, Errors) /\ p.sender.syn_sent \in BOOLEAN
  BY <1>3, PeerTypes
<1>5. FlaggedStream(p.sender.input, Errors) /\ Len(p.sender.input.pushed) \in Nat
  BY <1>4, FlaggedSenderTypes
<1>6. data \in Seq(Nat)
  <2>1. BytesPushed(Outbound(p)) \in Nat
    BY <1>5 DEF BytesPushed, Outbound
  <2> HIDE DEF p
  <2> QED
    BY <2>1
<1> HIDE DEF data
<1>7. FlaggedStream(filled, Errors)
  BY <1>5, <1>6, WriterPushGood DEF Outbound
<1> HIDE DEF filled
<1>8. FlaggedStream(input, Errors)
  BY <1>7, WriterCloseGood
<1>9. q = [p EXCEPT !.sender = s]
  <2> HIDE DEF input
  <2> QED
    BY <1>3 DEF FlaggedPeer
<1> HIDE DEF input, q
<1>10. s = [p.sender EXCEPT !.input = input]
  OBVIOUS
<1> HIDE DEF s
<1>11. FlaggedSender(s, Errors) /\ s.syn_sent = p.sender.syn_sent
  BY <1>4, <1>8, <1>10 DEF FlaggedSender
<1>12. q = [sender |-> s, receiver |-> p.receiver, need_send |-> p.need_send,
            linger_after_streams_finish |-> p.linger_after_streams_finish,
            since_last_receipt |-> p.since_last_receipt]
  BY <1>3, <1>9 DEF FlaggedPeer
<1>13. FlaggedPeer(q, Errors) /\ q.sender = s
  BY <1>4, <1>11, <1>12, PeerBuilt
<1>14. /\ FlaggedPeer(result.peer, Errors) /\ result.messages \in Seq(Message(Errors))
       /\ p.sender.syn_sent => result.peer.sender.syn_sent
  BY <1>2, <1>11, <1>13, PeerPushGood
<1> HIDE DEF result
<1>15. /\ FlaggedState(peers', net', Errors) /\ peers'[side] = result.peer
       /\ peers'[Other(side)] = peers[Other(side)] /\ net'[side] = net[side]
  BY <1>1, <1>2, <1>14, ApplyGood
<1>16. \A x \in Sides : x = side \/ (x = Other(side) /\ Other(x) = side)
  BY DEF Sides, Other
<1>17. KeepsSyn
  BY <1>14, <1>15, <1>16 DEF KeepsSyn
<1>18. ~Broken(peers[side])
  BY <1>1 DEF Active, Broken
<1>19. Silent
  BY <1>15, <1>16, <1>18, SilentWhenUnchanged
<1> QED
  BY <1>1, <1>2, <1>15, <1>17, <1>19 DEF GoodStep

(* The application reads (rule 3). *)
LEMMA ReadStep ==
  ASSUME ConnectionInv, NEW side \in Sides, NEW n \in Nat, AppRead(side, n)
  PROVE  GoodStep
<1> DEFINE p == peers[side]
           r == ReadOutput(p.receiver.reassembler, n)
           rcv == [p.receiver EXCEPT !.reassembler = r]
           q == [p EXCEPT !.receiver.reassembler = r]
<1>1. /\ sc' = sc /\ faults' = faults /\ faults \in Nat /\ FlaggedState(peers, net, Errors)
      /\ net' = net /\ peers' = [peers EXCEPT ![side].receiver.reassembler = r]
  BY DEF ConnectionInv, AppRead
<1>2. Errors' = Errors
  BY <1>1 DEF Errors
<1>3. FlaggedPeer(p, Errors) /\ peers = [x \in Sides |-> peers[x]]
  BY <1>1 DEF FlaggedState
<1>4. FlaggedSender(p.sender, Errors) /\ FlaggedReceiver(p.receiver, Errors)
  BY <1>3, PeerTypes
<1>5. FlaggedReassembler(r, Errors) /\ r.output.pushed = p.receiver.reassembler.output.pushed
  BY <1>4, ReadOutputGood DEF FlaggedReceiver
<1> HIDE DEF r
<1>6. q = [p EXCEPT !.receiver = rcv]
  BY <1>3 DEF FlaggedPeer
<1>7. peers' = [peers EXCEPT ![side] = q]
  BY <1>1, <1>3
<1>8. rcv = [p.receiver EXCEPT !.reassembler = r]
  OBVIOUS
<1> HIDE DEF q, rcv
<1>9. rcv = [reassembler |-> r, isn |-> p.receiver.isn]
  BY <1>4, <1>8 DEF FlaggedReceiver
<1>10. FlaggedReceiver(rcv, Errors)
  BY <1>4, <1>5, <1>9 DEF FlaggedReceiver
<1>11. q = [sender |-> p.sender, receiver |-> rcv, need_send |-> p.need_send,
            linger_after_streams_finish |-> p.linger_after_streams_finish,
            since_last_receipt |-> p.since_last_receipt]
  BY <1>3, <1>6 DEF FlaggedPeer
<1>12. FlaggedPeer(q, Errors) /\ q.sender = p.sender /\ q.receiver = rcv
  BY <1>4, <1>10, <1>11, PeerBuilt
<1>13. peers' = [x \in Sides |-> peers'[x]] /\ \A x \in Sides : peers'[x] = IF x = side THEN q ELSE peers[x]
  BY <1>3, <1>7
<1>14. FlaggedState(peers', net', Errors)
  BY <1>1, <1>12, <1>13 DEF FlaggedState
<1>15. \A x \in Sides : peers'[x].sender = peers[x].sender
  BY <1>12, <1>13
<1>16. KeepsSyn
  BY <1>15 DEF KeepsSyn
<1>17. PeerInbound(q).pushed = PeerInbound(p).pushed
  BY <1>5, <1>9, <1>12 DEF PeerInbound, Inbound
<1>18. \A x \in Sides : PeerInbound(peers'[x]).pushed = PeerInbound(peers[x]).pushed
  BY <1>13, <1>17
<1>19. Silent
  BY <1>1, <1>15, <1>18 DEF Silent
<1> QED
  BY <1>1, <1>2, <1>14, <1>16, <1>19 DEF GoodStep

(* A segment under way arrives, for good or to come again (rule 1). *)
LEMMA DeliverStep ==
  ASSUME ConnectionInv, NEW side \in Sides, NEW m \in net[side],
         Deliver(side, m) \/ DeliverCopy(side, m)
  PROVE  GoodStep
<1> DEFINE rest == [net EXCEPT ![side] = @ \ {m}]
<1>1. /\ sc' = sc /\ faults' = faults /\ faults \in Nat /\ FlaggedState(peers, net, Errors)
      /\ Arrive(side, m, rest) \/ Arrive(side, m, net)
  BY DEF ConnectionInv, Deliver, DeliverCopy
<1>2. Errors' = Errors /\ Errors \in Flags
  BY <1>1, ErrorsAreFlags DEF Errors
<1>3. m \in Message(Errors)
  BY <1>1 DEF FlaggedState
<1>4. FlaggedState(peers, rest, Errors)
  <2>1. net = [x \in Sides |-> net[x]] /\ \A x \in Sides : net[x] \subseteq Message(Errors)
    BY <1>1 DEF FlaggedState
  <2>2. rest = [x \in Sides |-> rest[x]] /\ \A x \in Sides : rest[x] \subseteq net[x]
    BY <2>1
  <2> QED
    BY <1>1, <2>1, <2>2 DEF FlaggedState
<1>5. \A x \in Sides : Other(x) \in Sides /\ rest[Other(x)] \subseteq net[Other(x)]
  <2>1. net = [x \in Sides |-> net[x]]
    BY <1>1 DEF FlaggedState
  <2> QED
    BY <2>1 DEF Sides, Other
<1> HIDE DEF rest
<1>6. /\ FlaggedState(peers', net', Errors) /\ KeepsSyn
      /\ \A x \in Sides : Broken(peers[x]) =>
             peers'[x] = peers[x] /\ (net'[Other(x)] = rest[Other(x)] \/ net'[Other(x)] = net[Other(x)])
  BY <1>1, <1>2, <1>3, <1>4, ArriveGood
<1>7. Silent
  BY <1>5, <1>6, SilentWhenUnchanged
<1> QED
  BY <1>1, <1>2, <1>6, <1>7 DEF GoodStep

(* A lost segment. *)
LEMMA LoseStep ==
  ASSUME ConnectionInv, NEW side \in Sides, NEW m, Lose(side, m)
  PROVE  GoodStep
<1>1. /\ sc' = sc /\ faults' = faults /\ faults \in Nat /\ FlaggedState(peers, net, Errors)
      /\ peers' = peers /\ net' = [net EXCEPT ![side] = @ \ {m}]
  BY DEF ConnectionInv, Lose
<1>2. Errors' = Errors
  BY <1>1 DEF Errors
<1>3. net = [x \in Sides |-> net[x]] /\ \A x \in Sides : net[x] \subseteq Message(Errors)
  BY <1>1 DEF FlaggedState
<1>4. net' = [x \in Sides |-> net'[x]] /\ \A x \in Sides : net'[x] \subseteq net[x]
  BY <1>1, <1>3
<1>5. FlaggedState(peers', net', Errors)
  BY <1>1, <1>3, <1>4 DEF FlaggedState
<1>6. KeepsSyn
  BY <1>1 DEF KeepsSyn
<1>7. Silent
  <2>1. \A x \in Sides : Other(x) \in Sides
    BY DEF Sides, Other
  <2> QED
    BY <1>1, <1>4, <2>1, SilentWhenUnchanged
<1> QED
  BY <1>1, <1>2, <1>5, <1>6, <1>7 DEF GoodStep

(* Time passes for the peers that are active. *)
LEMMA ElapseStep ==
  ASSUME ConnectionInv, Elapse
  PROVE  GoodStep
<1> DEFINE After(x) == IF Active(peers[x]) THEN PeerTick(peers[x], 1) ELSE Result(peers[x], <<>>)
<1>1. /\ sc' = sc /\ faults' = faults /\ faults \in Nat /\ FlaggedState(peers, net, Errors)
      /\ peers' = [x \in Sides |-> After(x).peer]
      /\ net' = [x \in Sides |-> Carry(net[x], After(Other(x)).messages)]
  <2>1. \A x \in Sides : Other(x) \in Sides
    BY DEF Sides, Other
  <2> QED
    BY <2>1 DEF ConnectionInv, Elapse
<1>2. Errors' = Errors /\ Errors \in Flags
  BY <1>1, ErrorsAreFlags DEF Errors
<1>3. \A x \in Sides : FlaggedPeer(peers[x], Errors) /\ net[x] \subseteq Message(Errors)
  BY <1>1 DEF FlaggedState
<1>4. ASSUME NEW x \in Sides
      PROVE  /\ FlaggedPeer(After(x).peer, Errors) /\ After(x).messages \in Seq(Message(Errors))
             /\ peers[x].sender.syn_sent => After(x).peer.sender.syn_sent
             /\ Broken(peers[x]) => After(x).peer = peers[x] /\ After(x).messages = <<>>
  <2>1. CASE Active(peers[x])
    <3>1. After(x) = PeerTick(peers[x], 1) /\ ~Broken(peers[x])
      BY <2>1 DEF Active, Broken
    <3> QED
      BY <1>2, <1>3, <3>1, PeerTickGood
  <2>2. CASE ~Active(peers[x])
    <3>1. After(x).peer = peers[x] /\ After(x).messages = <<>>
      BY <2>2 DEF Result
    <3>2. <<>> \in Seq(Message(Errors))
      OBVIOUS
    <3> QED
      BY <1>3, <3>1, <3>2
  <2> QED
    BY <2>1, <2>2
<1> HIDE DEF After
<1>5. \A x \in Sides : peers'[x] = After(x).peer /\ net'[x] = Carry(net[x], After(Other(x)).messages)
  BY <1>1
<1>6. \A x \in Sides : net'[x] \subseteq Message(Errors)
  <2>1. \A x \in Sides : Other(x) \in Sides
    BY DEF Sides, Other
  <2> QED
    BY <1>2, <1>3, <1>4, <1>5, <2>1, CarryGood
<1>7. peers' = [x \in Sides |-> peers'[x]] /\ net' = [x \in Sides |-> net'[x]]
  BY <1>1
<1>8. FlaggedState(peers', net', Errors)
  BY <1>4, <1>5, <1>6, <1>7 DEF FlaggedState
<1>9. KeepsSyn
  BY <1>4, <1>5 DEF KeepsSyn
<1>10. Silent
  <2>1. \A x \in Sides : Other(x) \in Sides /\ Other(Other(x)) = x
    BY DEF Sides, Other
  <2>2. \A x \in Sides : Broken(peers[x]) => net'[Other(x)] = net[Other(x)]
    BY <1>4, <1>5, <2>1, CarryNothing
  <2> QED
    BY <1>4, <1>5, <2>2, SilentWhenUnchanged
<1> QED
  BY <1>1, <1>2, <1>8, <1>9, <1>10 DEF GoodStep

(* From the first failure on, error flags may be set. *)
LEMMA FaultStep ==
  ASSUME faults \in Nat, faults' = faults + 1
  PROVE  faults' \in Nat /\ Errors' = BOOLEAN
BY DEF Errors

(* The application fails: only the outbound stream's error flag changes. *)
LEMMA FailStep ==
  ASSUME ConnectionInv, NEW side \in Sides, AppFail(side)
  PROVE  GoodStep
<1> DEFINE p == peers[side]
           i == SetError(p.sender.input)
           s == [p.sender EXCEPT !.input = i]
           q == [p EXCEPT !.sender.input = i]
<1>1. /\ sc' = sc /\ faults' = faults + 1 /\ faults \in Nat /\ FlaggedState(peers, net, Errors)
      /\ net' = net /\ peers' = [peers EXCEPT ![side].sender.input = i]
  BY DEF ConnectionInv, AppFail
<1>2. Errors' = BOOLEAN /\ faults' \in Nat
  BY <1>1, FaultStep
<1>3. FlaggedState(peers, net, BOOLEAN)
  BY <1>1, ErrorsAreFlags, StateWeaker
<1>4. FlaggedPeer(p, BOOLEAN) /\ peers = [x \in Sides |-> peers[x]]
  BY <1>3 DEF FlaggedState
<1>5. FlaggedSender(p.sender, BOOLEAN) /\ FlaggedReceiver(p.receiver, BOOLEAN)
  BY <1>4, PeerTypes
<1>6. FlaggedStream(i, BOOLEAN)
  BY <1>5, FlaggedSenderTypes, SetErrorGood
<1> HIDE DEF i
<1>7. q = [p EXCEPT !.sender = s]
  BY <1>4 DEF FlaggedPeer
<1>8. peers' = [peers EXCEPT ![side] = q]
  BY <1>1, <1>4
<1>9. s = [p.sender EXCEPT !.input = i]
  OBVIOUS
<1> HIDE DEF q, s
<1>10. /\ FlaggedSender(s, BOOLEAN) /\ s.syn_sent = p.sender.syn_sent
       /\ s.next_seqno = p.sender.next_seqno /\ s.outstanding = p.sender.outstanding
  BY <1>5, <1>6, <1>9 DEF FlaggedSender
<1>11. q = [sender |-> s, receiver |-> p.receiver, need_send |-> p.need_send,
            linger_after_streams_finish |-> p.linger_after_streams_finish,
            since_last_receipt |-> p.since_last_receipt]
  BY <1>4, <1>7 DEF FlaggedPeer
<1>12. FlaggedPeer(q, BOOLEAN) /\ q.sender = s /\ q.receiver = p.receiver
  BY <1>5, <1>10, <1>11, PeerBuilt
<1>13. peers' = [x \in Sides |-> peers'[x]] /\ \A x \in Sides : peers'[x] = IF x = side THEN q ELSE peers[x]
  BY <1>4, <1>8
<1>14. FlaggedState(peers', net', BOOLEAN)
  BY <1>1, <1>3, <1>12, <1>13 DEF FlaggedState
<1>15. KeepsSyn
  BY <1>10, <1>12, <1>13 DEF KeepsSyn
<1>16. Silent
  BY <1>1, <1>10, <1>12, <1>13 DEF Silent, PeerInbound, Inbound
<1> QED
  BY <1>1, <1>2, <1>14, <1>15, <1>16 DEF GoodStep

LEMMA ResetGood == Reset \in Message(BOOLEAN)
<1> DEFINE no == FALSE
           yes == TRUE
           seg == SenderMessage(0, no, <<>>, no, yes)
           ans == ReceiverMessage(NoSeqno, 0, yes)
<1>1. Reset = [sender |-> seg, receiver |-> ans]
  BY DEF Reset, TCPMessage
<1>2. 0 \in Int /\ 0 \in Nat /\ <<>> \in Seq(Nat) /\ NoSeqno \in Int
  BY DEF NoSeqno
<1>3. no \in BOOLEAN /\ yes \in BOOLEAN
  OBVIOUS
<1>4. seg \in Segment(BOOLEAN)
  <2> HIDE DEF no, yes
  <2> QED
    BY <1>2, <1>3, SegmentType, Zenon
<1>5. ans \in Answer(BOOLEAN)
  <2> HIDE DEF no, yes
  <2> QED
    BY <1>2, <1>3, AnswerType, Zenon
<1> HIDE DEF seg, ans
<1> QED
  BY <1>1, <1>4, <1>5 DEF Message

(* A reset arrives that neither peer sent. *)
LEMMA ResetStep ==
  ASSUME ConnectionInv, NEW side \in Sides, ForeignReset(side)
  PROVE  GoodStep
<1>1. /\ sc' = sc /\ faults' = faults + 1 /\ faults \in Nat /\ FlaggedState(peers, net, Errors)
      /\ Arrive(side, Reset, net)
  BY DEF ConnectionInv, ForeignReset
<1>2. Errors' = BOOLEAN /\ faults' \in Nat
  BY <1>1, FaultStep
<1>3. FlaggedState(peers, net, BOOLEAN)
  BY <1>1, ErrorsAreFlags, StateWeaker
<1>4. BOOLEAN \in Flags
  BY DEF Flags
<1>5. /\ FlaggedState(peers', net', BOOLEAN) /\ KeepsSyn
      /\ \A x \in Sides : Broken(peers[x]) => peers'[x] = peers[x] /\ net'[Other(x)] = net[Other(x)]
  BY <1>1, <1>3, <1>4, ResetGood, ArriveGood
<1>6. Silent
  BY <1>5, SilentWhenUnchanged
<1> QED
  BY <1>1, <1>2, <1>5, <1>6 DEF GoodStep

-----------------------------------------------------------------------------
(* Before the SYN *)

(* Nobody is established, nobody is broken, and nothing has arrived. *)
LEMMA FreshFacts ==
  ASSUME ConnectionInv, ~peers["client"].sender.syn_sent, NEW side \in Sides
  PROVE  /\ ~Established(side) /\ ~Broken(peers[side]) /\ net[side] = {}
         /\ BytesBuffered(PeerInbound(peers[side])) = 0
<1>1. sc \in Scenarios /\ peers = NewPeers(sc) /\ net = [x \in Sides |-> {}]
  BY DEF ConnectionInv, Untouched
<1> DEFINE p == NewPeers(sc)[side]
<1>2. /\ p.sender.next_seqno = 0 /\ p.sender.bytes_in_flight = 0
      /\ p.sender.input = NewStream(SendCapacity) /\ PeerInbound(p) = NewStream(sc.recv_capacity)
  BY <1>1, NewPeersFacts
<1>3. peers[side] = p
  BY <1>1
<1> HIDE DEF p
<1>4. AbsAck(p.sender) = 0
  BY <1>2 DEF AbsAck
<1>5. ~Broken(p)
  BY <1>2 DEF Broken, AnyErrors, Outbound, NewStream
<1>6. BytesBuffered(PeerInbound(p)) = 0
  BY <1>2 DEF BytesBuffered, NewStream
<1> QED
  BY <1>1, <1>3, <1>4, <1>5, <1>6 DEF Established

(* Before the first SYN nothing is broken. *)
LEMMA NobodyBroken ==
  ASSUME ConnectionInv, ~peers["client"].sender.syn_sent
  PROVE  Silent
BY FreshFacts DEF Silent

(* connect() sends the SYN. *)
LEMMA ConnectStep ==
  ASSUME ConnectionInv, Connect
  PROVE  GoodStep /\ peers'["client"].sender.syn_sent
<1> DEFINE p == peers["client"]
           result == PeerPush(p)
<1>1. /\ sc' = sc /\ faults' = faults /\ faults \in Nat /\ FlaggedState(peers, net, Errors)
      /\ ~peers["client"].sender.syn_sent /\ Apply("client", result, net)
      /\ sc \in Scenarios /\ "client" \in Sides
  BY DEF ConnectionInv, Connect, Sides
<1>2. Errors' = Errors /\ Errors \in Flags
  BY <1>1, ErrorsAreFlags DEF Errors
<1>3. FlaggedPeer(p, Errors)
  BY <1>1 DEF FlaggedState
<1>4. p = NewPeers(sc)["client"]
  BY <1>1 DEF ConnectionInv, Untouched
<1>5. /\ FlaggedPeer(result.peer, Errors) /\ result.messages \in Seq(Message(Errors))
      /\ result.peer.sender = SenderPush(p.sender)
      /\ p.sender.syn_sent => result.peer.sender.syn_sent
  BY <1>2, <1>3, PeerPushGood
<1>6. SenderPush(p.sender).syn_sent
  <2> DEFINE s == p.sender
  <2>1. /\ s.next_seqno = 0 /\ s.bytes_in_flight = 0 /\ s.window_size = 1
        /\ ~s.zero_window /\ ~s.syn_sent /\ ~s.fin_sent
        /\ s.input = NewStream(SendCapacity)
    BY <1>1, <1>4, NewPeersFacts
  <2>2. BytesBuffered(s.input) = 0 /\ ~s.input.closed
    BY <2>1 DEF BytesBuffered, NewStream
  <2>3. s = [input |-> s.input, isn |-> s.isn, timer |-> s.timer, window_size |-> s.window_size,
             zero_window |-> s.zero_window, next_seqno |-> s.next_seqno,
             bytes_in_flight |-> s.bytes_in_flight, syn_sent |-> s.syn_sent,
             fin_sent |-> s.fin_sent, outstanding |-> s.outstanding]
    BY <1>3 DEF FlaggedPeer, FlaggedSender
  <2> HIDE DEF s
  <2>4. SenderPush(s).syn_sent
    BY <2>1, <2>2, <2>3, FirstPush
  <2> QED
    BY <2>4 DEF s
<1> HIDE DEF result
<1>7. /\ FlaggedState(peers', net', Errors) /\ peers'["client"] = result.peer
      /\ peers'[Other("client")] = peers[Other("client")]
  BY <1>1, <1>2, <1>5, ApplyGood
<1>8. \A x \in Sides : x = "client" \/ x = Other("client")
  BY DEF Sides, Other
<1>9. KeepsSyn
  BY <1>5, <1>7, <1>8 DEF KeepsSyn
<1>10. Silent
  BY <1>1, NobodyBroken
<1> QED
  BY <1>1, <1>2, <1>5, <1>6, <1>7, <1>9, <1>10 DEF GoodStep

(* Before the SYN, the listening server discards a reset, and the client   *)
(* answers it, with a SYN (tcp_peer.hh:50-83).                             *)
LEMMA FreshReset ==
  ASSUME ConnectionInv, ~peers["client"].sender.syn_sent, NEW side \in Sides, ForeignReset(side)
  PROVE  peers'["client"].sender.syn_sent \/ (peers' = peers /\ net' = net /\ listening' = listening)
<1> DEFINE p == peers[side]
           result == PeerReceive(p, Reset)
<1>1. /\ sc \in Scenarios /\ p = NewPeers(sc)[side] /\ FlaggedState(peers, net, Errors)
      /\ Arrive(side, Reset, net) /\ listening = TRUE
  BY DEF ConnectionInv, Untouched, ForeignReset
<1>2. /\ p.sender.next_seqno = 0 /\ p.sender.bytes_in_flight = 0 /\ p.sender.window_size = 1
      /\ ~p.sender.zero_window /\ ~p.sender.syn_sent /\ ~p.sender.fin_sent
      /\ p.sender.input = NewStream(SendCapacity) /\ p.receiver.isn = NoSeqno
      /\ PeerInbound(p) = NewStream(sc.recv_capacity)
  BY <1>1, NewPeersFacts
<1>3. Reset.sender.RST /\ Reset.receiver.RST
  BY DEF Reset, TCPMessage, SenderMessage, ReceiverMessage
<1>4. CASE side = "server"
  <2>1. Discards(side, Reset)
    BY <1>1, <1>3, <1>4 DEF Discards
  <2> QED
    BY <1>1, <2>1 DEF Arrive, UnwrapTcp
<1>5. CASE side = "client"
  <2>1. ~Discards(side, Reset)
    BY <1>5 DEF Discards
  <2>2. peers' = [peers EXCEPT ![side] = result.peer]
    BY <1>1, <2>1 DEF Arrive, Apply
  <2>3. peers'[side] = result.peer
    <3>1. peers = [x \in Sides |-> peers[x]]
      BY <1>1 DEF FlaggedState
    <3> HIDE DEF result
    <3> QED
      BY <2>2, <3>1
  <2>4. Active(p)
    BY <1>2 DEF Active, AnyErrors, ReceiverActive, Outbound, NewStream
  <2>5. FlaggedPeer(p, BOOLEAN) /\ BOOLEAN \in Flags
    <3>1. FlaggedState(peers, net, BOOLEAN)
      BY <1>1, ErrorsAreFlags, StateWeaker
    <3>2. BOOLEAN \in Flags
      BY DEF Flags
    <3> QED
      BY <3>1, <3>2 DEF FlaggedState
  <2>6. result.peer.sender = SenderPush(SenderReceive(p.sender, Reset.receiver))
    BY <2>4, <2>5, ResetGood, PeerReceiveGood
  <2> DEFINE i == SetError(p.sender.input)
             t == TimerStop(p.sender.timer)
             s == SenderReset(p.sender)
             no == FALSE
  <2>7. SenderReceive(p.sender, Reset.receiver) = s
    BY <1>3 DEF SenderReceive
  <2>8. s = [p.sender EXCEPT !.outstanding = <<>>, !.bytes_in_flight = 0, !.timer = t, !.input = i]
    BY DEF SenderReset
  <2>9. BytesBuffered(i) = 0 /\ ~i.closed
    BY <1>2 DEF BytesBuffered, SetError, NewStream
  <2>10. FlaggedSender(p.sender, BOOLEAN)
    BY <2>5, PeerTypes
  <2> HIDE DEF i, t, s
  <2>11. s = [input |-> i, isn |-> p.sender.isn, timer |-> t, window_size |-> p.sender.window_size,
              zero_window |-> p.sender.zero_window, next_seqno |-> p.sender.next_seqno,
              bytes_in_flight |-> 0, syn_sent |-> p.sender.syn_sent,
              fin_sent |-> p.sender.fin_sent, outstanding |-> <<>>]
    BY <2>8, <2>10 DEF FlaggedSender
  <2> HIDE DEF p
  <2>12. /\ s.next_seqno = 0 /\ s.bytes_in_flight = 0 /\ s.window_size = 1
         /\ ~s.zero_window /\ ~s.syn_sent /\ ~s.fin_sent /\ s.input = i
    BY <1>2, <2>11
  <2>13. s = [input |-> s.input, isn |-> s.isn, timer |-> s.timer, window_size |-> s.window_size,
              zero_window |-> s.zero_window, next_seqno |-> s.next_seqno,
              bytes_in_flight |-> s.bytes_in_flight, syn_sent |-> s.syn_sent,
              fin_sent |-> s.fin_sent, outstanding |-> s.outstanding]
    BY <2>11
  <2>14. SenderPush(s).syn_sent
    BY <2>9, <2>12, <2>13, FirstPush
  <2> QED
    BY <1>5, <2>3, <2>6, <2>7, <2>14
<1> QED
  BY <1>4, <1>5 DEF Sides

-----------------------------------------------------------------------------
(* Every step *)

(* Every action keeps to the flags, and as long as the client has not sent *)
(* its SYN nothing has happened to either peer or on the wire.             *)
LEMMA EveryStepIsGood ==
  ASSUME ConnectionInv, Next
  PROVE  /\ GoodStep
         /\ ~peers'["client"].sender.syn_sent => Untouched(sc', peers', net', listening')
<1> DEFINE Spoke(x) == peers[x].sender.syn_sent
           ends == ~peers'["client"].sender.syn_sent => Untouched(sc', peers', net', listening')
<1>0. "client" \in Sides
  BY DEF Sides
<1>1. ASSUME GoodStep, Spoke("client") PROVE ends
  BY <1>0, <1>1 DEF GoodStep, KeepsSyn
<1>2. CASE Connect
  BY <1>2, ConnectStep
<1>3. CASE \E side \in Sides : \E n \in 0 .. sc.bytes[side], eof \in BOOLEAN : AppWrite(side, n, eof)
  <2>1. PICK side \in Sides : \E n \in 0 .. sc.bytes[side], eof \in BOOLEAN : AppWrite(side, n, eof)
    BY <1>3
  <2>2. PICK n \in 0 .. sc.bytes[side] : \E eof \in BOOLEAN : AppWrite(side, n, eof)
    BY <2>1
  <2>3. PICK eof \in BOOLEAN : AppWrite(side, n, eof)
    BY <2>2
  <2>4. n \in Nat
    OBVIOUS
  <2>5. GoodStep
    BY <2>3, <2>4, WriteStep
  <2>6. Spoke("client")
    BY <2>3, FreshFacts DEF AppWrite, MayWrite
  <2> QED
    BY <1>1, <2>5, <2>6
<1>4. CASE \E side \in Sides : \E n \in 1 .. sc.recv_capacity : AppRead(side, n)
  <2>1. PICK side \in Sides : \E n \in 1 .. sc.recv_capacity : AppRead(side, n)
    BY <1>4
  <2>2. PICK n \in 1 .. sc.recv_capacity : AppRead(side, n)
    BY <2>1
  <2>3. n \in Nat /\ n >= 1
    OBVIOUS
  <2>4. GoodStep
    BY <2>2, <2>3, ReadStep
  <2>5. Spoke("client")
    <3>1. n <= BytesBuffered(PeerInbound(peers[side]))
      BY <2>2 DEF AppRead
    <3>2. SUFFICES ASSUME ~Spoke("client") PROVE FALSE
      OBVIOUS
    <3>3. BytesBuffered(PeerInbound(peers[side])) = 0
      BY <3>2, FreshFacts
    <3> QED
      BY <2>3, <3>1, <3>3
  <2> QED
    BY <1>1, <2>4, <2>5
<1>5. CASE \E side \in Sides : \E m \in net[side] :
              Deliver(side, m) \/ DeliverCopy(side, m) \/ Lose(side, m)
  <2>1. PICK side \in Sides : \E m \in net[side] :
              Deliver(side, m) \/ DeliverCopy(side, m) \/ Lose(side, m)
    BY <1>5
  <2>2. PICK m \in net[side] : Deliver(side, m) \/ DeliverCopy(side, m) \/ Lose(side, m)
    BY <2>1
  <2>3. GoodStep
    BY <2>2, DeliverStep, LoseStep
  <2>4. Spoke("client")
    BY <2>2, FreshFacts
  <2> QED
    BY <1>1, <2>3, <2>4
<1>6. CASE \E side \in Sides : AppFail(side)
  <2>1. PICK side \in Sides : AppFail(side)
    BY <1>6
  <2>2. GoodStep
    BY <2>1, FailStep
  <2>3. Spoke("client")
    BY <2>1, FreshFacts DEF AppFail
  <2> QED
    BY <1>1, <2>2, <2>3
<1>7. CASE \E side \in Sides : ForeignReset(side)
  <2>1. PICK side \in Sides : ForeignReset(side)
    BY <1>7
  <2>2. GoodStep
    BY <2>1, ResetStep
  <2>3. CASE ~Spoke("client")
    <3>1. peers'["client"].sender.syn_sent \/ (peers' = peers /\ net' = net /\ listening' = listening)
      BY <2>1, <2>3, FreshReset
    <3>2. sc' = sc /\ Untouched(sc, peers, net, listening)
      BY <2>2, <2>3 DEF GoodStep, ConnectionInv
    <3> QED
      BY <2>2, <3>1, <3>2
  <2> QED
    BY <1>1, <2>2, <2>3
<1>8. CASE Elapse
  <2>1. GoodStep
    BY <1>8, ElapseStep
  <2>2. Spoke("client")
    BY <1>8 DEF Elapse, MayElapse
  <2> QED
    BY <1>1, <2>1, <2>2
<1> QED
  BY <1>2, <1>3, <1>4, <1>5, <1>6, <1>7, <1>8 DEF Next

LEMMA ConnectionStep ==
  ASSUME ConnectionInv, [Next]_vars
  PROVE  ConnectionInv' /\ (vars' = vars \/ Silent)
<1>1. CASE Next
  <2>1. GoodStep /\ (~peers'["client"].sender.syn_sent => Untouched(sc', peers', net', listening'))
    BY <1>1, EveryStepIsGood
  <2>2. sc \in Scenarios
    BY DEF ConnectionInv
  <2> QED
    BY <2>1, <2>2 DEF GoodStep, ConnectionInv
<1>2. CASE UNCHANGED vars
  <2>1. /\ sc' = sc /\ peers' = peers /\ net' = net /\ listening' = listening
        /\ faults' = faults /\ vars' = vars
    BY <1>2 DEF vars
  <2> QED
    BY <2>1 DEF ConnectionInv, Errors
<1> QED
  BY <1>1, <1>2

(* Without failures, every error flag and every RST is FALSE. *)
LEMMA NoErrorNoReset == ConnectionInv => NoSpuriousReset
<1> SUFFICES ASSUME ConnectionInv, faults = 0, NEW side \in Sides
             PROVE  ~Broken(peers[side]) /\ \A m \in net[side] : ~m.sender.RST
  BY DEF NoSpuriousReset
<1>1. FlaggedPeer(peers[side], {FALSE}) /\ net[side] \subseteq Message({FALSE})
  BY DEF ConnectionInv, Errors, FlaggedState
<1>2. Outbound(peers[side]).error \in {FALSE} /\ PeerInbound(peers[side]).error \in {FALSE}
  BY <1>1 DEF FlaggedPeer, FlaggedSender, FlaggedReceiver, FlaggedReassembler, FlaggedStream, StreamRecord,
              Outbound, PeerInbound, Inbound
<1>3. ~Broken(peers[side])
  BY <1>2 DEF Broken, AnyErrors
<1>4. \A m \in net[side] : m.sender.RST \in {FALSE}
  BY <1>1 DEF Message, Segment
<1> QED
  BY <1>3, <1>4

(* Unless an application fails or a foreign reset arrives, no end of a     *)
(* connection ever breaks and no segment with RST is ever under way,       *)
(* whatever is lost, repeated, reordered or late, for every capacity,      *)
(* payload size and scenario: push(), receive(), tick() and the reply of   *)
(* TCPPeer::receive set RST only from an error flag, and set an error flag *)
(* only from RST (tcp_peer.hh:39-83, tcp_sender.cc:8-132,                  *)
(* tcp_receiver.cc:7-46, tcp_segment.cc:43, 74).                           *)
THEOREM ConnectionsDoNotBreak == Spec => []NoSpuriousReset
<1>1. Init => ConnectionInv
  BY InitGood
<1>2. ConnectionInv /\ [Next]_vars => ConnectionInv'
  BY ConnectionStep
<1>3. ConnectionInv => NoSpuriousReset
  BY NoErrorNoReset
<1> QED
  BY <1>1, <1>2, <1>3, PTL DEF Spec

(* A peer whose inbound or outbound stream has an error sends nothing, no  *)
(* retransmission and no reply, forgets nothing it sent, and accepts       *)
(* nothing, in any step: receive(), the clock and rule 2 ask active()      *)
(* first, and a read or another failure touches neither sequence numbers   *)
(* nor the queue (tcp_peer.hh:39-54, tcp_minnow_socket_impl.hh).           *)
THEOREM BrokenPeersStaySilent == Spec => BrokenPeerIsSilent
<1>1. Init => ConnectionInv
  BY InitGood
<1>2. ConnectionInv /\ [Next]_vars => ConnectionInv'
  BY ConnectionStep
<1>3. ConnectionInv /\ [Next]_vars =>
        [\A side \in Sides :
          Broken(peers[side]) =>
              /\ net'[Other(side)] \subseteq net[Other(side)]
              /\ peers'[side].sender.next_seqno = peers[side].sender.next_seqno
              /\ peers'[side].sender.outstanding = peers[side].sender.outstanding
              /\ PeerInbound(peers'[side]).pushed = PeerInbound(peers[side]).pushed]_vars
  BY ConnectionStep DEF Silent
<1> QED
  BY <1>1, <1>2, <1>3, PTL DEF Spec, BrokenPeerIsSilent

-----------------------------------------------------------------------------
(* What a peer says *)

(* A segment of a peer with sender t and receiver u: a piece of what t has *)
(* sent, and what u acknowledges.                                          *)
Wire == [sender : MessageRecord, receiver : AnyReceiverMessage]
Spoken(m, t, u) == IsPiece(m.sender, t) /\ m.receiver.ackno = ReceiverSend(u).ackno
Said(t, u) == {m \in Wire : Spoken(m, t, u)}

(* TCPPeer::send *)
LEMMA TransmitSays ==
  ASSUME NEW p, NEW t, NEW segments \in Seq(MessageRecord),
         \A k \in 1 .. Len(segments) : IsPiece(segments[k], t),
         ReceiverSend(p.receiver) \in AnyReceiverMessage
  PROVE  Transmit(p, segments).messages \in Seq(Said(t, p.receiver))
<1> DEFINE answer == ReceiverSend(p.receiver)
           ms == [k \in DOMAIN segments |-> TCPMessage(segments[k], answer)]
           W == Said(t, p.receiver)
           M == MessageRecord
<1>1. Transmit(p, segments).messages = ms
  BY DEF Transmit, Result
<1>2. \A x \in M : IsPiece(x, t) => TCPMessage(x, answer) \in W
  <2>1. \A x \in M : TCPMessage(x, answer) \in Wire
    BY DEF TCPMessage, Wire
  <2>2. \A x \in M : TCPMessage(x, answer).sender = x /\ TCPMessage(x, answer).receiver = answer
    BY DEF TCPMessage
  <2> HIDE DEF M
  <2> QED
    BY <2>1, <2>2 DEF Said, Spoken
<1> HIDE DEF W, answer
<1>3. Len(segments) \in Nat /\ DOMAIN segments = 1 .. Len(segments) /\ segments \in Seq(M)
  OBVIOUS
<1> HIDE DEF M
<1>4. \A k \in 1 .. Len(segments) : TCPMessage(segments[k], answer) \in W
  BY <1>2, <1>3
<1> DEFINE L == Len(segments)
           g(k) == TCPMessage(segments[k], answer)
<1>5. ms = [k \in 1 .. L |-> g(k)] /\ L \in Nat /\ \A k \in 1 .. L : g(k) \in W
  BY <1>3, <1>4
<1> HIDE DEF L, g, ms
<1>6. ms \in Seq(W)
  BY <1>5
<1> QED
  BY <1>1, <1>6 DEF W

(* TCPPeer::push *)
LEMMA PeerPushSays ==
  ASSUME NEW p, FlaggedPeer(p, BOOLEAN), NEW s, s = p.sender, GoodSender(s), CarriesStream(s),
         ReceiverSend(p.receiver) \in AnyReceiverMessage
  PROVE  /\ FlaggedPeer(PeerPush(p).peer, BOOLEAN)
         /\ PeerPush(p).peer.sender = SenderPush(s) /\ PeerPush(p).peer.receiver = p.receiver
         /\ PeerPush(p).messages \in Seq(Said(SenderPush(s), p.receiver))
<1> DEFINE q == [p EXCEPT !.sender = SenderPush(s)]
           segments == PushSegments(s)
<1>1. BOOLEAN \in Flags
  BY DEF Flags
<1>2. /\ FlaggedPeer(PeerPush(p).peer, BOOLEAN)
      /\ PeerPush(p).peer.sender = SenderPush(s) /\ PeerPush(p).peer.receiver = p.receiver
  BY <1>1, PeerPushGood
<1>3. PeerPush(p) = Transmit(q, segments)
  BY DEF PeerPush
<1>4. q.receiver = p.receiver
  BY DEF FlaggedPeer
<1>5. segments \in Seq(MessageRecord)
  BY TransmitTypes
<1>6. \A k \in 1 .. Len(segments) : IsPiece(segments[k], SenderPush(s))
  BY PushSendsPieces
<1> HIDE DEF q, segments
<1>7. Transmit(q, segments).messages \in Seq(Said(SenderPush(s), p.receiver))
  BY <1>4, <1>5, <1>6, TransmitSays
<1> QED
  BY <1>2, <1>3, <1>7

(* TCPPeer::tick *)
LEMMA PeerTickSays ==
  ASSUME NEW p, FlaggedPeer(p, BOOLEAN), NEW s, s = p.sender, Sound(s), NEW ms \in Nat,
         ReceiverSend(p.receiver) \in AnyReceiverMessage
  PROVE  /\ PeerTick(p, ms).peer.sender = SenderTick(s, ms) /\ PeerTick(p, ms).peer.receiver = p.receiver
         /\ PeerTick(p, ms).messages \in Seq(Said(SenderTick(s, ms), p.receiver))
<1> DEFINE since == Least(p.since_last_receipt + ms, LingerTime)
           q == [p EXCEPT !.sender = SenderTick(s, ms), !.since_last_receipt = since]
           segments == TickSegments(s, ms)
<1>1. BOOLEAN \in Flags
  BY DEF Flags
<1>2. PeerTick(p, ms).peer.sender = SenderTick(s, ms) /\ PeerTick(p, ms).peer.receiver = p.receiver
  BY <1>1, PeerTickGood
<1>3. PeerTick(p, ms) = Transmit(q, segments)
  BY DEF PeerTick
<1>4. q.receiver = p.receiver
  BY DEF FlaggedPeer
<1>5. segments \in Seq(MessageRecord)
  BY TransmitTypes DEF Sound
<1>6. \A k \in 1 .. Len(segments) : IsPiece(segments[k], SenderTick(s, ms))
  BY TickIsSound
<1> HIDE DEF q, segments
<1>7. Transmit(q, segments).messages \in Seq(Said(SenderTick(s, ms), p.receiver))
  BY <1>4, <1>5, <1>6, TransmitSays
<1> QED
  BY <1>2, <1>3, <1>7

(* The reply, if one is needed, is of the same kind. *)
LEMMA ReplySays ==
  ASSUME NEW p, FlaggedPeer(p, BOOLEAN), NEW s, s = p.sender, GoodSender(s),
         ReceiverSend(p.receiver) \in AnyReceiverMessage,
         NEW ms \in Seq(Said(s, p.receiver)), NEW result, result = [peer |-> p, messages |-> ms]
  PROVE  Reply(result).messages \in Seq(Said(s, p.receiver))
<1>0. result.peer = p /\ result.messages = ms
  OBVIOUS
<1>1. CASE ~p.need_send
  BY <1>0, <1>1 DEF Reply
<1>2. CASE p.need_send
  <2> DEFINE e == MakeEmptyMessage(s)
             reply == Transmit(p, <<e>>)
             W == Said(s, p.receiver)
             M == MessageRecord
  <2>1. IsPiece(e, s)
    BY EmptyIsPiece
  <2>2. e \in M
    BY <2>1 DEF IsPiece
  <2>3. Reply(result).messages = ms \o reply.messages
    BY <1>0, <1>2 DEF Reply, Result
  <2> HIDE DEF e
  <2>4. <<e>> \in Seq(M) /\ Len(<<e>>) = 1 /\ <<e>>[1] = e
    <3> HIDE DEF M
    <3> QED
      BY <2>2
  <2>5. \A k \in 1 .. Len(<<e>>) : IsPiece(<<e>>[k], s)
    BY <2>1, <2>4
  <2>6. reply.messages \in Seq(W)
    BY <2>4, <2>5, TransmitSays
  <2>7. ms \in Seq(W)
    OBVIOUS
  <2> HIDE DEF reply, W
  <2>8. ms \o reply.messages \in Seq(W)
    BY <2>6, <2>7, Joined
  <2> QED
    BY <2>3, <2>8 DEF W
<1> QED
  BY <1>1, <1>2

(* TCPPeer::receive: the sender takes the acknowledgement and pushes, the  *)
(* receiver takes the segment, and what is sent in return comes from what  *)
(* they are then.                                                          *)
LEMMA PeerReceiveSays ==
  ASSUME NEW p, FlaggedPeer(p, BOOLEAN), Active(p), NEW s, s = p.sender, Sound(s),
         NEW m \in Message(BOOLEAN), m.receiver \in AnyReceiverMessage,
         NEW u, u = ReceiverReceive(p.receiver, m.sender), ReceiverSend(u) \in AnyReceiverMessage
  PROVE  LET t == SenderPush(SenderReceive(s, m.receiver))
         IN  /\ PeerReceive(p, m).peer.sender = t /\ PeerReceive(p, m).peer.receiver = u
             /\ PeerReceive(p, m).messages \in Seq(Said(t, u))
<1> DEFINE E == BOOLEAN
           v == SenderReceive(s, m.receiver)
           need == p.need_send \/ CallsForReply(p, m)
           received == [p EXCEPT !.since_last_receipt = 0, !.need_send = need,
                                 !.receiver = u, !.sender = v]
           pushed == PeerPush(received)
           result == Reply(pushed)
<1>0. E \in Flags
  BY DEF Flags
<1>1. m.sender \in Segment(E) /\ m.receiver \in Answer(E)
  BY DEF Message
<1>2. FlaggedSender(s, E) /\ FlaggedReceiver(p.receiver, E)
  BY PeerTypes
<1>3. FlaggedReceiver(u, E)
  BY <1>0, <1>1, <1>2, ReceiverReceiveGood
<1>4. FlaggedSender(v, E) /\ GoodSender(v) /\ CarriesStream(v)
  BY <1>0, <1>1, <1>2, SenderReceiveGood, ReceiveIsSound
<1>5. PeerReceive(p, m) = [peer |-> DropLinger(result.peer), messages |-> result.messages]
  BY DEF PeerReceive, Result
<1> HIDE DEF v, need
<1>a. received = [p EXCEPT !.since_last_receipt = 0, !.need_send = need, !.receiver = u, !.sender = v]
  OBVIOUS
<1> HIDE DEF received
<1>6. received = [sender |-> v, receiver |-> u, need_send |-> need,
                  linger_after_streams_finish |-> p.linger_after_streams_finish,
                  since_last_receipt |-> 0]
  BY ONLY <1>a, FlaggedPeer(p, BOOLEAN) DEF FlaggedPeer
<1>7. FlaggedPeer(received, E) /\ received.sender = v /\ received.receiver = u
  BY <1>3, <1>4, <1>6, PeerBuilt
<1>8. /\ FlaggedPeer(pushed.peer, E) /\ pushed.peer.sender = SenderPush(v) /\ pushed.peer.receiver = u
      /\ pushed.messages \in Seq(Said(SenderPush(v), u))
  BY <1>4, <1>7, PeerPushSays
<1>9. pushed = [peer |-> pushed.peer, messages |-> pushed.messages]
  BY DEF PeerPush, Transmit, Result
<1>10. GoodSender(SenderPush(v))
  BY <1>4, PushKeepsGood
<1> HIDE DEF pushed
<1>11. result.messages \in Seq(Said(SenderPush(v), u))
  BY <1>8, <1>9, <1>10, ReplySays
<1>12. /\ FlaggedPeer(result.peer, E)
       /\ result.peer.sender = SenderPush(v) /\ result.peer.receiver = u
  <2>1. pushed.messages \in Seq(Message(E))
    BY <1>0, <1>7, PeerPushGood DEF pushed
  <2> QED
    BY <1>0, <1>8, <1>9, <2>1, ReplyGood
<1> HIDE DEF result
<1>13. DropLinger(result.peer).sender = SenderPush(v) /\ DropLinger(result.peer).receiver = u
  BY <1>12, DropLingerGood
<1>14. PeerReceive(p, m).peer = DropLinger(result.peer) /\ PeerReceive(p, m).messages = result.messages
  BY <1>5
<1> QED
  BY <1>11, <1>13, <1>14 DEF v

(* A trip over the wire sets RST flags and nothing else. *)
LEMMA WireSays ==
  ASSUME NEW t, NEW u, NEW m \in Said(t, u)
  PROVE  OverTheWire(m) \in Said(t, u)
<1> DEFINE reset == m.sender.RST \/ m.receiver.RST
           s == [m.sender EXCEPT !.RST = reset]
           r == [m.receiver EXCEPT !.RST = reset]
           w == OverTheWire(m)
<1>1. /\ m.sender \in MessageRecord /\ m.receiver \in AnyReceiverMessage
      /\ m = [sender |-> m.sender, receiver |-> m.receiver]
  BY DEF Said, Wire
<1>2. reset \in BOOLEAN
  OBVIOUS
<1>3. w = [m EXCEPT !.sender = s, !.receiver = r]
  BY <1>1 DEF OverTheWire
<1> HIDE DEF reset
<1>4. /\ s \in MessageRecord /\ s.seqno = m.sender.seqno /\ s.SYN = m.sender.SYN
      /\ s.payload = m.sender.payload /\ s.FIN = m.sender.FIN
  BY <1>1, <1>2 DEF MessageRecord
<1>5. r \in AnyReceiverMessage /\ r.ackno = m.receiver.ackno
  BY <1>1, <1>2 DEF AnyReceiverMessage
<1> HIDE DEF s, r, w
<1>6. w = [sender |-> s, receiver |-> r]
  BY <1>1, <1>3
<1>7. w \in Wire /\ w.sender = s /\ w.receiver = r
  BY <1>4, <1>5, <1>6 DEF Wire
<1>8. SequenceLength(s) = SequenceLength(m.sender)
  BY <1>4 DEF SequenceLength
<1>9. IsPiece(s, t)
  <2>1. PICK a \in Nat : Piece(m.sender, a, t)
    BY DEF Said, Spoken, IsPiece
  <2>2. Piece(s, a, t)
    BY <1>4, <1>8, <2>1 DEF Piece
  <2> QED
    BY <1>4, <2>2 DEF IsPiece
<1>10. r.ackno = ReceiverSend(u).ackno
  BY <1>5 DEF Said, Spoken
<1>11. w \in Said(t, u)
  BY <1>7, <1>9, <1>10 DEF Said, Spoken
<1> QED
  BY <1>11 DEF w

(* What is under way is old or was said now. *)
LEMMA CarrySays ==
  ASSUME NEW t, NEW u, NEW old, NEW ms \in Seq(Said(t, u)), NEW m \in Carry(old, ms)
  PROVE  m \in old \/ m \in Said(t, u)
<1> DEFINE W == Said(t, u)
           new == [k \in DOMAIN ms |-> OverTheWire(ms[k])]
           first(n) == old \cup {new[k] : k \in 1 .. n}
           fits == {n \in DOMAIN ms : Cardinality(first(n)) <= sc.under_way}
<1>1. Carry(old, ms) = old \cup {new[k] : k \in fits}
  BY DEF Carry
<1>2. \A k \in DOMAIN ms : ms[k] \in W
  <2>1. ms \in Seq(W)
    OBVIOUS
  <2> HIDE DEF W
  <2> QED
    BY <2>1
<1>3. \A k \in fits : k \in DOMAIN ms
  OBVIOUS
<1> HIDE DEF fits
<1>4. \A k \in fits : new[k] = OverTheWire(ms[k])
  BY <1>3
<1> HIDE DEF new
<1>5. \A k \in fits : new[k] \in Said(t, u)
  BY <1>2, <1>3, <1>4, WireSays
<1> QED
  BY <1>1, <1>5

(* What u acknowledges is right for the sender it follows. *)
LEMMA SaidAcknowledges ==
  ASSUME NEW t, NEW u, NEW m \in Said(t, u),
         NEW s, GoodSender(s), NEW cap \in Nat, Follows(u, s, cap)
  PROVE  Acknowledges(m.receiver, u, s)
<1>1. m.receiver \in AnyReceiverMessage /\ m.receiver.ackno = ReceiverSend(u).ackno
  BY DEF Said, Spoken, Wire
<1>2. Acknowledges(ReceiverSend(u), u, s)
  BY ReceiverAcknowledges
<1> QED
  BY <1>1, <1>2 DEF Acknowledges

-----------------------------------------------------------------------------
(* Both directions of the connection *)

DirectionInv ==
    \A x \in Sides :
        /\ Len(peers[x].sender.input.pushed) <= sc.bytes[x]
        /\ Direction(peers[x].sender, peers[Other(x)].receiver, sc.recv_capacity,
                     net[Other(x)], net[x])

(* There are two sides. *)
LEMMA TheSides ==
  ASSUME NEW x \in Sides
  PROVE  /\ Other(x) \in Sides /\ Other(x) # x /\ Other(Other(x)) = x
         /\ \A y \in Sides : y = x \/ y = Other(x)
BY DEF Sides, Other

(* The numbers of a scenario. *)
LEMMA Capacities ==
  ASSUME sc \in Scenarios, NEW x \in Sides
  PROVE  sc.recv_capacity \in Nat /\ sc.bytes[x] \in Nat /\ 2 * (sc.bytes[x] + 3) <= SeqMod
BY ConnectionAssumption

(* One direction, taken apart. *)
LEMMA DirectionFacts ==
  ASSUME sc \in Scenarios, DirectionInv, NEW x \in Sides
  PROVE  /\ Sound(peers[x].sender) /\ GoodSender(peers[x].sender)
         /\ Follows(peers[Other(x)].receiver, peers[x].sender, sc.recv_capacity)
         /\ Follows(peers[x].receiver, peers[Other(x)].sender, sc.recv_capacity)
         /\ GoodSender(peers[Other(x)].sender)
         /\ AckedThrough(peers[x].receiver) \in Nat /\ AckedThrough(peers[Other(x)].receiver) \in Nat
         /\ ReceiverSend(peers[x].receiver) \in AnyReceiverMessage
         /\ ~peers[x].sender.input.error =>
                AbsAck(peers[x].sender) <= AckedThrough(peers[Other(x)].receiver)
         /\ sc.recv_capacity \in Nat
<1>1. Other(x) \in Sides /\ Other(Other(x)) = x /\ sc.recv_capacity \in Nat
  BY TheSides, Capacities
<1>2. /\ Direction(peers[x].sender, peers[Other(x)].receiver, sc.recv_capacity, net[Other(x)], net[x])
      /\ Direction(peers[Other(x)].sender, peers[x].receiver, sc.recv_capacity, net[x], net[Other(x)])
  BY <1>1 DEF DirectionInv
<1> DEFINE s == peers[x].sender
           r == peers[x].receiver
           s2 == peers[Other(x)].sender
           r2 == peers[Other(x)].receiver
           cap == sc.recv_capacity
<1>3. /\ Sound(s) /\ Sound(s2) /\ Follows(r2, s, cap) /\ Follows(r, s2, cap)
      /\ (~s.input.error => AbsAck(s) <= AckedThrough(r2))
  BY <1>2 DEF Direction
<1>4. cap \in Nat
  BY <1>1
<1> HIDE DEF s, r, s2, r2, cap
<1>5. GoodSender(s) /\ GoodSender(s2)
  BY <1>3 DEF Sound
<1>6. AckedThrough(r) \in Nat /\ AckedThrough(r2) \in Nat
  BY <1>3, <1>4, <1>5, HasNumber
<1>7. ReceiverSend(r) \in AnyReceiverMessage
  BY <1>3, <1>4, <1>5, ReceiverAcknowledges DEF Acknowledges
<1> QED
  BY <1>3, <1>4, <1>5, <1>6, <1>7 DEF s, r, s2, r2, cap

(* In this step only x does something: its sender becomes t, its receiver  *)
(* u, and what it sends comes from them.                                   *)
Moves(x, t, u) ==
    /\ sc' = sc
    /\ peers'[x].sender = t /\ peers'[x].receiver = u /\ peers'[Other(x)] = peers[Other(x)]
    /\ net'[x] \subseteq net[x]
    /\ \A m \in net'[Other(x)] : m \in net[Other(x)] \/ m \in Said(t, u)

StartOf(a, b) == Len(a) <= Len(b) /\ a = SubSeq(b, 1, Len(a))

(* A stream that is written to: it grows and may be ended, but only until  *)
(* then.                                                                   *)
Wrote(i, j) ==
    \/ j.pushed = i.pushed /\ j.closed = i.closed
    \/ ~i.closed /\ StartOf(i.pushed, j.pushed) /\ j.closed \in BOOLEAN

(* The far end i of the stream `src', which becomes j: more of src has     *)
(* come, perhaps with its end; or the connection has broken.               *)
Received(i, j, src) ==
    \/ j.pushed = i.pushed /\ j.closed = i.closed /\ j.error = i.error
    \/ /\ ~i.closed /\ j.error = i.error
       /\ StartOf(i.pushed, j.pushed) /\ StartOf(j.pushed, src.pushed)
       /\ j.closed \in BOOLEAN
       /\ j.closed => src.closed /\ j.pushed = src.pushed
    \/ j.pushed = i.pushed /\ j.closed \in BOOLEAN /\ j.error = TRUE

(* The sender of x and the one it becomes, the receiver of x and the one   *)
(* it becomes.                                                             *)
SenderGoesOn(x, t) ==
    /\ Sound(t) /\ Continued(peers[x].sender, t)
    /\ Len(t.input.pushed) <= sc.bytes[x]
    /\ ~t.input.error => AbsAck(t) <= AckedThrough(peers[Other(x)].receiver)
    /\ Wrote(peers[x].sender.input, t.input)

ReceiverGoesOn(x, u) ==
    /\ Follows(u, peers[Other(x)].sender, sc.recv_capacity)
    /\ AckedThrough(u) >= AckedThrough(peers[x].receiver)
    /\ Received(Inbound(peers[x].receiver), Inbound(u), peers[Other(x)].sender.input)

SideMoves(x) ==
    /\ Moves(x, peers'[x].sender, peers'[x].receiver)
    /\ SenderGoesOn(x, peers'[x].sender)
    /\ ReceiverGoesOn(x, peers'[x].receiver)

(* A half that does not move goes on. *)
LEMMA SenderMayRest ==
  ASSUME sc \in Scenarios, DirectionInv, NEW x \in Sides
  PROVE  SenderGoesOn(x, peers[x].sender) /\ ReceiverGoesOn(x, peers[x].receiver)
<1>1. Len(peers[x].sender.input.pushed) <= sc.bytes[x]
  BY DEF DirectionInv
<1>2. Sound(peers[x].sender)
  BY DirectionFacts
<1>3. Continued(peers[x].sender, peers[x].sender)
  BY <1>2, SoundStays
<1>4. SenderGoesOn(x, peers[x].sender)
  BY <1>1, <1>2, <1>3, DirectionFacts DEF SenderGoesOn, Wrote
<1>5. AckedThrough(peers[x].receiver) \in Nat
  BY DirectionFacts
<1>6. AckedThrough(peers[x].receiver) >= AckedThrough(peers[x].receiver)
  <2> DEFINE k == AckedThrough(peers[x].receiver)
  <2>1. k \in Nat
    BY <1>5
  <2> HIDE DEF k
  <2>2. k >= k
    BY <2>1
  <2> QED
    BY <2>2 DEF k
<1> QED
  BY <1>4, <1>6, DirectionFacts DEF ReceiverGoesOn, Received

(* Whatever one side does, as sender and as receiver, keeps both           *)
(* directions.                                                             *)
LEMMA MoveKeepsDirections ==
  ASSUME sc \in Scenarios, DirectionInv, NEW x \in Sides, NEW t, NEW u, Moves(x, t, u),
         SenderGoesOn(x, t), ReceiverGoesOn(x, u)
  PROVE  DirectionInv'
<1> DEFINE y == Other(x)
           s == peers[x].sender
           r == peers[x].receiver
           s2 == peers[y].sender
           r2 == peers[y].receiver
           cap == sc.recv_capacity
<1>1. y \in Sides /\ Other(y) = x /\ cap \in Nat /\ (\A z \in Sides : z = x \/ z = y)
  BY TheSides, Capacities
<1>2. /\ Direction(s, r2, cap, net[y], net[x]) /\ Direction(s2, r, cap, net[x], net[y])
      /\ Len(s2.input.pushed) <= sc.bytes[y]
  BY <1>1 DEF DirectionInv
<1>3. /\ Sound(t) /\ Continued(s, t) /\ Len(t.input.pushed) <= sc.bytes[x]
      /\ (~t.input.error => AbsAck(t) <= AckedThrough(r2))
  BY DEF SenderGoesOn
<1>4. Follows(u, s2, cap) /\ AckedThrough(u) >= AckedThrough(r)
  BY DEF ReceiverGoesOn
<1>5. /\ sc' = sc /\ peers'[x].sender = t /\ peers'[x].receiver = u
      /\ peers'[y].sender = s2 /\ peers'[y].receiver = r2
      /\ net'[x] \subseteq net[x]
      /\ \A m \in net'[y] : m \in net[y] \/ m \in Said(t, u)
  BY DEF Moves
<1>6. GoodSender(s) /\ GoodSender(s2) /\ Follows(r2, s, cap) /\ Sound(s2) /\ GoodSender(t)
      /\ AckedThrough(r2) \in Nat /\ (~s2.input.error => AbsAck(s2) <= AckedThrough(r))
      /\ AckedThrough(r) \in Nat /\ AckedThrough(u) \in Nat
  <2>1. GoodSender(s) /\ GoodSender(s2) /\ Follows(r2, s, cap) /\ Sound(s2) /\ GoodSender(t)
        /\ Follows(r, s2, cap) /\ (~s2.input.error => AbsAck(s2) <= AckedThrough(r))
    BY <1>2, <1>3 DEF Direction, Sound
  <2> HIDE DEF y, s, r, s2, r2, cap
  <2> QED
    BY <1>1, <1>4, <2>1, HasNumber
<1> HIDE DEF y, s, r, s2, r2, cap
<1>7. Direction(t, r2, cap, net'[y], net'[x])
  <2>1. Follows(r2, t, cap)
    BY <1>1, <1>3, <1>6, FollowsOn
  <2>2. AckedThrough(r2) >= AckedThrough(r2)
    BY <1>6
  <2>3. \A m \in net'[y] : m \in net[y] \/ IsPiece(m.sender, t)
    BY <1>5 DEF Said, Spoken
  <2>4. \A m \in net'[x] : m \in net[x] \/ Acknowledges(m.receiver, r2, t)
    BY <1>5
  <2> QED
    BY <1>1, <1>2, <1>3, <2>1, <2>2, <2>3, <2>4, DirectionMoves
<1>8. Direction(s2, u, cap, net'[x], net'[y])
  <2>1. Continued(s2, s2)
    BY <1>6, SoundStays
  <2>2. ~s2.input.error => AbsAck(s2) <= AckedThrough(u)
    <3> DEFINE a == AbsAck(s2)
               k == AckedThrough(r)
               l == AckedThrough(u)
    <3>1. a \in Nat
      BY <1>6, PushNumbers
    <3>2. k \in Nat /\ l \in Nat /\ l >= k /\ (~s2.input.error => a <= k)
      BY <1>4, <1>6
    <3> HIDE DEF a, k, l
    <3>3. ~s2.input.error => a <= l
      BY <3>1, <3>2
    <3> QED
      BY <3>3 DEF a, l
  <2>3. \A m \in net'[x] : m \in net[x] \/ IsPiece(m.sender, s2)
    BY <1>5
  <2>4. \A m \in net'[y] : m \in net[y] \/ Acknowledges(m.receiver, u, s2)
    BY <1>1, <1>4, <1>5, <1>6, SaidAcknowledges
  <2> QED
    BY <1>1, <1>2, <1>4, <1>6, <2>1, <2>2, <2>3, <2>4, DirectionMoves
<1>9. \A z \in Sides :
        /\ Len(peers'[z].sender.input.pushed) <= sc'.bytes[z]
        /\ Direction(peers'[z].sender, peers'[Other(z)].receiver, sc'.recv_capacity,
                     net'[Other(z)], net'[z])
  <2>1. Len(peers'[x].sender.input.pushed) <= sc'.bytes[x]
    BY <1>3, <1>5
  <2>2. Len(peers'[y].sender.input.pushed) <= sc'.bytes[y]
    BY <1>2, <1>5
  <2>3. Direction(peers'[x].sender, peers'[y].receiver, sc'.recv_capacity, net'[y], net'[x])
    BY <1>5, <1>7 DEF cap
  <2>4. Direction(peers'[y].sender, peers'[x].receiver, sc'.recv_capacity, net'[x], net'[y])
    BY <1>5, <1>8 DEF cap
  <2>5. Other(x) = y
    BY DEF y
  <2> QED
    BY <1>1, <2>1, <2>2, <2>3, <2>4, <2>5
<1> QED
  BY <1>9 DEF DirectionInv

(* What x transmits joins what is under way to the other side. *)
LEMMA ApplyMoves ==
  ASSUME NEW x \in Sides, NEW base, NEW result, Apply(x, result, base), sc' = sc,
         peers = [z \in Sides |-> peers[z]], base = [z \in Sides |-> base[z]],
         base[Other(x)] = net[Other(x)], base[x] \subseteq net[x],
         NEW t, NEW u, result.peer.sender = t, result.peer.receiver = u,
         result.messages \in Seq(Said(t, u))
  PROVE  Moves(x, t, u) /\ peers'[x].sender = t /\ peers'[x].receiver = u
<1> DEFINE y == Other(x)
           p == result.peer
           ms == result.messages
           c == Carry(base[y], ms)
<1>1. y \in Sides /\ y # x
  BY TheSides
<1>2. peers' = [peers EXCEPT ![x] = p] /\ net' = [base EXCEPT ![y] = c]
  BY DEF Apply
<1>3. \A m \in c : m \in base[y] \/ m \in Said(t, u)
  BY CarrySays
<1>4. base[y] = net[y] /\ base[x] \subseteq net[x] /\ p.sender = t /\ p.receiver = u
  OBVIOUS
<1> HIDE DEF y, p, c
<1>5. peers'[x] = p /\ peers'[y] = peers[y] /\ net'[y] = c /\ net'[x] = base[x]
  BY <1>1, <1>2
<1> QED
  BY <1>3, <1>4, <1>5 DEF Moves, y

(* push() where it is the whole of the step's effect on the sender. *)
LEMMA ConnectMoves ==
  ASSUME ConnectionInv, DirectionInv, Connect
  PROVE  SideMoves("client")
<1> DEFINE x == "client"
           p == peers[x]
           s == p.sender
           t == SenderPush(s)
           result == PeerPush(p)
<1>1. /\ sc \in Scenarios /\ sc' = sc /\ FlaggedState(peers, net, Errors) /\ x \in Sides
      /\ Apply(x, result, net)
  BY DEF ConnectionInv, Connect, Sides
<1>2. FlaggedState(peers, net, BOOLEAN)
  BY <1>1, ErrorsAreFlags, StateWeaker
<1>3. FlaggedPeer(p, BOOLEAN) /\ peers = [z \in Sides |-> peers[z]] /\ net = [z \in Sides |-> net[z]]
  BY <1>1, <1>2 DEF FlaggedState
<1>4. /\ Sound(s) /\ ReceiverSend(p.receiver) \in AnyReceiverMessage
      /\ (~s.input.error => AbsAck(s) <= AckedThrough(peers[Other(x)].receiver))
  BY <1>1, DirectionFacts
<1>5. GoodSender(s) /\ CarriesStream(s) /\ Roomy(s) /\ (s.input.closed => s.syn_sent)
  BY <1>4 DEF Sound
<1>6. /\ result.peer.sender = t /\ result.peer.receiver = p.receiver
      /\ result.messages \in Seq(Said(t, p.receiver))
  BY <1>3, <1>4, <1>5, PeerPushSays
<1>7. Sound(t) /\ Continued(s, t) /\ AbsAck(t) = AbsAck(s) /\ t.input.error = s.input.error
  BY <1>5, PushIsSound
<1>8. t.input.pushed = s.input.pushed /\ t.input.closed = s.input.closed
  BY <1>5, PushEffects DEF GoodSender
<1>9. Len(s.input.pushed) <= sc.bytes[x]
  BY <1>1 DEF DirectionInv
<1> HIDE DEF x, result, t, s, p
<1>10. Moves(x, t, p.receiver) /\ peers'[x].sender = t /\ peers'[x].receiver = p.receiver
  BY <1>1, <1>3, <1>6, ApplyMoves
<1>11. SenderGoesOn(x, t)
  BY <1>4, <1>7, <1>8, <1>9 DEF SenderGoesOn, Wrote, s, p
<1>12. ReceiverGoesOn(x, p.receiver)
  BY <1>1, SenderMayRest DEF p
<1>13. SideMoves(x)
  BY <1>10, <1>11, <1>12 DEF SideMoves
<1> QED
  BY <1>13 DEF x

(* A sequence is a prefix of what it is extended to. *)
LEMMA StartOfJoined ==
  ASSUME NEW a \in Seq(Nat), NEW b \in Seq(Nat)
  PROVE  StartOf(a, a \o b)
<1> DEFINE c == a \o b
<1>1. /\ c \in Seq(Nat) /\ Len(c) = Len(a) + Len(b) /\ Len(a) \in Nat /\ Len(b) \in Nat
      /\ \A j \in 1 .. Len(a) : c[j] = a[j]
  BY Appended
<1> HIDE DEF c
<1>2. Len(a) <= Len(c) /\ Len(c) >= Len(a) /\ Len(a) \in Int /\ Len(a) <= Len(a) /\ 1 \in Nat \ {0}
  BY <1>1
<1>3. SubSeq(a, 1, Len(a)) = SubSeq(c, 1, Len(a))
  BY ONLY <1>1, <1>2, a \in Seq(Nat), SameStretch
<1>4. SubSeq(a, 1, Len(a)) = a
  OBVIOUS
<1> QED
  BY <1>2, <1>3, <1>4 DEF StartOf, c

(* The outbound stream after a write of n bytes that fit. *)
LEMMA WrittenInput ==
  ASSUME NEW i \in InputRecord, NEW n \in Nat, n <= AvailableCapacity(i), NEW eof \in BOOLEAN,
         NEW data, data = [k \in 1 .. n |-> BytesPushed(i) + k],
         NEW w, w = IF eof THEN WriterClose(WriterPush(i, data)) ELSE WriterPush(i, data)
  PROVE  /\ w \in InputRecord /\ w.popped = i.popped /\ w.error = i.error
         /\ Len(w.pushed) = Len(i.pushed) + n
         /\ \A j \in 1 .. Len(i.pushed) : w.pushed[j] = i.pushed[j]
         /\ StartOf(i.pushed, w.pushed)
<1> DEFINE p == i.pushed
           filled == WriterPush(i, data)
<1>1. p \in Seq(Nat) /\ Len(p) \in Nat /\ i.popped \in Nat /\ i.capacity \in Nat
  BY DEF InputRecord
<1>2. data \in Seq(Nat) /\ Len(data) = n
  BY <1>1 DEF BytesPushed
<1>3. Take(data, AvailableCapacity(i)) = data
  <2>1. AvailableCapacity(i) \in Int
    BY <1>1 DEF AvailableCapacity
  <2> QED
    BY <1>2, <2>1 DEF Take
<1>4. filled = [i EXCEPT !.pushed = p \o data]
  BY <1>3 DEF WriterPush
<1>5. /\ p \o data \in Seq(Nat) /\ Len(p \o data) = Len(p) + n
      /\ \A j \in 1 .. Len(p) : (p \o data)[j] = p[j]
  BY <1>1, <1>2, Appended
<1>6. StartOf(p, p \o data)
  BY <1>1, <1>2, StartOfJoined
<1> DEFINE q == p \o data
<1> HIDE DEF q, filled
<1>7. filled = [i EXCEPT !.pushed = q] /\ q \in Seq(Nat)
  BY <1>4, <1>5 DEF q
<1>8. /\ filled \in InputRecord /\ filled.pushed = q /\ filled.popped = i.popped
      /\ filled.error = i.error
  BY ONLY <1>7, i \in InputRecord DEF InputRecord
<1>9. LET c == WriterClose(filled)
      IN  c \in InputRecord /\ c.pushed = q /\ c.popped = i.popped /\ c.error = i.error
  BY ONLY <1>8 DEF InputRecord, WriterClose
<1>10. w = WriterClose(filled) \/ w = filled
  BY DEF filled
<1>11. w \in InputRecord /\ w.pushed = q /\ w.popped = i.popped /\ w.error = i.error
  BY ONLY <1>8, <1>9, <1>10
<1> QED
  BY <1>5, <1>6, <1>11 DEF q

(* Room for what may be written. *)
LEMMA BytesFit ==
  ASSUME sc \in Scenarios, NEW x \in Sides, NEW l \in Nat, l <= sc.bytes[x]
  PROVE  l + 2 + WinMax < AbsMod /\ 2 * (l + 3) <= SeqMod
<1> DEFINE b == sc.bytes[x]
<1>1. b \in Nat /\ 2 * (b + 3) <= SeqMod /\ l <= b
  BY Capacities
<1>2. SeqMod \in Nat /\ AbsMod \in Nat /\ 2 * SeqMod <= AbsMod
  BY WidthAssumption
<1>3. WinMax \in Nat /\ 2 * WinMax < SeqMod
  BY WindowAssumption
<1> HIDE DEF b
<1> QED
  BY ONLY <1>1, <1>2, <1>3, l \in Nat

(* Only a peer whose SYN is acknowledged is established. *)
LEMMA EstablishedHasSyn ==
  ASSUME NEW x, Established(x), GoodSender(peers[x].sender)
  PROVE  peers[x].sender.syn_sent
<1> DEFINE s == peers[x].sender
<1>1. s.next_seqno \in Nat /\ s.bytes_in_flight \in Nat /\ Accounted(s)
  BY SenderTypes DEF GoodSender
<1>2. s.next_seqno - s.bytes_in_flight >= 1
  BY DEF Established, AbsAck
<1> HIDE DEF s
<1>3. s.next_seqno # 0
  BY <1>1, <1>2
<1> QED
  BY <1>1, <1>3 DEF Accounted, s

(* Each action but the clock moves one side. *)
LEMMA WriteMoves ==
  ASSUME ConnectionInv, DirectionInv, NEW x \in Sides, NEW n \in Nat, NEW eof \in BOOLEAN,
         AppWrite(x, n, eof)
  PROVE  SideMoves(x)
<1> DEFINE p == peers[x]
           s == p.sender
           data == [i \in 1 .. n |-> BytesPushed(Outbound(p)) + i]
           filled == WriterPush(Outbound(p), data)
           input == IF eof THEN WriterClose(filled) ELSE filled
           v == [s EXCEPT !.input = input]
           q == [p EXCEPT !.sender.input = input]
           t == SenderPush(v)
           result == PeerPush(q)
<1>1. /\ sc \in Scenarios /\ sc' = sc /\ FlaggedState(peers, net, Errors)
      /\ Apply(x, result, net) /\ Established(x) /\ ~s.input.closed
      /\ n <= AvailableCapacity(s.input) /\ Len(s.input.pushed) + n <= sc.bytes[x]
  BY DEF ConnectionInv, AppWrite, MayWrite, Outbound, BytesPushed
<1>2. FlaggedState(peers, net, BOOLEAN) /\ BOOLEAN \in Flags
  BY <1>1, ErrorsAreFlags, StateWeaker DEF Flags
<1>3. FlaggedPeer(p, BOOLEAN) /\ peers = [z \in Sides |-> peers[z]] /\ net = [z \in Sides |-> net[z]]
  BY <1>1, <1>2 DEF FlaggedState
<1>4. /\ Sound(s) /\ ReceiverSend(p.receiver) \in AnyReceiverMessage
      /\ (~s.input.error => AbsAck(s) <= AckedThrough(peers[Other(x)].receiver))
  BY <1>1, DirectionFacts
<1>5. GoodSender(s) /\ CarriesStream(s) /\ s \in SenderRecord /\ s.input \in InputRecord /\ s.syn_sent
      /\ Len(s.outstanding) \in Nat /\ s.input.pushed \in Seq(Nat) /\ Len(s.input.pushed) \in Nat
  <2>1. GoodSender(s) /\ CarriesStream(s) /\ s \in SenderRecord
    BY <1>4 DEF Sound, GoodSender
  <2>2. s.input \in InputRecord
    BY <2>1 DEF SenderRecord
  <2>3. s.syn_sent
    BY <1>1, <2>1, EstablishedHasSyn
  <2> QED
    BY <2>1, <2>2, <2>3, SenderTypes
<1>6. FlaggedReceiver(p.receiver, BOOLEAN) /\ FlaggedSender(s, BOOLEAN)
  BY <1>3, PeerTypes
<1>7. /\ input \in InputRecord /\ input.popped = s.input.popped /\ input.error = s.input.error
      /\ Len(input.pushed) = Len(s.input.pushed) + n
      /\ \A j \in 1 .. Len(s.input.pushed) : input.pushed[j] = s.input.pushed[j]
      /\ StartOf(s.input.pushed, input.pushed)
  <2> DEFINE i == s.input
  <2>1. /\ data = [k \in 1 .. n |-> BytesPushed(i) + k]
        /\ input = IF eof THEN WriterClose(WriterPush(i, data)) ELSE WriterPush(i, data)
    BY DEF Outbound
  <2>2. i \in InputRecord /\ n <= AvailableCapacity(i)
    BY <1>1, <1>5
  <2> HIDE DEF data, input, filled, i
  <2>3. /\ input \in InputRecord /\ input.popped = i.popped /\ input.error = i.error
        /\ Len(input.pushed) = Len(i.pushed) + n
        /\ \A j \in 1 .. Len(i.pushed) : input.pushed[j] = i.pushed[j]
        /\ StartOf(i.pushed, input.pushed)
    BY <2>1, <2>2, WrittenInput
  <2> QED
    BY <2>3 DEF i
<1>8. q = [p EXCEPT !.sender = v]
  <2> HIDE DEF input, s
  <2> QED
    BY <1>3 DEF FlaggedPeer, s
<1> HIDE DEF input, data, filled
<1>9. Len(input.pushed) <= sc.bytes[x] /\ Len(input.pushed) \in Nat /\ Len(input.pushed) >= Len(s.input.pushed)
  BY <1>1, <1>5, <1>7
<1>10. Len(input.pushed) + 2 + WinMax < AbsMod /\ 2 * (Len(input.pushed) + 3) <= SeqMod
  BY <1>1, <1>9, BytesFit
<1>11. GoodSender(v) /\ v.next_seqno = s.next_seqno /\ AbsAck(v) = AbsAck(s) /\ Drops(s, v, 0)
  <2>1. s.fin_sent => input.closed /\ input.pushed = s.input.pushed
    BY <1>1, <1>5 DEF GoodSender, Accounted
  <2> QED
    BY <1>5, <1>7, <1>9, <1>10, <2>1, InputKeepsGood
<1>a. v = [s EXCEPT !.input = input]
  OBVIOUS
<1> HIDE DEF v
<1>12. v.isn = s.isn /\ v.syn_sent = s.syn_sent /\ v.fin_sent = s.fin_sent /\ v.input = input
  BY <1>5, <1>a DEF SenderRecord
<1>13. CarriesStream(v)
  <2>1. v \in SenderRecord /\ 0 \in 0 .. Len(s.outstanding)
    BY <1>5, <1>11 DEF GoodSender
  <2> QED
    BY <1>5, <1>11, <2>1, DropsCarries
<1>14. Roomy(v) /\ (v.input.closed => v.syn_sent)
  BY <1>5, <1>10, <1>12 DEF Roomy
<1>15. Continued(s, v)
  <2>1. ~s.fin_sent
    BY <1>1, <1>5 DEF GoodSender, Accounted
  <2>2. s.input.popped \in Nat /\ s.next_seqno \in Nat
    BY <1>5, SenderTypes
  <2>3. s.next_seqno <= v.next_seqno /\ s.input.popped <= v.input.popped
    BY <1>7, <1>11, <1>12, <2>2
  <2> QED
    BY <1>5, <1>7, <1>9, <1>11, <1>12, <2>1, <2>3, LongerContinues
<1>16. FlaggedPeer(q, BOOLEAN) /\ q.sender = v /\ q.receiver = p.receiver
  <2>1. FlaggedSender(v, BOOLEAN)
    <3>1. FlaggedStream(input, BOOLEAN)
      <4>1. FlaggedStream(s.input, BOOLEAN)
        BY <1>6, FlaggedSenderTypes
      <4>2. data \in Seq(Nat)
        BY <1>5 DEF data, BytesPushed, Outbound
      <4>3. FlaggedStream(filled, BOOLEAN)
        BY <4>1, <4>2, WriterPushGood DEF filled, Outbound
      <4> QED
        BY <4>3, WriterCloseGood DEF input
    <3> QED
      BY <1>6, <1>a, <3>1 DEF FlaggedSender
  <2> HIDE DEF q
  <2>2. q = [sender |-> v, receiver |-> p.receiver, need_send |-> p.need_send,
             linger_after_streams_finish |-> p.linger_after_streams_finish,
             since_last_receipt |-> p.since_last_receipt]
    BY <1>3, <1>8 DEF FlaggedPeer
  <2> QED
    BY <1>6, <2>1, <2>2, PeerBuilt
<1> HIDE DEF q
<1>17. /\ result.peer.sender = t /\ result.peer.receiver = p.receiver
       /\ result.messages \in Seq(Said(t, p.receiver))
  BY <1>4, <1>11, <1>13, <1>16, PeerPushSays
<1>18. Sound(t) /\ Continued(v, t) /\ AbsAck(t) = AbsAck(v) /\ t.input.error = v.input.error
  BY <1>11, <1>13, <1>14, PushIsSound
<1>19. t.input.pushed = input.pushed /\ t.input.closed = input.closed /\ input.closed \in BOOLEAN
  <2>1. input.closed \in BOOLEAN
    BY <1>7 DEF InputRecord
  <2> QED
    BY <1>11, <1>12, <2>1, PushEffects DEF GoodSender
<1>20. Continued(s, t)
  BY <1>5, <1>11, <1>15, <1>18, ContinuedTwice DEF Sound
<1> HIDE DEF result, t
<1>21. SenderGoesOn(x, t)
  <2>1. ~t.input.error => AbsAck(t) <= AckedThrough(peers[Other(x)].receiver)
    BY <1>4, <1>7, <1>11, <1>12, <1>18
  <2>2. Wrote(s.input, t.input)
    BY <1>1, <1>7, <1>19 DEF Wrote
  <2> QED
    BY <1>9, <1>18, <1>19, <1>20, <2>1, <2>2 DEF SenderGoesOn
<1> HIDE DEF s, p
<1>22. Moves(x, t, p.receiver) /\ peers'[x].sender = t /\ peers'[x].receiver = p.receiver
  <2>1. Apply(x, result, net) /\ sc' = sc /\ net[Other(x)] = net[Other(x)] /\ net[x] \subseteq net[x]
    BY <1>1
  <2> QED
    BY <1>3, <1>17, <2>1, ApplyMoves
<1>23. ReceiverGoesOn(x, p.receiver)
  BY <1>1, SenderMayRest DEF p
<1> QED
  BY <1>21, <1>22, <1>23 DEF SideMoves

-----------------------------------------------------------------------------
(* Arrivals *)

(* The longer of two prefixes begins with the shorter. *)
LEMMA StartOfStart ==
  ASSUME NEW c \in Seq(Nat), NEW k \in 0 .. Len(c), NEW l \in 0 .. Len(c), k <= l
  PROVE  StartOf(SubSeq(c, 1, k), SubSeq(c, 1, l)) /\ Len(SubSeq(c, 1, k)) = k
<1>1. Len(c) \in Nat /\ k \in Nat /\ l \in Nat
  OBVIOUS
<1> DEFINE a == SubSeq(c, 1, k)
           b == SubSeq(c, 1, l)
<1>2. a \in Seq(Nat) /\ Len(a) = k /\ \A i \in 1 .. k : a[i] = c[i]
  BY <1>1
<1>3. b \in Seq(Nat) /\ Len(b) = l /\ \A i \in 1 .. l : b[i] = c[i]
  BY <1>1
<1> HIDE DEF a, b
<1>4. /\ Len(b) >= Len(a) /\ Len(a) \in Int /\ Len(a) <= Len(a) /\ 1 \in Nat \ {0}
      /\ \A i \in 1 .. Len(a) : b[i] = a[i]
  BY <1>1, <1>2, <1>3
<1>5. SubSeq(a, 1, Len(a)) = SubSeq(b, 1, Len(a))
  BY ONLY <1>2, <1>3, <1>4, SameStretch
<1>6. SubSeq(a, 1, Len(a)) = a
  BY <1>2
<1> QED
  BY <1>1, <1>2, <1>3, <1>5, <1>6 DEF StartOf, a, b

(* A sender that has sent FIN has sent its whole stream. *)
LEMMA FinEndsStream ==
  ASSUME NEW s, GoodSender(s), s.fin_sent
  PROVE  s.input.closed /\ Sent(s) = s.input.pushed /\ s.input.popped = Len(s.input.pushed)
<1> DEFINE d == s.input.pushed
           n == s.input.popped
<1>1. d \in Seq(Nat) /\ Len(d) \in Nat /\ n \in Nat
  BY SenderTypes DEF GoodSender
<1>2. s.input.closed /\ Len(d) - n = 0
  BY DEF GoodSender, Accounted, BytesBuffered
<1>3. Sent(s) = SubSeq(d, 1, n)
  BY DEF Sent
<1> HIDE DEF d, n
<1>4. n = Len(d)
  BY <1>1, <1>2
<1>5. SubSeq(d, 1, Len(d)) = d
  BY <1>1
<1> QED
  BY <1>2, <1>3, <1>4, <1>5 DEF d, n

(* What a receiver has is a start of what was written, and all of it once  *)
(* the stream has ended.                                                   *)
LEMMA HasStart ==
  ASSUME NEW s, GoodSender(s), NEW cap \in Nat, NEW r, Follows(r, s, cap)
  PROVE  /\ Inbound(r).pushed = SubSeq(Sent(s), 1, Len(Inbound(r).pushed))
         /\ Len(Inbound(r).pushed) \in 0 .. Len(Sent(s)) /\ Sent(s) \in Seq(Nat)
         /\ StartOf(Inbound(r).pushed, s.input.pushed)
         /\ Inbound(r).closed /\ ~Inbound(r).error =>
                /\ Inbound(r).pushed = Sent(s) /\ s.fin_sent
                /\ s.input.closed /\ Inbound(r).pushed = s.input.pushed
<1> DEFINE d == s.input.pushed
           n == s.input.popped
           i == Inbound(r)
           c == Sent(s)
<1>1. /\ d \in Seq(Nat) /\ Len(d) \in Nat /\ n \in Nat /\ n <= Len(d) /\ c = SubSeq(d, 1, n)
  BY SenderTypes DEF GoodSender, Accounted, Sent
<1>2. c \in Seq(Nat) /\ Len(c) = n /\ Fits(c, cap) /\ GoodReassembler(r.reassembler, c, cap)
  BY SentFacts DEF Follows
<1>3. /\ i.pushed = SubSeq(c, 1, Len(i.pushed)) /\ Len(i.pushed) \in 0 .. Len(c)
      /\ (i.closed /\ ~i.error => i.pushed = c)
  <2> DEFINE q == r.reassembler
             o == q.output
  <2>1. Fits(c, cap) /\ GoodReassembler(q, c, cap) /\ i = o
    BY <1>2 DEF Inbound
  <2> HIDE DEF c, q, i
  <2>2. o.pushed = SubSeq(c, 1, Len(o.pushed)) /\ (o.closed /\ ~o.error => o.pushed = c)
    BY <2>1, OutputIsPrefix
  <2>3. Len(o.pushed) \in 0 .. Len(c)
    BY <2>1, OutputTypes
  <2> QED
    BY <2>1, <2>2, <2>3
<1>4. i.closed /\ ~i.error => s.fin_sent
  BY DEF Follows
<1>5. s.fin_sent => s.input.closed /\ c = d
  BY FinEndsStream
<1> HIDE DEF d, n, i, c
<1>6. StartOf(i.pushed, d)
  <2> DEFINE k == Len(i.pushed)
  <2>1. k \in 0 .. Len(d) /\ n \in 0 .. Len(d) /\ k \in 0 .. n
    BY <1>1, <1>2, <1>3
  <2> HIDE DEF k
  <2>2. SubSeq(c, 1, k) = SubSeq(d, 1, k)
    <3>1. c \in Seq(Nat) /\ Len(d) >= Len(c) /\ k \in Int /\ k <= Len(c) /\ 1 \in Nat \ {0}
      BY <1>1, <1>2, <2>1
    <3>2. \A j \in 1 .. Len(c) : d[j] = c[j]
      BY <1>1, <1>2
    <3> QED
      BY <1>1, <3>1, <3>2, SameStretch
  <2>3. StartOf(SubSeq(d, 1, k), SubSeq(d, 1, Len(d)))
    BY <1>1, <2>1, StartOfStart
  <2>4. SubSeq(d, 1, Len(d)) = d
    BY <1>1
  <2>5. i.pushed = SubSeq(c, 1, k)
    BY <1>3 DEF k
  <2> QED
    BY <2>2, <2>3, <2>4, <2>5
<1> QED
  BY <1>2, <1>3, <1>4, <1>5, <1>6 DEF d, i, c

(* The receiving half of an arrival (tcp_receiver.cc:7-29). *)
LEMMA ReceiverTakes ==
  ASSUME NEW s, Sound(s), NEW cap \in Nat, NEW r, Follows(r, s, cap), ~Inbound(r).error,
         NEW m, m.RST \/ IsPiece(m, s)
  PROVE  LET u == ReceiverReceive(r, m)
         IN  /\ Follows(u, s, cap) /\ AckedThrough(u) >= AckedThrough(r)
             /\ Received(Inbound(r), Inbound(u), s.input)
<1> DEFINE u == ReceiverReceive(r, m)
           i == Inbound(r)
           j == Inbound(u)
<1>1. GoodSender(s) /\ Roomy(s)
  BY DEF Sound
<1>2. CASE m.RST
  <2>1. /\ Follows(u, s, cap) /\ Grown(r.reassembler, u.reassembler, Sent(s), cap)
        /\ j.pushed = i.pushed /\ j.error = TRUE /\ j.closed = TRUE
    BY <1>1, <1>2, AbortTaken
  <2> HIDE DEF u
  <2>2. AckedThrough(u) >= AckedThrough(r)
    BY <1>1, <2>1, HasMore
  <2>3. Received(i, j, s.input)
    BY <2>1 DEF Received
  <2> QED
    BY <2>1, <2>2, <2>3 DEF u
<1>3. CASE ~m.RST
  <2>1. /\ Follows(u, s, cap) /\ Grown(r.reassembler, u.reassembler, Sent(s), cap)
        /\ j.error = i.error
    BY <1>1, <1>3, PieceTaken
  <2> HIDE DEF u
  <2>2. AckedThrough(u) >= AckedThrough(r)
    BY <1>1, <2>1, HasMore
  <2>3. /\ i.closed \in BOOLEAN /\ j.closed \in BOOLEAN /\ i.error \in BOOLEAN
    BY <1>1, <2>1, HasNumber
  <2>4. Len(j.pushed) >= Len(i.pushed) /\ (i.closed => j.closed)
    BY <2>1 DEF Grown, Inbound
  <2>5. /\ i.pushed = SubSeq(Sent(s), 1, Len(i.pushed)) /\ j.pushed = SubSeq(Sent(s), 1, Len(j.pushed))
        /\ Len(i.pushed) \in 0 .. Len(Sent(s)) /\ Len(j.pushed) \in 0 .. Len(Sent(s))
        /\ Sent(s) \in Seq(Nat) /\ StartOf(j.pushed, s.input.pushed)
        /\ (i.closed => i.pushed = Sent(s))
        /\ (j.closed => j.pushed = Sent(s) /\ s.input.closed /\ j.pushed = s.input.pushed)
    BY <1>1, <2>1, HasStart
  <2>6. CASE i.closed
    <3>1. j.pushed = i.pushed /\ j.closed = i.closed
      BY <2>3, <2>4, <2>5, <2>6
    <3> QED
      BY <2>1, <2>2, <3>1 DEF Received, u
  <2>7. CASE ~i.closed
    <3> DEFINE c == Sent(s)
               k == Len(i.pushed)
               l == Len(j.pushed)
    <3>1. c \in Seq(Nat) /\ k \in 0 .. Len(c) /\ l \in 0 .. Len(c) /\ k <= l
      <4>1. c \in Seq(Nat) /\ k \in 0 .. Len(c) /\ l \in 0 .. Len(c) /\ l >= k
        BY <2>4, <2>5
      <4> HIDE DEF c, k, l
      <4> QED
        BY <4>1
    <3>2. i.pushed = SubSeq(c, 1, k) /\ j.pushed = SubSeq(c, 1, l)
      BY <2>5
    <3> HIDE DEF c, k, l
    <3>3. StartOf(i.pushed, j.pushed)
      BY <3>1, <3>2, StartOfStart
    <3>4. Received(i, j, s.input)
      BY <2>1, <2>3, <2>5, <2>7, <3>3 DEF Received
    <3> QED
      BY <2>1, <2>2, <3>4 DEF u
  <2> QED
    BY <2>6, <2>7
<1> QED
  BY <1>2, <1>3

(* The sending half of an arrival (tcp_sender.cc:80-117). *)
LEMMA SenderTakes ==
  ASSUME NEW s, Sound(s), ~s.input.error, NEW cap \in Nat, NEW r, Follows(r, s, cap),
         NEW m, Acknowledges(m, r, s), AbsAck(s) <= AckedThrough(r)
  PROVE  LET t == SenderPush(SenderReceive(s, m))
         IN  /\ Sound(t) /\ Continued(s, t)
             /\ (~t.input.error => AbsAck(t) <= AckedThrough(r))
             /\ t.input.pushed = s.input.pushed /\ t.input.closed = s.input.closed
<1> DEFINE v == SenderReceive(s, m)
           t == SenderPush(v)
<1>1. GoodSender(s) /\ Roomy(s) /\ s \in SenderRecord /\ m \in AnyReceiverMessage
  BY DEF Sound, GoodSender, Acknowledges
<1>2. /\ Sound(t) /\ Continued(s, t) /\ AbsAck(t) = AbsAck(v) /\ t.input.error = v.input.error
      /\ GoodSender(v)
  BY <1>1, ReceiveIsSound
<1>3. v.input = IF m.RST THEN SetError(s.input) ELSE s.input
  BY <1>1, ReceiveEffects
<1>4. /\ SetError(s.input).pushed = s.input.pushed /\ SetError(s.input).closed = s.input.closed
      /\ SetError(s.input).error = TRUE
  BY <1>1 DEF SenderRecord, InputRecord, SetError
<1>5. t.input.pushed = v.input.pushed /\ t.input.closed = v.input.closed
  BY <1>2, PushEffects DEF GoodSender
<1>6. ASSUME ~m.RST
      PROVE  AbsAck(v) <= AckedThrough(r)
  BY <1>1, <1>6, OnlyHadIsDropped
<1> HIDE DEF v
<1>7. t.input.pushed = s.input.pushed /\ t.input.closed = s.input.closed
  BY <1>3, <1>4, <1>5
<1>8. ~t.input.error => AbsAck(t) <= AckedThrough(r)
  <2>1. CASE m.RST
    BY <1>2, <1>3, <1>4, <2>1
  <2>2. CASE ~m.RST
    BY <1>2, <1>6, <2>2
  <2> QED
    BY <2>1, <2>2
<1> QED
  BY <1>2, <1>7, <1>8 DEF v

(* Nothing happens to x, and at most something is lost on its way there. *)
LEMMA RestMoves ==
  ASSUME sc \in Scenarios, sc' = sc, DirectionInv, NEW x \in Sides,
         \A z \in Sides : peers'[z] = peers[z],
         net'[Other(x)] = net[Other(x)], net'[x] \subseteq net[x]
  PROVE  SideMoves(x)
<1>1. SenderGoesOn(x, peers[x].sender) /\ ReceiverGoesOn(x, peers[x].receiver)
  BY SenderMayRest
<1>2. peers'[x] = peers[x] /\ peers'[Other(x)] = peers[Other(x)]
  BY TheSides
<1> QED
  BY <1>1, <1>2 DEF SideMoves, Moves

(* A segment that the other side sent, or a foreign reset. *)
LEMMA ArriveMoves ==
  ASSUME ConnectionInv, DirectionInv, sc' = sc, NEW x \in Sides, NEW base,
         base = [z \in Sides |-> base[z]], base[Other(x)] = net[Other(x)], base[x] \subseteq net[x],
         NEW m \in Message(BOOLEAN), m.sender.RST \/ IsPiece(m.sender, peers[Other(x)].sender),
         Acknowledges(m.receiver, peers[Other(x)].receiver, peers[x].sender),
         Arrive(x, m, base)
  PROVE  SideMoves(x)
<1> DEFINE p == peers[x]
           s == p.sender
           r == p.receiver
           s2 == peers[Other(x)].sender
           r2 == peers[Other(x)].receiver
           cap == sc.recv_capacity
           result == PeerReceive(p, m)
<1>1. sc \in Scenarios /\ FlaggedState(peers, net, BOOLEAN)
  BY ErrorsAreFlags, StateWeaker DEF ConnectionInv
<1>2. FlaggedPeer(p, BOOLEAN) /\ peers = [z \in Sides |-> peers[z]]
  BY <1>1 DEF FlaggedState
<1>3. Other(x) \in Sides /\ Other(x) # x
  BY TheSides
<1>4. CASE Discards(x, m)
  <2>1. peers' = peers /\ net' = base
    BY <1>4 DEF Arrive
  <2> QED
    BY <1>1, <2>1, RestMoves
<1>5. CASE ~Discards(x, m) /\ ~Active(p)
  <2>1. Apply(x, result, base)
    BY <1>5 DEF Arrive
  <2>2. result = [peer |-> p, messages |-> <<>>]
    BY <1>5 DEF PeerReceive, Result
  <2> HIDE DEF result
  <2>3. result.peer = p /\ result.messages = <<>>
    BY <2>2
  <2>4. <<>> \in Seq(Said(s, r))
    OBVIOUS
  <2>5. result.peer.sender = s /\ result.peer.receiver = r /\ result.messages \in Seq(Said(s, r))
    BY <2>3, <2>4
  <2> HIDE DEF s, r, p
  <2>6. Moves(x, s, r) /\ peers'[x].sender = s /\ peers'[x].receiver = r
    BY <1>2, <2>1, <2>5, ApplyMoves
  <2>7. SenderGoesOn(x, s) /\ ReceiverGoesOn(x, r)
    BY <1>1, SenderMayRest DEF s, r, p
  <2> QED
    BY <2>6, <2>7 DEF SideMoves
<1>6. CASE ~Discards(x, m) /\ Active(p)
  <2> DEFINE t == SenderPush(SenderReceive(s, m.receiver))
             u == ReceiverReceive(r, m.sender)
  <2>1. Apply(x, result, base)
    BY <1>6 DEF Arrive
  <2>2. ~s.input.error /\ ~Inbound(r).error
    BY <1>6 DEF Active, AnyErrors, PeerInbound, Outbound
  <2>3. /\ Sound(s) /\ Sound(s2) /\ Follows(r2, s, cap) /\ Follows(r, s2, cap) /\ cap \in Nat
        /\ (~s.input.error => AbsAck(s) <= AckedThrough(r2))
    BY <1>1, <1>3, DirectionFacts
  <2>4. /\ Sound(t) /\ Continued(s, t) /\ (~t.input.error => AbsAck(t) <= AckedThrough(r2))
        /\ t.input.pushed = s.input.pushed /\ t.input.closed = s.input.closed
    BY <2>2, <2>3, SenderTakes
  <2>5. /\ Follows(u, s2, cap) /\ AckedThrough(u) >= AckedThrough(r)
        /\ Received(Inbound(r), Inbound(u), s2.input)
    BY <2>2, <2>3, ReceiverTakes
  <2>6. ReceiverSend(u) \in AnyReceiverMessage /\ m.receiver \in AnyReceiverMessage
    BY <2>3, <2>5, ReceiverAcknowledges DEF Acknowledges, Sound
  <2>7. /\ result.peer.sender = t /\ result.peer.receiver = u
        /\ result.messages \in Seq(Said(t, u))
    BY <1>2, <1>6, <2>3, <2>6, PeerReceiveSays
  <2>8. Len(s.input.pushed) <= sc.bytes[x]
    BY DEF DirectionInv
  <2> HIDE DEF t, u, result
  <2>9. SenderGoesOn(x, t)
    BY <2>4, <2>8 DEF SenderGoesOn, Wrote
  <2>10. ReceiverGoesOn(x, u)
    BY <2>5 DEF ReceiverGoesOn
  <2> HIDE DEF p, s, r, s2, r2, cap
  <2>11. Moves(x, t, u) /\ peers'[x].sender = t /\ peers'[x].receiver = u
    BY <1>2, <2>1, <2>7, ApplyMoves
  <2> QED
    BY <2>9, <2>10, <2>11 DEF SideMoves
<1> QED
  BY <1>4, <1>5, <1>6

LEMMA DeliverMoves ==
  ASSUME ConnectionInv, DirectionInv, NEW x \in Sides, NEW m \in net[x],
         Deliver(x, m) \/ DeliverCopy(x, m)
  PROVE  SideMoves(x)
<1> DEFINE rest == [net EXCEPT ![x] = @ \ {m}]
<1>1. sc' = sc /\ (Arrive(x, m, rest) \/ Arrive(x, m, net)) /\ FlaggedState(peers, net, BOOLEAN)
  BY ErrorsAreFlags, StateWeaker DEF ConnectionInv, Deliver, DeliverCopy
<1>2. m \in Message(BOOLEAN) /\ net = [z \in Sides |-> net[z]]
  BY <1>1 DEF FlaggedState
<1>3. Other(x) \in Sides /\ Other(x) # x /\ Other(Other(x)) = x
  BY TheSides
<1>4. /\ IsPiece(m.sender, peers[Other(x)].sender)
      /\ Acknowledges(m.receiver, peers[Other(x)].receiver, peers[x].sender)
  BY <1>3 DEF DirectionInv, Direction
<1>5. rest = [z \in Sides |-> rest[z]] /\ rest[Other(x)] = net[Other(x)] /\ rest[x] \subseteq net[x]
  BY <1>2, <1>3
<1>6. net[Other(x)] = net[Other(x)] /\ net[x] \subseteq net[x]
  OBVIOUS
<1> HIDE DEF rest
<1> QED
  BY <1>1, <1>2, <1>4, <1>5, <1>6, ArriveMoves

LEMMA ResetMoves ==
  ASSUME ConnectionInv, DirectionInv, NEW x \in Sides, ForeignReset(x)
  PROVE  SideMoves(x)
<1>1. sc' = sc /\ Arrive(x, Reset, net) /\ FlaggedState(peers, net, BOOLEAN)
  BY ErrorsAreFlags, StateWeaker DEF ConnectionInv, ForeignReset
<1>2. net = [z \in Sides |-> net[z]] /\ net[Other(x)] = net[Other(x)] /\ net[x] \subseteq net[x]
  BY <1>1 DEF FlaggedState
<1> DEFINE yes == TRUE
           ans == ReceiverMessage(NoSeqno, 0, yes)
<1>3. Reset.sender.RST /\ Reset.receiver = ans
  BY DEF Reset, TCPMessage, SenderMessage
<1>4. ans \in AnyReceiverMessage /\ ans.ackno = NoSeqno
  <2>1. 0 \in 0 .. WinMax /\ yes \in BOOLEAN
    BY WindowAssumption
  <2> HIDE DEF yes
  <2> QED
    BY <2>1 DEF ReceiverMessage, AnyReceiverMessage
<1> HIDE DEF ans
<1>5. Acknowledges(Reset.receiver, peers[Other(x)].receiver, peers[x].sender)
  BY <1>3, <1>4 DEF Acknowledges
<1> QED
  BY <1>1, <1>2, <1>3, <1>5, ResetGood, ArriveMoves

LEMMA LoseMoves ==
  ASSUME ConnectionInv, DirectionInv, NEW x \in Sides, NEW m, Lose(x, m)
  PROVE  SideMoves(x)
<1>1. /\ sc \in Scenarios /\ sc' = sc /\ FlaggedState(peers, net, Errors)
      /\ peers' = peers /\ net' = [net EXCEPT ![x] = @ \ {m}]
  BY DEF ConnectionInv, Lose
<1>2. net = [z \in Sides |-> net[z]] /\ Other(x) \in Sides /\ Other(x) # x
  BY <1>1, TheSides DEF FlaggedState
<1>3. net'[Other(x)] = net[Other(x)] /\ net'[x] \subseteq net[x]
  BY <1>1, <1>2
<1> QED
  BY <1>1, <1>3, RestMoves

LEMMA ReadMoves ==
  ASSUME ConnectionInv, DirectionInv, NEW x \in Sides, NEW n \in Nat, AppRead(x, n)
  PROVE  SideMoves(x)
<1> DEFINE p == peers[x]
           s == p.sender
           r == p.receiver
           u == [r EXCEPT !.reassembler = ReadOutput(@, n)]
           q == [p EXCEPT !.receiver = u]
           s2 == peers[Other(x)].sender
           cap == sc.recv_capacity
<1>1. /\ sc \in Scenarios /\ sc' = sc /\ FlaggedState(peers, net, BOOLEAN) /\ net' = net
      /\ peers' = [peers EXCEPT ![x].receiver.reassembler = ReadOutput(@, n)]
      /\ n <= BytesBuffered(Inbound(r))
  BY ErrorsAreFlags, StateWeaker DEF ConnectionInv, AppRead, PeerInbound
<1>2. FlaggedPeer(p, BOOLEAN) /\ peers = [z \in Sides |-> peers[z]]
  BY <1>1 DEF FlaggedState
<1>3. FlaggedReceiver(r, BOOLEAN)
  BY <1>2, PeerTypes
<1>4. peers' = [peers EXCEPT ![x] = q]
  BY <1>1, <1>2, <1>3 DEF FlaggedPeer, FlaggedReceiver
<1>5. Follows(r, s2, cap) /\ GoodSender(s2) /\ cap \in Nat
  BY <1>1, DirectionFacts
<1>a. u = [r EXCEPT !.reassembler = ReadOutput(@, n)]
  OBVIOUS
<1> HIDE DEF u
<1>6. /\ Follows(u, s2, cap) /\ Grown(r.reassembler, u.reassembler, Sent(s2), cap)
      /\ Inbound(u).pushed = Inbound(r).pushed /\ Inbound(u).closed = Inbound(r).closed
      /\ Inbound(u).error = Inbound(r).error
  <2>1. u = [reassembler |-> ReadOutput(r.reassembler, n), isn |-> r.isn]
    BY <1>3, <1>a DEF FlaggedReceiver
  <2>2. n <= BytesBuffered(Inbound(r))
    BY <1>1
  <2> HIDE DEF s2, r, cap
  <2> QED
    BY ONLY <1>5, <2>1, <2>2, n \in Nat, ReadFollows
<1>7. q.sender = s /\ q.receiver = u
  BY <1>2 DEF FlaggedPeer
<1> HIDE DEF q
<1>8. AckedThrough(u) >= AckedThrough(r)
  BY <1>5, <1>6, HasMore
<1>9. ReceiverGoesOn(x, u)
  BY <1>6, <1>8 DEF ReceiverGoesOn, Received
<1>10. SenderGoesOn(x, s)
  BY <1>1, SenderMayRest
<1>11. Other(x) \in Sides /\ Other(x) # x
  BY TheSides
<1>12. peers'[x] = q /\ peers'[Other(x)] = peers[Other(x)]
  BY <1>2, <1>4, <1>11
<1>13. Moves(x, s, u)
  BY <1>1, <1>7, <1>12 DEF Moves
<1> QED
  BY <1>7, <1>9, <1>10, <1>12, <1>13 DEF SideMoves

LEMMA FailMoves ==
  ASSUME ConnectionInv, DirectionInv, NEW x \in Sides, AppFail(x)
  PROVE  SideMoves(x)
<1> DEFINE p == peers[x]
           s == p.sender
           i == SetError(s.input)
           t == [s EXCEPT !.input = i]
           q == [p EXCEPT !.sender = t]
<1>1. /\ sc \in Scenarios /\ sc' = sc /\ FlaggedState(peers, net, BOOLEAN) /\ net' = net
      /\ peers' = [peers EXCEPT ![x].sender.input = SetError(@)]
  BY ErrorsAreFlags, StateWeaker DEF ConnectionInv, AppFail
<1>2. FlaggedPeer(p, BOOLEAN) /\ peers = [z \in Sides |-> peers[z]]
  BY <1>1 DEF FlaggedState
<1>3. /\ Sound(s) /\ GoodSender(s) /\ CarriesStream(s) /\ Roomy(s) /\ s \in SenderRecord
      /\ (s.input.closed => s.syn_sent)
  <2>1. Sound(s)
    BY <1>1, DirectionFacts
  <2> QED
    BY <2>1 DEF Sound, GoodSender
<1>4. peers' = [peers EXCEPT ![x] = q]
  BY <1>1, <1>2 DEF FlaggedPeer
<1>5. s.input \in InputRecord
  BY <1>3 DEF SenderRecord
<1>6. /\ i \in InputRecord /\ i.pushed = s.input.pushed /\ i.popped = s.input.popped
      /\ i.closed = s.input.closed /\ i.error = TRUE
  BY <1>5 DEF InputRecord, SetError
<1>7. /\ Len(s.input.pushed) \in Nat /\ Len(s.outstanding) \in Nat /\ s.next_seqno \in Nat
      /\ Len(s.input.pushed) + 2 + WinMax < AbsMod /\ (s.fin_sent => s.input.closed)
  BY <1>3, SenderTypes DEF GoodSender, Accounted
<1> HIDE DEF i
<1>8. GoodSender(t) /\ t.next_seqno = s.next_seqno /\ Drops(s, t, 0)
  <2>1. Len(i.pushed) >= Len(s.input.pushed) /\ Len(i.pushed) + 2 + WinMax < AbsMod
    BY <1>6, <1>7
  <2>2. /\ s.fin_sent => i.closed /\ i.pushed = s.input.pushed
        /\ \A j \in 1 .. Len(s.input.pushed) : i.pushed[j] = s.input.pushed[j]
    BY <1>6, <1>7
  <2> HIDE DEF s
  <2> QED
    BY <1>3, <1>6, <2>1, <2>2, InputKeepsGood
<1>a. t = [s EXCEPT !.input = i]
  OBVIOUS
<1> HIDE DEF t
<1>9. t.isn = s.isn /\ t.syn_sent = s.syn_sent /\ t.fin_sent = s.fin_sent /\ t.input = i
  BY ONLY <1>3, <1>a DEF SenderRecord
<1>10. CarriesStream(t)
  <2>1. t \in SenderRecord /\ 0 \in 0 .. Len(s.outstanding)
    BY <1>7, <1>8 DEF GoodSender
  <2> QED
    BY <1>3, <1>8, <2>1, DropsCarries
<1>11. Continued(s, t)
  BY <1>3, <1>6, <1>8, <1>9, StaysContinued
<1>12. Sound(t)
  BY <1>3, <1>6, <1>8, <1>9, <1>10 DEF Sound, Roomy
<1>13. Len(s.input.pushed) <= sc.bytes[x]
  BY DEF DirectionInv
<1>14. SenderGoesOn(x, t)
  BY <1>6, <1>9, <1>11, <1>12, <1>13 DEF SenderGoesOn, Wrote
<1>15. q.sender = t /\ q.receiver = p.receiver
  BY <1>2 DEF FlaggedPeer
<1> HIDE DEF q
<1>16. ReceiverGoesOn(x, p.receiver)
  BY <1>1, SenderMayRest
<1>17. Other(x) \in Sides /\ Other(x) # x
  BY TheSides
<1>18. peers'[x] = q /\ peers'[Other(x)] = peers[Other(x)]
  BY <1>2, <1>4, <1>17
<1>19. Moves(x, t, p.receiver)
  BY <1>1, <1>15, <1>18 DEF Moves
<1> QED
  BY <1>14, <1>15, <1>16, <1>18, <1>19 DEF SideMoves

-----------------------------------------------------------------------------
(* The passing of time, and every step *)

(* In this step each side x may have sent something again, and nothing     *)
(* else has happened.                                                      *)
TimePasses ==
    /\ sc' = sc
    /\ \A x \in Sides :
        LET s == peers[x].sender
            t == peers'[x].sender
            r == peers[x].receiver
        IN  /\ Sound(t) /\ Continued(s, t) /\ t.input = s.input /\ AbsAck(t) = AbsAck(s)
            /\ peers'[x].receiver = r
            /\ \A m \in net'[Other(x)] : m \in net[Other(x)] \/ m \in Said(t, r)

(* The clock moves both. *)
LEMMA ElapseMoves ==
  ASSUME ConnectionInv, DirectionInv, Elapse
  PROVE  TimePasses
<1> DEFINE After(x) == IF Active(peers[x]) THEN PeerTick(peers[x], 1) ELSE Result(peers[x], <<>>)
<1>1. /\ sc \in Scenarios /\ sc' = sc /\ FlaggedState(peers, net, BOOLEAN)
      /\ peers' = [x \in Sides |-> After(x).peer]
      /\ net' = [x \in Sides |-> Carry(net[x], After(Other(x)).messages)]
  <2>1. \A x \in Sides : Other(x) \in Sides
    BY TheSides
  <2>2. sc \in Scenarios /\ FlaggedState(peers, net, BOOLEAN)
    BY ErrorsAreFlags, StateWeaker DEF ConnectionInv
  <2> QED
    BY <2>1, <2>2 DEF Elapse
<1>2. ASSUME NEW x \in Sides
      PROVE  /\ Sound(After(x).peer.sender) /\ Continued(peers[x].sender, After(x).peer.sender)
             /\ After(x).peer.sender.input = peers[x].sender.input
             /\ AbsAck(After(x).peer.sender) = AbsAck(peers[x].sender)
             /\ After(x).peer.receiver = peers[x].receiver
             /\ After(x).messages \in Seq(Said(After(x).peer.sender, peers[x].receiver))
  <2> DEFINE p == peers[x]
             s == p.sender
  <2>1. FlaggedPeer(p, BOOLEAN) /\ Sound(s) /\ ReceiverSend(p.receiver) \in AnyReceiverMessage
    BY <1>1, DirectionFacts DEF FlaggedState
  <2>2. CASE Active(p)
    <3> DEFINE t == SenderTick(s, 1)
               result == PeerTick(p, 1)
    <3>1. After(x) = result /\ 1 \in Nat
      BY <2>2
    <3>2. /\ result.peer.sender = t /\ result.peer.receiver = p.receiver
          /\ result.messages \in Seq(Said(t, p.receiver))
      BY <2>1, <3>1, PeerTickSays
    <3>3. Sound(t) /\ Continued(s, t) /\ AbsAck(t) = AbsAck(s) /\ t.input = s.input
      BY <2>1, <3>1, TickIsSound
    <3> HIDE DEF After, result, t
    <3> QED
      BY <3>1, <3>2, <3>3
  <2>3. CASE ~Active(p)
    <3>1. After(x).peer = p /\ After(x).messages = <<>>
      BY <2>3 DEF Result
    <3>2. <<>> \in Seq(Said(s, p.receiver)) /\ Continued(s, s)
      BY <2>1, SoundStays
    <3> HIDE DEF After
    <3> QED
      BY <2>1, <3>1, <3>2
  <2> QED
    BY <2>2, <2>3
<1> HIDE DEF After
<1>3. ASSUME NEW x \in Sides
      PROVE  LET s == peers[x].sender
                 t == peers'[x].sender
                 r == peers[x].receiver
             IN  /\ Sound(t) /\ Continued(s, t) /\ t.input = s.input /\ AbsAck(t) = AbsAck(s)
                 /\ peers'[x].receiver = r
                 /\ \A m \in net'[Other(x)] : m \in net[Other(x)] \/ m \in Said(t, r)
  <2> DEFINE y == Other(x)
             p == After(x).peer
             ms == After(x).messages
             r == peers[x].receiver
  <2>1. y \in Sides /\ Other(y) = x
    BY TheSides
  <2>2. peers'[x] = p /\ net'[y] = Carry(net[y], ms)
    BY <1>1, <2>1
  <2>3. ms \in Seq(Said(p.sender, r))
    BY <1>2
  <2> HIDE DEF y, ms
  <2>4. \A m \in net'[y] : m \in net[y] \/ m \in Said(p.sender, r)
    BY <2>2, <2>3, CarrySays
  <2> QED
    BY <1>2, <2>2, <2>4 DEF y
<1> QED
  BY <1>1, <1>3 DEF TimePasses

(* Time makes senders repeat what they sent, and no receiver moves. *)
LEMMA TimeKeepsDirections ==
  ASSUME sc \in Scenarios, DirectionInv, TimePasses
  PROVE  DirectionInv'
<1>1. ASSUME NEW x \in Sides
      PROVE  /\ Len(peers'[x].sender.input.pushed) <= sc'.bytes[x]
             /\ Direction(peers'[x].sender, peers'[Other(x)].receiver, sc'.recv_capacity,
                          net'[Other(x)], net'[x])
  <2> DEFINE y == Other(x)
             s == peers[x].sender
             t == peers'[x].sender
             r == peers[y].receiver
             t2 == peers'[y].sender
             cap == sc.recv_capacity
  <2>1. y \in Sides /\ Other(y) = x /\ cap \in Nat
    BY TheSides, Capacities
  <2>2. Direction(s, r, cap, net[y], net[x]) /\ Len(s.input.pushed) <= sc.bytes[x]
    BY DEF DirectionInv
  <2>3. /\ sc' = sc /\ Sound(t) /\ Continued(s, t) /\ t.input = s.input /\ AbsAck(t) = AbsAck(s)
        /\ (\A m \in net'[y] : m \in net[y] \/ m \in Said(t, peers[x].receiver))
    BY DEF TimePasses
  <2>4. peers'[y].receiver = r /\ (\A m \in net'[x] : m \in net[x] \/ m \in Said(t2, r))
    BY <2>1 DEF TimePasses
  <2> HIDE DEF y, s, t, r, t2, cap
  <2>5. /\ GoodSender(s) /\ GoodSender(t) /\ Follows(r, s, cap)
        /\ (~s.input.error => AbsAck(s) <= AckedThrough(r))
    BY <2>2, <2>3 DEF Direction, Sound
  <2>6. Follows(r, t, cap)
    BY <2>1, <2>3, <2>5, FollowsOn
  <2>7. AckedThrough(r) >= AckedThrough(r)
    <3>1. AckedThrough(r) \in Nat
      BY <2>1, <2>5, HasNumber
    <3> QED
      BY <3>1
  <2>8. \A m \in net'[y] : m \in net[y] \/ IsPiece(m.sender, t)
    BY <2>3 DEF Said, Spoken
  <2>9. \A m \in net'[x] : m \in net[x] \/ Acknowledges(m.receiver, r, t)
    BY <2>1, <2>4, <2>5, <2>6, SaidAcknowledges
  <2>10. ~t.input.error => AbsAck(t) <= AckedThrough(r)
    BY <2>3, <2>5
  <2>11. Direction(t, r, cap, net'[y], net'[x])
    BY <2>1, <2>2, <2>3, <2>6, <2>7, <2>8, <2>9, <2>10, DirectionMoves
  <2>12. Len(t.input.pushed) <= sc'.bytes[x]
    BY <2>2, <2>3
  <2>13. sc'.recv_capacity = cap
    BY <2>3 DEF cap
  <2> QED
    BY <2>4, <2>11, <2>12, <2>13 DEF y, t
<1> QED
  BY <1>1 DEF DirectionInv

LEMMA EveryStepMoves ==
  ASSUME ConnectionInv, DirectionInv, Next
  PROVE  (\E x \in Sides : SideMoves(x)) \/ TimePasses
<1>1. sc \in Scenarios
  BY DEF ConnectionInv
<1>2. CASE Connect
  <2>1. "client" \in Sides /\ SideMoves("client")
    BY <1>2, ConnectMoves DEF Sides
  <2> QED
    BY <2>1
<1>3. CASE Elapse
  BY <1>3, ElapseMoves
<1>4. ASSUME NEW x \in Sides, NEW n \in 0 .. sc.bytes[x], NEW eof \in BOOLEAN, AppWrite(x, n, eof)
      PROVE  SideMoves(x)
  <2>1. n \in Nat
    BY <1>1, Capacities
  <2> QED
    BY <1>4, <2>1, WriteMoves
<1>5. ASSUME NEW x \in Sides, NEW n \in 1 .. sc.recv_capacity, AppRead(x, n)
      PROVE  SideMoves(x)
  <2>1. n \in Nat
    BY <1>1, Capacities
  <2> QED
    BY <1>5, <2>1, ReadMoves
<1>6. ASSUME NEW x \in Sides, NEW m \in net[x], Deliver(x, m) \/ DeliverCopy(x, m)
      PROVE  SideMoves(x)
  BY <1>6, DeliverMoves
<1>7. ASSUME NEW x \in Sides, NEW m \in net[x], Lose(x, m)
      PROVE  SideMoves(x)
  BY <1>7, LoseMoves
<1>8. ASSUME NEW x \in Sides, AppFail(x) \/ ForeignReset(x)
      PROVE  SideMoves(x)
  BY <1>8, FailMoves, ResetMoves
<1> QED
  BY <1>2, <1>3, <1>4, <1>5, <1>6, <1>7, <1>8 DEF Next

LEMMA DirectionStep ==
  ASSUME ConnectionInv, DirectionInv, [Next]_vars
  PROVE  DirectionInv'
<1>1. sc \in Scenarios
  BY DEF ConnectionInv
<1>2. CASE Next
  <2>1. ASSUME NEW x \in Sides, SideMoves(x)
        PROVE  DirectionInv'
    BY <1>1, <2>1, MoveKeepsDirections DEF SideMoves
  <2>2. ASSUME TimePasses
        PROVE  DirectionInv'
    BY <1>1, <2>2, TimeKeepsDirections
  <2> QED
    BY <1>2, <2>1, <2>2, EveryStepMoves
<1>3. CASE UNCHANGED vars
  BY <1>3 DEF vars, DirectionInv
<1> QED
  BY <1>2, <1>3

LEMMA DirectionInit == Init => DirectionInv
<1> SUFFICES ASSUME Init, NEW x \in Sides
             PROVE  /\ Len(peers[x].sender.input.pushed) <= sc.bytes[x]
                    /\ Direction(peers[x].sender, peers[Other(x)].receiver, sc.recv_capacity,
                                 net[Other(x)], net[x])
  BY DEF DirectionInv
<1> DEFINE y == Other(x)
           isn == IF x = "client" THEN ClientISN ELSE ServerISN
           cap == sc.recv_capacity
           s == NewSender(SendCapacity, isn, RTO)
           r == NewReceiver(cap)
<1>1. y \in Sides /\ sc \in Scenarios /\ cap \in Nat /\ sc.bytes[x] \in Nat
  BY TheSides, Capacities DEF Init
<1>2. peers[x].sender = s /\ peers[y].receiver = r /\ net[x] = {} /\ net[y] = {}
  BY <1>1 DEF Init, NewPeer
<1>3. isn \in Seqno /\ SendCapacity \in Nat /\ RTO \in Nat
  BY ConnectionAssumption
<1>4. 2 + WinMax < AbsMod /\ 2 * (0 + 3) <= SeqMod
  <2>1. 0 \in Nat /\ 0 <= sc.bytes[x]
    BY <1>1
  <2>2. 0 + 2 + WinMax < AbsMod /\ 2 * (0 + 3) <= SeqMod
    BY <1>1, <2>1, BytesFit
  <2> QED
    BY <2>2, WindowAssumption
<1> HIDE DEF isn
<1>5. GoodSender(s) /\ CarriesStream(s)
  BY <1>3, <1>4, NewSenderIsGood
<1>6. /\ s.input.pushed = <<>> /\ ~s.input.closed /\ ~s.syn_sent
      /\ s.next_seqno = 0 /\ s.bytes_in_flight = 0
  BY DEF NewSender, NewStream
<1> HIDE DEF s
<1>7. Len(s.input.pushed) = 0 /\ AbsAck(s) = 0
  BY <1>6 DEF AbsAck
<1>8. Roomy(s)
  BY <1>4, <1>7 DEF Roomy
<1>9. Sound(s)
  BY <1>5, <1>6, <1>8 DEF Sound
<1>10. Follows(r, s, cap) /\ AckedThrough(r) = 1
  BY <1>1, <1>5, NewReceiverFollows
<1> HIDE DEF r
<1>11. Direction(s, r, cap, {}, {})
  BY <1>7, <1>9, <1>10 DEF Direction
<1> QED
  BY <1>1, <1>2, <1>7, <1>11

-----------------------------------------------------------------------------
(* What follows for the two ends *)

(* What the invariant says in the words of the properties. *)
LEMMA DirectionsMakeEndsAgree == sc \in Scenarios /\ DirectionInv => EndsAgree
<1> SUFFICES ASSUME sc \in Scenarios, DirectionInv, NEW x \in Sides,
                    ~Broken(peers[x]), ~Broken(peers[Other(x)]),
                    peers[Other(x)].receiver.isn # NoSeqno
             PROVE  LET s == peers[x].sender
                        rcv == peers[Other(x)].receiver
                        has == 1 + BytesPushed(Inbound(rcv)) + Bit(Inbound(rcv).closed)
                    IN  AbsAck(s) <= has /\ has <= s.next_seqno
  BY DEF EndsAgree
<1> DEFINE s == peers[x].sender
           r == peers[Other(x)].receiver
           cap == sc.recv_capacity
<1>1. ~s.input.error /\ ~Inbound(r).error
  BY DEF Broken, AnyErrors, PeerInbound, Outbound
<1>2. GoodSender(s) /\ Follows(r, s, cap) /\ cap \in Nat /\ AbsAck(s) <= AckedThrough(r)
  BY <1>1, DirectionFacts
<1>3. 1 + BytesPushed(Inbound(r)) + Bit(Inbound(r).closed) = AckedThrough(r)
  BY DEF AckedThrough, Bit
<1>4. AckedThrough(r) <= s.next_seqno
  BY <1>1, <1>2, HasWasSent
<1> QED
  BY <1>2, <1>3, <1>4

(* A sender with nothing in flight and nothing left to say. *)
LEMMA QuietSenderHasFinished ==
  ASSUME NEW s, Sound(s), ~s.input.error, s.bytes_in_flight = 0, IsFinished(s.input)
  PROVE  s.fin_sent /\ AbsAck(s) = 2 + Len(s.input.pushed)
<1>1. GoodSender(s) /\ s.syn_sent /\ s.input.closed
  BY DEF Sound, IsFinished
<1>2. /\ s.next_seqno \in Nat /\ s.bytes_in_flight \in Nat /\ Len(s.outstanding) \in Nat
      /\ s.outstanding \in Seq(MessageRecord) /\ s.input.popped \in Nat /\ Len(s.input.pushed) \in Nat
      /\ s \in SenderRecord
  BY <1>1, SenderTypes DEF GoodSender
<1>3. s.outstanding = <<>>
  <2>1. SUFFICES ASSUME s.outstanding # <<>>
                 PROVE  FALSE
    OBVIOUS
  <2> DEFINE n == Len(s.outstanding)
  <2>2. n > 0 /\ n \in 1 .. n
    <3> DEFINE M == MessageRecord
               q == s.outstanding
    <3>1. q \in Seq(M) /\ q # <<>>
      BY <1>2, <2>1
    <3> HIDE DEF M, q
    <3>2. Len(q) > 0 /\ Len(q) \in Nat
      BY <3>1
    <3> QED
      BY <3>2 DEF q
  <2>3. /\ SequenceLength(s.outstanding[n]) > 0 /\ AbsAck(s) <= SegmentStart(s, n)
        /\ SegmentEnd(s, n) <= s.next_seqno
    BY <1>1, <2>2 DEF GoodSender, TilesFlight
  <2>4. SegmentStart(s, n) \in Int /\ SequenceLength(s.outstanding[n]) \in Nat
    BY <1>2, <2>2, SegmentTypes
  <2>5. AbsAck(s) = s.next_seqno - 0
    BY DEF AbsAck
  <2> DEFINE a == SegmentStart(s, n)
             l == SequenceLength(s.outstanding[n])
             e == s.next_seqno
  <2>6. a \in Int /\ l \in Nat /\ l > 0 /\ e \in Nat /\ e - 0 <= a /\ a + l <= e
    BY <1>2, <2>3, <2>4, <2>5 DEF SegmentEnd
  <2> HIDE DEF a, l, e
  <2> QED
    BY ONLY <2>6
<1>4. ~s.timer.running
  BY <1>1, <1>3 DEF GoodSender, TimerRunsWithFlight
<1>5. s.fin_sent
  BY <1>1, <1>4 DEF Sound, Unsent
<1>6. s.input.popped = Len(s.input.pushed)
  BY <1>1, <1>5, FinEndsStream
<1>7. s.next_seqno = 1 + s.input.popped + 1
  BY <1>1, <1>5 DEF GoodSender, Accounted, Bit
<1>8. AbsAck(s) = s.next_seqno
  BY <1>2 DEF AbsAck
<1> QED
  BY <1>2, <1>5, <1>6, <1>7, <1>8

(* All of a stream and its end has been acknowledged, so it has arrived. *)
LEMMA AllAcknowledgedArrived ==
  ASSUME NEW s, GoodSender(s), NEW cap \in Nat, NEW r, Follows(r, s, cap), ~Inbound(r).error,
         2 + Len(s.input.pushed) <= AckedThrough(r)
  PROVE  Inbound(r).closed /\ Inbound(r).pushed = s.input.pushed
<1> DEFINE l == Len(s.input.pushed)
           k == Len(Inbound(r).pushed)
           c == Inbound(r).closed
           n == s.input.popped
<1>1. /\ AckedThrough(r) = 1 + k + (IF c THEN 1 ELSE 0) /\ k \in 0 .. n /\ c \in BOOLEAN
  BY HasNumber
<1>2. l \in Nat /\ n \in Nat /\ n <= l
  BY SenderTypes DEF GoodSender, Accounted
<1>3. 2 + l <= 1 + k + (IF c THEN 1 ELSE 0)
  BY <1>1
<1>4. c
  <2> HIDE DEF l, k, c, n
  <2> QED
    BY <1>1, <1>2, <1>3
<1>5. Inbound(r).pushed = s.input.pushed
  BY <1>4, HasStart
<1> QED
  BY <1>4, <1>5

LEMMA DirectionsLetNobodyLeaveEarly == sc \in Scenarios /\ DirectionInv => NobodyLeavesEarly
<1> SUFFICES ASSUME sc \in Scenarios, DirectionInv, NEW x \in Sides
             PROVE  LET p == peers[x]
                        q == peers[Other(x)]
                        unsaid == \/ BytesBuffered(Outbound(p)) > 0
                                  \/ Outbound(p).closed /\ ~p.sender.fin_sent
                    IN  /\ ~Active(p) /\ ~Broken(p) /\ ~Broken(q) =>
                               /\ PeerInbound(q).closed /\ PeerInbound(q).pushed = Outbound(p).pushed
                               /\ PeerInbound(p).closed /\ PeerInbound(p).pushed = Outbound(q).pushed
                        /\ Active(p) /\ p.sender.syn_sent /\ unsaid => p.sender.timer.running
  BY DEF NobodyLeavesEarly
<1> DEFINE p == peers[x]
           q == peers[Other(x)]
           s == p.sender
           cap == sc.recv_capacity
<1>1. /\ Sound(s) /\ GoodSender(s) /\ Follows(q.receiver, s, cap)
      /\ Follows(p.receiver, q.sender, cap) /\ GoodSender(q.sender) /\ cap \in Nat
      /\ (~s.input.error => AbsAck(s) <= AckedThrough(q.receiver))
  BY DirectionFacts
<1>2. ASSUME ~Active(p), ~Broken(p), ~Broken(q)
      PROVE  /\ PeerInbound(q).closed /\ PeerInbound(q).pushed = Outbound(p).pushed
             /\ PeerInbound(p).closed /\ PeerInbound(p).pushed = Outbound(q).pushed
  <2>1. ~s.input.error /\ ~Inbound(p.receiver).error /\ ~Inbound(q.receiver).error
    BY <1>2 DEF Broken, AnyErrors, PeerInbound, Outbound
  <2>2. ~(s.bytes_in_flight > 0) /\ IsFinished(s.input) /\ Inbound(p.receiver).closed
    BY <1>2 DEF Active, Broken, SenderActive, ReceiverActive, Outbound, PeerInbound
  <2>3. s.bytes_in_flight = 0
    <3>1. s.bytes_in_flight \in Nat
      BY <1>1, SenderTypes DEF GoodSender
    <3> QED
      BY <2>2, <3>1
  <2>4. AbsAck(s) = 2 + Len(s.input.pushed) /\ AbsAck(s) <= AckedThrough(q.receiver)
    BY <1>1, <2>1, <2>2, <2>3, QuietSenderHasFinished
  <2>5. Inbound(q.receiver).closed /\ Inbound(q.receiver).pushed = s.input.pushed
    BY <1>1, <2>1, <2>4, AllAcknowledgedArrived
  <2>6. Inbound(p.receiver).pushed = q.sender.input.pushed
    BY <1>1, <2>1, <2>2, HasStart
  <2> QED
    BY <2>2, <2>5, <2>6 DEF PeerInbound, Outbound
<1>3. ASSUME Active(p), s.syn_sent,
             BytesBuffered(Outbound(p)) > 0 \/ (Outbound(p).closed /\ ~s.fin_sent)
      PROVE  s.timer.running
  BY <1>1, <1>3 DEF Active, AnyErrors, Sound, Unsent, Outbound
<1> QED
  BY <1>2, <1>3

(* For one direction: bytes are written, or they arrive, or neither. *)
LEMMA OneEndAtATime ==
  ASSUME ConnectionInv, DirectionInv, [Next]_vars, NEW x \in Sides
  PROVE  LET i == Outbound(peers[x])
             j == Outbound(peers'[x])
             a == PeerInbound(peers[Other(x)])
             b == PeerInbound(peers'[Other(x)])
         IN  \/ Wrote(i, j) /\ b.pushed = a.pushed /\ b.closed = a.closed /\ b.error = a.error
             \/ j.pushed = i.pushed /\ j.closed = i.closed /\ Received(a, b, i)
<1> DEFINE y == Other(x)
           i == peers[x].sender.input
           j == peers'[x].sender.input
           a == Inbound(peers[y].receiver)
           b == Inbound(peers'[y].receiver)
           rests == b.pushed = a.pushed /\ b.closed = a.closed /\ b.error = a.error
           keeps == j.pushed = i.pushed /\ j.closed = i.closed
           goal == (Wrote(i, j) /\ rests) \/ (keeps /\ Received(a, b, i))
<1>1. y \in Sides /\ Other(y) = x /\ \A z \in Sides : z = x \/ z = y
  BY TheSides
<1>2. ASSUME SideMoves(x)
      PROVE  goal
  <2>1. peers'[y] = peers[y] /\ Wrote(i, j)
    BY <1>2 DEF SideMoves, Moves, SenderGoesOn
  <2>2. rests
    BY <2>1
  <2> QED
    BY <2>1, <2>2
<1>3. ASSUME SideMoves(y)
      PROVE  goal
  <2>1. peers'[x] = peers[x] /\ Received(a, b, i)
    BY <1>1, <1>3 DEF SideMoves, Moves, ReceiverGoesOn
  <2>2. keeps
    BY <2>1
  <2> QED
    BY <2>1, <2>2
<1>4. ASSUME peers'[x].sender.input = peers[x].sender.input, peers'[y].receiver = peers[y].receiver
      PROVE  goal
  BY <1>4 DEF Wrote
<1>5. ASSUME TimePasses
      PROVE  goal
  <2>1. peers'[x].sender.input = peers[x].sender.input /\ peers'[y].receiver = peers[y].receiver
    BY <1>1, <1>5 DEF TimePasses
  <2> QED
    BY <1>4, <2>1
<1>6. ASSUME UNCHANGED vars
      PROVE  goal
  BY <1>4, <1>6 DEF vars
<1> HIDE DEF goal
<1>7. goal
  BY <1>1, <1>2, <1>3, <1>5, <1>6, EveryStepMoves
<1> QED
  BY <1>7 DEF goal, Outbound, PeerInbound

(* Every step of a connection is one of the stream to the server or a      *)
(* stutter.                                                                *)
LEMMA ToServerStep ==
  ASSUME ConnectionInv, DirectionInv, [Next]_vars
  PROVE  [ToServer!Next]_(ToServer!svars)
<1>1. "client" \in Sides /\ Other("client") = "server"
  BY DEF Sides, Other
<1> DEFINE i == Outbound(peers["client"])
           j == Outbound(peers'["client"])
           a == PeerInbound(peers["server"])
           b == PeerInbound(peers'["server"])
<1>2. \/ Wrote(i, j) /\ b.pushed = a.pushed /\ b.closed = a.closed /\ b.error = a.error
      \/ j.pushed = i.pushed /\ j.closed = i.closed /\ Received(a, b, i)
  BY <1>1, OneEndAtATime
<1> QED
  BY <1>2 DEF Wrote, Received, StartOf, ToServer!Next, ToServer!Write, ToServer!Deliver, ToServer!Break,
              ToServer!IsPrefixOf, ToServer!svars

(* And of the stream to the client. *)
LEMMA ToClientStep ==
  ASSUME ConnectionInv, DirectionInv, [Next]_vars
  PROVE  [ToClient!Next]_(ToClient!svars)
<1>1. "server" \in Sides /\ Other("server") = "client"
  BY DEF Sides, Other
<1> DEFINE i == Outbound(peers["server"])
           j == Outbound(peers'["server"])
           a == PeerInbound(peers["client"])
           b == PeerInbound(peers'["client"])
<1>2. \/ Wrote(i, j) /\ b.pushed = a.pushed /\ b.closed = a.closed /\ b.error = a.error
      \/ j.pushed = i.pushed /\ j.closed = i.closed /\ Received(a, b, i)
  BY <1>1, OneEndAtATime
<1> QED
  BY <1>2 DEF Wrote, Received, StartOf, ToClient!Next, ToClient!Write, ToClient!Deliver, ToClient!Break,
              ToClient!IsPrefixOf, ToClient!svars

LEMMA StreamsStartEmpty == Init => ToServer!Init /\ ToClient!Init
<1> SUFFICES ASSUME Init
             PROVE  ToServer!Init /\ ToClient!Init
  OBVIOUS
<1>1. ASSUME NEW x \in Sides
      PROVE  /\ Outbound(peers[x]).pushed = <<>> /\ Outbound(peers[x]).closed = FALSE
             /\ PeerInbound(peers[x]).pushed = <<>> /\ PeerInbound(peers[x]).closed = FALSE
             /\ PeerInbound(peers[x]).error = FALSE
  BY DEF Init, NewPeer, NewSender, NewReceiver, NewReassembler, NewStream, Outbound, PeerInbound, Inbound
<1>2. "client" \in Sides /\ "server" \in Sides
  BY DEF Sides
<1> QED
  BY <1>1, <1>2 DEF ToServer!Init, ToClient!Init

LEMMA DirectionsHold == Spec => [](ConnectionInv /\ DirectionInv)
<1>1. Init => ConnectionInv /\ DirectionInv
  BY InitGood, DirectionInit
<1>2. (ConnectionInv /\ DirectionInv) /\ [Next]_vars => (ConnectionInv /\ DirectionInv)'
  BY ConnectionStep, DirectionStep
<1> QED
  BY <1>1, <1>2, PTL DEF Spec

(* As long as a connection is unbroken, a sender has dropped from its      *)
(* queue only what the other end has, and the other end has only what was  *)
(* sent, whatever was lost, repeated, reordered or sent again, for every   *)
(* window, capacity and payload size and any initial sequence numbers      *)
(* (tcp_sender.cc:80-117, tcp_receiver.cc:7-46).                           *)
THEOREM TheEndsAgree == Spec => []EndsAgree
<1>1. ConnectionInv /\ DirectionInv => EndsAgree
  BY DirectionsMakeEndsAgree DEF ConnectionInv
<1> QED
  BY <1>1, DirectionsHold, PTL

(* A peer goes out of an unbroken connection only when both streams have   *)
(* arrived whole, at both ends; and one that stays and still has something *)
(* to say has its retransmission timer running, so that neither a lost     *)
(* segment nor a lost acknowledgement leaves it waiting (tcp_peer.hh:39-48,*)
(* tcp_sender.cc:8-70).                                                    *)
THEOREM PeersLeaveLast == Spec => []NobodyLeavesEarly
<1>1. ConnectionInv /\ DirectionInv => NobodyLeavesEarly
  BY DirectionsLetNobodyLeaveEarly DEF ConnectionInv
<1> QED
  BY <1>1, DirectionsHold, PTL

(* Each direction of the connection implements ReliableStream: through the *)
(* two byte streams, the sender, the wire, the receiver and the            *)
(* reassembler, the bytes written arrive in order and once, and the stream *)
(* ends where the writer ended it, unless the connection breaks            *)
(* (tcp_minnow_socket_impl.hh, rules 1 to 3; tcp_peer.hh:50-83).           *)
THEOREM ConnectionImplementsStreams == Spec => BothDirectionsAreReliable
<1>1. Init => ToServer!Init /\ ToClient!Init
  BY StreamsStartEmpty
<1>2. ConnectionInv /\ DirectionInv /\ [Next]_vars =>
          [ToServer!Next]_(ToServer!svars) /\ [ToClient!Next]_(ToClient!svars)
  BY ToServerStep, ToClientStep
<1> QED
  BY <1>1, <1>2, DirectionsHold, PTL DEF Spec, BothDirectionsAreReliable, ToServer!Spec, ToClient!Spec
=============================================================================
