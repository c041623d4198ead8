-------------------------- MODULE TCPSenderProofs ---------------------------
(***************************************************************************)
(* The invariants of TCPSenderSpec proved for every window size, payload   *)
(* size, sequence-number width and stream length.                          *)
(*                                                                         *)
(* The invariants are not inductive one by one: that bytes_in_flight does  *)
(* not underflow needs the tiling of the flight by the queue, the tiling   *)
(* needs residues to be read back unambiguously, that needs the flight to  *)
(* fit the window field, and that needs the window flag.  GoodSender       *)
(* (TCPLemmas) is their conjunction.                                       *)
(*                                                                         *)
(* The last part shows that the loops of push() and receive() compute the  *)
(* closed forms that all of this is about: after k turns exactly the first *)
(* k segments have gone out, or have been popped, and a turn after the     *)
(* last of them changes nothing.  The turns are a recursive function and   *)
(* the argument is by the least turn that would not be so.                 *)
(***************************************************************************)
EXTENDS TCPSenderLoops, TCPLemmas

(* The sender is as it was set up, and no more was written than may be. *)
Configured ==
    /\ snd.isn = ISN /\ snd.input.capacity = SendCapacity /\ snd.timer.initial_RTO = InitialRTO
    /\ Len(snd.input.pushed) <= MaxBytes

(* What every step of the sender does: it keeps the invariant, never moves *)
(* the left edge back, and uses new numbers only up to the right edge.     *)
LEMMA StepKeepsGood ==
  ASSUME GoodSender(snd), Configured, Next
  PROVE  /\ GoodSender(snd')
         /\ AbsAck(snd') >= AbsAck(snd)
         /\ snd'.next_seqno > snd.next_seqno => snd'.next_seqno <= RightEdge(snd)
         /\ snd' = SenderPush(snd) \/ \E c \in 0 .. Len(snd.outstanding) : Drops(snd, snd', c)
<1>0. /\ snd \in SenderRecord /\ AbsAck(snd) \in Nat /\ snd.next_seqno \in Nat
      /\ snd.input \in InputRecord
      /\ snd.input.pushed \in Seq(Nat) /\ Len(snd.input.pushed) \in Nat
      /\ Len(snd.input.pushed) <= MaxBytes
      /\ snd.fin_sent => snd.input.closed
  <2>1. snd \in SenderRecord
    BY DEF GoodSender
  <2> QED
    BY <2>1, PushNumbers, SenderTypes DEF GoodSender, Accounted, SenderRecord, Configured
<1>1. ASSUME NEW n \in 1 .. MaxBytes, Write(n)
      PROVE  /\ GoodSender(snd') /\ AbsAck(snd') >= AbsAck(snd) /\ snd'.next_seqno = snd.next_seqno
             /\ Drops(snd, snd', 0)
  <2> DEFINE data == FreshBytes(n)
             i == WriterPush(snd.input, data)
  <2>1. n \in Nat /\ data \in Seq(Nat) /\ Len(data) = n
    <3>1. n \in Nat
      BY SenderAssumption
    <3> QED
      BY <1>0, <3>1 DEF FreshBytes, BytesPushed
  <2>2. Take(data, AvailableCapacity(snd.input)) = data
    <3>1. n <= AvailableCapacity(snd.input) /\ AvailableCapacity(snd.input) \in Int
      <4>1. n <= AvailableCapacity(snd.input)
        BY <1>1 DEF Write
      <4>2. snd.input.capacity \in Int /\ snd.input.popped \in Int
        BY <1>0, SenderAssumption DEF InputRecord
      <4> QED
        BY <1>0, <4>1, <4>2 DEF AvailableCapacity, BytesBuffered
    <3> HIDE DEF data
    <3> QED
      BY <2>1, <3>1 DEF Take
  <2> HIDE DEF data
  <2>3. i = [snd.input EXCEPT !.pushed = @ \o data]
    BY <2>2 DEF WriterPush
  <2>4. /\ snd.input.pushed \o data \in Seq(Nat)
        /\ Len(snd.input.pushed \o data) = Len(snd.input.pushed) + n
        /\ \A j \in 1 .. Len(snd.input.pushed) : (snd.input.pushed \o data)[j] = snd.input.pushed[j]
    <3> DEFINE p == snd.input.pushed
    <3>1. p \in Seq(Nat) /\ data \in Seq(Nat) /\ Len(data) = n
      BY <1>0, <2>1
    <3> HIDE DEF p
    <3>2. /\ p \o data \in Seq(Nat)
          /\ Len(p \o data) = Len(p) + Len(data)
          /\ \A j \in 1 .. Len(p) : (p \o data)[j] = p[j]
      BY ONLY <3>1, Appended, Zenon
    <3> QED
      BY <3>1, <3>2, Zenon DEF p
  <2> HIDE DEF i
  <2>5. /\ i \in InputRecord /\ i.popped = snd.input.popped
        /\ i.pushed = snd.input.pushed \o data
    BY <1>0, <2>3, <2>4 DEF InputRecord
  <2>6. Len(i.pushed) >= Len(snd.input.pushed) /\ Len(i.pushed) + 2 + WinMax < AbsMod
    <3>1. Len(snd.input.pushed) + n <= MaxBytes
      BY <1>1 DEF Write, BytesPushed
    <3>2. Len(i.pushed) = Len(snd.input.pushed) + n
      BY <2>4, <2>5
    <3> DEFINE l == Len(snd.input.pushed)
               k == Len(i.pushed)
    <3>3. /\ l \in Nat /\ n \in Nat /\ k = l + n /\ l + n <= MaxBytes /\ MaxBytes \in Nat
          /\ WinMax \in Nat /\ MaxBytes + 2 + WinMax < AbsMod /\ AbsMod \in Nat
      BY <1>0, <2>1, <3>1, <3>2, SenderAssumption, WindowAssumption, WidthAssumption
    <3> HIDE DEF l, k
    <3>4. k >= l /\ k + 2 + WinMax < AbsMod
      BY ONLY <3>3
    <3> QED
      BY <3>4 DEF l, k
  <2>7. ~snd.fin_sent
    BY <1>0, <1>1 DEF Write
  <2>8. snd' = [snd EXCEPT !.input = i]
    BY <1>1 DEF Write, i, data
  <2>0. \A j \in 1 .. Len(snd.input.pushed) : i.pushed[j] = snd.input.pushed[j]
    BY <2>4, <2>5
  <2>9. /\ GoodSender([snd EXCEPT !.input = i])
        /\ [snd EXCEPT !.input = i].next_seqno = snd.next_seqno
        /\ AbsAck([snd EXCEPT !.input = i]) = AbsAck(snd)
        /\ Drops(snd, [snd EXCEPT !.input = i], 0)
    BY <2>0, <2>5, <2>6, <2>7, InputKeepsGood
  <2> QED
    BY <1>0, <2>8, <2>9
<1>2. ASSUME Close
      PROVE  /\ GoodSender(snd') /\ AbsAck(snd') >= AbsAck(snd) /\ snd'.next_seqno = snd.next_seqno
             /\ Drops(snd, snd', 0)
  <2> DEFINE i == WriterClose(snd.input)
  <2>1. /\ i \in InputRecord /\ i.popped = snd.input.popped
        /\ i.pushed = snd.input.pushed /\ i.closed = TRUE
    BY <1>0 DEF InputRecord, WriterClose
  <2>2. snd' = [snd EXCEPT !.input = i]
    BY <1>2 DEF Close
  <2> HIDE DEF i
  <2>3. /\ Len(i.pushed) >= Len(snd.input.pushed) /\ Len(i.pushed) + 2 + WinMax < AbsMod
        /\ snd.fin_sent => i.closed /\ i.pushed = snd.input.pushed
        /\ \A j \in 1 .. Len(snd.input.pushed) : i.pushed[j] = snd.input.pushed[j]
    BY <1>0, <2>1, SenderAssumption, WindowAssumption, WidthAssumption
  <2>4. /\ GoodSender([snd EXCEPT !.input = i])
        /\ [snd EXCEPT !.input = i].next_seqno = snd.next_seqno
        /\ AbsAck([snd EXCEPT !.input = i]) = AbsAck(snd)
        /\ Drops(snd, [snd EXCEPT !.input = i], 0)
    BY <2>1, <2>3, InputKeepsGood
  <2> QED
    BY <1>0, <2>2, <2>4
<1>3. ASSUME Fail
      PROVE  /\ GoodSender(snd') /\ AbsAck(snd') >= AbsAck(snd) /\ snd'.next_seqno = snd.next_seqno
             /\ Drops(snd, snd', 0)
  <2> DEFINE i == SetError(snd.input)
  <2>1. /\ i \in InputRecord /\ i.popped = snd.input.popped
        /\ i.pushed = snd.input.pushed /\ i.closed = snd.input.closed
    BY <1>0 DEF InputRecord, SetError
  <2>2. snd' = [snd EXCEPT !.input = i]
    BY <1>3 DEF Fail
  <2> HIDE DEF i
  <2>3. /\ Len(i.pushed) >= Len(snd.input.pushed) /\ Len(i.pushed) + 2 + WinMax < AbsMod
        /\ snd.fin_sent => i.closed /\ i.pushed = snd.input.pushed
        /\ \A j \in 1 .. Len(snd.input.pushed) : i.pushed[j] = snd.input.pushed[j]
    BY <1>0, <2>1, SenderAssumption, WindowAssumption, WidthAssumption
  <2>4. /\ GoodSender([snd EXCEPT !.input = i])
        /\ [snd EXCEPT !.input = i].next_seqno = snd.next_seqno
        /\ AbsAck([snd EXCEPT !.input = i]) = AbsAck(snd)
        /\ Drops(snd, [snd EXCEPT !.input = i], 0)
    BY <2>1, <2>3, InputKeepsGood
  <2> QED
    BY <1>0, <2>2, <2>4
<1>4. ASSUME Push
      PROVE  /\ GoodSender(snd') /\ AbsAck(snd') >= AbsAck(snd)
             /\ snd'.next_seqno > snd.next_seqno => snd'.next_seqno <= RightEdge(snd)
             /\ snd' = SenderPush(snd)
  BY <1>0, <1>4, PushKeepsGood DEF Push
<1>5. ASSUME NEW m \in AnyReceiverMessage, Receive(m)
      PROVE  /\ GoodSender(snd') /\ AbsAck(snd') >= AbsAck(snd) /\ snd'.next_seqno = snd.next_seqno
             /\ \E c \in 0 .. Len(snd.outstanding) : Drops(snd, snd', c)
  BY <1>5, ReceiveKeepsGood DEF Receive
<1>6. ASSUME NEW ms \in 1 .. MaxElapse, Tick(ms)
      PROVE  /\ GoodSender(snd') /\ AbsAck(snd') >= AbsAck(snd) /\ snd'.next_seqno = snd.next_seqno
             /\ Drops(snd, snd', 0)
  <2>1. ms \in Nat
    BY SenderAssumption
  <2>2. /\ GoodSender(SenderTick(snd, ms))
        /\ SenderTick(snd, ms).next_seqno = snd.next_seqno
        /\ AbsAck(SenderTick(snd, ms)) = AbsAck(snd)
        /\ Drops(snd, SenderTick(snd, ms), 0)
    BY <2>1, TickKeepsGood
  <2>3. snd' = SenderTick(snd, ms)
    BY <1>6 DEF Tick
  <2> QED
    BY <1>0, <2>2, <2>3
<1>7. /\ snd'.next_seqno = snd.next_seqno => ~(snd'.next_seqno > snd.next_seqno)
      /\ 0 \in 0 .. Len(snd.outstanding)
  BY <1>0, SenderTypes
<1> QED
  BY <1>1, <1>2, <1>3, <1>4, <1>5, <1>6, <1>7 DEF Next

(* What the last call transmitted is a sequence of messages. *)
LEMMA SentType ==
  ASSUME GoodSender(snd), Next
  PROVE  sent' \in Seq(MessageRecord)
<1>1. CASE Push
  BY <1>1, TransmitTypes DEF Push
<1>2. CASE \E ms \in 1 .. MaxElapse : Tick(ms)
  BY <1>2, TransmitTypes DEF Tick
<1>3. CASE \/ \E n \in 1 .. MaxBytes : Write(n)
           \/ Close \/ Fail
           \/ \E m \in AnyReceiverMessage : Receive(m)
  BY <1>3, EmptySeq DEF Write, Close, Fail, Receive
<1> QED
  BY <1>1, <1>2, <1>3 DEF Next

(* No call changes the settings, and only a write adds to the stream. *)
LEMMA StaysConfigured ==
  ASSUME GoodSender(snd), Configured, Next
  PROVE  Configured'
<1>0. snd \in SenderRecord /\ snd.input \in InputRecord
  BY DEF GoodSender, SenderRecord
<1>1. ASSUME NEW n \in 1 .. MaxBytes, Write(n)
      PROVE  Configured'
  <2> DEFINE data == FreshBytes(n)
             rest == Take(data, AvailableCapacity(snd.input))
  <2>1. n \in Nat /\ data \in Seq(Nat) /\ Len(data) = n
    BY <1>0, SenderAssumption DEF FreshBytes, BytesPushed, InputRecord
  <2>2. rest = data
    <3>1. n <= AvailableCapacity(snd.input) /\ AvailableCapacity(snd.input) \in Int
      <4>1. n <= AvailableCapacity(snd.input)
        BY <1>1 DEF Write
      <4>2. snd.input.capacity \in Int /\ snd.input.popped \in Int /\ Len(snd.input.pushed) \in Int
        BY <1>0 DEF InputRecord
      <4> QED
        BY <4>1, <4>2 DEF AvailableCapacity
    <3> HIDE DEF data
    <3> QED
      BY <2>1, <3>1 DEF Take
  <2> HIDE DEF data, rest
  <2>3. snd' = [snd EXCEPT !.input = [snd.input EXCEPT !.pushed = @ \o data]]
    BY <1>1, <2>2 DEF Write, WriterPush, data, rest
  <2>4. /\ snd'.isn = snd.isn /\ snd'.timer = snd.timer
        /\ snd'.input = [snd.input EXCEPT !.pushed = @ \o data]
    BY <1>0, <2>3 DEF SenderRecord
  <2>5. snd'.input.capacity = snd.input.capacity /\ snd'.input.pushed = snd.input.pushed \o data
    BY <1>0, <2>4 DEF InputRecord
  <2>6. Len(snd.input.pushed \o data) = Len(snd.input.pushed) + n
    <3>1. snd.input.pushed \in Seq(Nat)
      BY <1>0 DEF InputRecord
    <3> QED
      BY <2>1, <3>1, Appended
  <2>7. Len(snd.input.pushed) + n <= MaxBytes
    BY <1>1 DEF Write, BytesPushed
  <2> QED
    BY <2>4, <2>5, <2>6, <2>7 DEF Configured
<1>2. CASE Close
  BY <1>0, <1>2 DEF Close, WriterClose, Configured, SenderRecord, InputRecord
<1>3. CASE Fail
  BY <1>0, <1>3 DEF Fail, SetError, Configured, SenderRecord, InputRecord
<1>4. CASE Push
  BY <1>0, <1>4, PushEffects DEF Push, Configured, SameSetting
<1>5. ASSUME NEW m \in AnyReceiverMessage, Receive(m)
      PROVE  Configured'
  <2>1. SameSetting(snd, snd') /\ snd'.input = IF m.RST THEN SetError(snd.input) ELSE snd.input
    BY <1>0, <1>5, ReceiveEffects DEF Receive
  <2>2. snd'.input.pushed = snd.input.pushed
    BY <1>0, <2>1 DEF SetError, InputRecord
  <2> QED
    BY <2>1, <2>2 DEF Configured, SameSetting
<1>6. ASSUME NEW ms \in 1 .. MaxElapse, Tick(ms)
      PROVE  Configured'
  <2>1. ms \in Nat
    BY SenderAssumption
  <2>2. SameSetting(snd, snd') /\ snd'.input = snd.input
    BY <1>0, <1>6, <2>1, TickEffects DEF Tick
  <2> QED
    BY <2>2 DEF Configured, SameSetting
<1> QED
  BY <1>1, <1>2, <1>3, <1>4, <1>5, <1>6 DEF Next

(* The inductive invariant. *)
SenderInv == GoodSender(snd) /\ Configured /\ CarriesStream(snd) /\ sent \in Seq(MessageRecord)

(* The sender's invariant holds in every reachable state, under every      *)
(* sequence of calls and messages (tcp_sender.cc:13-132).                  *)
THEOREM SenderStaysGood == Spec => []SenderInv
<1>1. Init => SenderInv
  <2> SUFFICES ASSUME Init PROVE SenderInv
    OBVIOUS
  <2>1. GoodSender(snd) /\ CarriesStream(snd)
    <3>1. 2 + WinMax < AbsMod
      BY SenderAssumption, WindowAssumption, WidthAssumption
    <3> QED
      BY <3>1, NewSenderIsGood, SenderAssumption DEF Init
  <2>2. Configured
    <3>1. snd.input = NewStream(SendCapacity) /\ snd.isn = ISN /\ snd.timer = NewTimer(InitialRTO)
      BY DEF Init, NewSender
    <3>2. Len(snd.input.pushed) = 0
      BY <3>1 DEF NewStream
    <3> QED
      BY <3>1, <3>2, SenderAssumption DEF Configured, NewStream, NewTimer
  <2> QED
    BY <2>1, <2>2, EmptySeq DEF Init, SenderInv
<1>2. SenderInv /\ [Next]_vars => SenderInv'
  <2> SUFFICES ASSUME SenderInv, [Next]_vars PROVE SenderInv'
    OBVIOUS
  <2> USE DEF SenderInv
  <2>1. CASE Next
    <3>1. /\ GoodSender(snd')
          /\ snd' = SenderPush(snd) \/ \E c \in 0 .. Len(snd.outstanding) : Drops(snd, snd', c)
      BY <2>1, StepKeepsGood
    <3>2. ASSUME snd' = SenderPush(snd)
          PROVE  CarriesStream(snd')
      <4>1. CarriesStream(SenderPush(snd))
        BY PushKeepsCarrying
      <4> QED
        BY <3>2, <4>1
    <3>3. ASSUME NEW c \in 0 .. Len(snd.outstanding), Drops(snd, snd', c)
          PROVE  CarriesStream(snd')
      <4>1. snd' \in SenderRecord
        BY <3>1 DEF GoodSender
      <4> QED
        BY <3>3, <4>1, DropsCarries
    <3> QED
      BY <2>1, <3>1, <3>2, <3>3, SentType, StaysConfigured
  <2>2. CASE UNCHANGED vars
    BY <2>2 DEF vars, Configured
  <2> QED
    BY <2>1, <2>2
<1> QED
  BY <1>1, <1>2, PTL DEF Spec

(* The queue of unacknowledged segments tiles the flight, the timer runs   *)
(* exactly while there is one, every sequence number is accounted for and  *)
(* the flight fits the window field, for every width, window, payload size *)
(* and stream, under every sequence of calls and messages                  *)
(* (tcp_sender.cc:13-132).                                                 *)
THEOREM SenderIsConsistent ==
    Spec => [](/\ TypeOK /\ OutstandingTilesFlight /\ TimerGuardsFlight
               /\ Accounted(snd) /\ snd.bytes_in_flight <= WinMax)
<1>1. SenderInv
        => /\ TypeOK /\ OutstandingTilesFlight /\ TimerGuardsFlight
           /\ Accounted(snd) /\ snd.bytes_in_flight <= WinMax
  BY DEF SenderInv, Configured, GoodSender, TypeOK, OutstandingTilesFlight, TimerGuardsFlight
<1> QED
  BY <1>1, SenderStaysGood, PTL

(* The types of the sender and of what it transmits, in every state. *)
THEOREM SenderTypesHold == Spec => []TypeOK
<1>1. SenderInv => TypeOK
  BY DEF SenderInv, Configured, GoodSender, TypeOK
<1> QED
  BY <1>1, SenderStaysGood, PTL

(* The retransmission timer runs exactly while a segment is outstanding    *)
(* (tcp_sender.cc:54-57, 79, 108-115).                                     *)
THEOREM SenderTimerGuards == Spec => []TimerGuardsFlight
<1>1. SenderInv => TimerGuardsFlight
  BY DEF SenderInv, GoodSender, TimerGuardsFlight
<1> QED
  BY <1>1, SenderStaysGood, PTL

(* What waits for retransmission is what the application wrote at its      *)
(* place in the stream, however the stream was cut into segments, and with *)
(* SYN and FIN at its two ends only (tcp_sender.cc:22-54).                 *)
THEOREM SenderSegmentsCarryStream == Spec => []SegmentsCarryStream
<1>1. SenderInv => SegmentsCarryStream
  BY DEF SenderInv, SegmentsCarryStream
<1> QED
  BY <1>1, SenderStaysGood, PTL

(* New sequence numbers stay inside the window in force, FIN and the probe *)
(* of a closed window included (tcp_sender.cc:61-73).                      *)
THEOREM SenderRespectsWindow == Spec => WindowRespected
<1>1. SenderInv /\ [Next]_vars
        => [snd'.next_seqno > snd.next_seqno =>
              snd'.next_seqno <= AbsAck(snd) + (IF snd.window_size = 0 THEN 1 ELSE snd.window_size)]_vars
  <2> SUFFICES ASSUME SenderInv, Next
               PROVE  snd'.next_seqno > snd.next_seqno =>
                        snd'.next_seqno <= AbsAck(snd) + (IF snd.window_size = 0 THEN 1 ELSE snd.window_size)
    OBVIOUS
  <2>1. snd'.next_seqno > snd.next_seqno => snd'.next_seqno <= RightEdge(snd)
    BY StepKeepsGood DEF SenderInv
  <2>2. RightEdge(snd) = AbsAck(snd) + (IF snd.window_size = 0 THEN 1 ELSE snd.window_size)
    BY DEF SenderInv, GoodSender, RightEdge, EffectiveWindow
  <2> QED
    BY <2>1, <2>2
<1> QED
  BY <1>1, SenderStaysGood, PTL DEF Spec, WindowRespected

(* The left edge of the flight never moves back: no acknowledgement, reset *)
(* or timeout makes the sender forget what was acknowledged.               *)
THEOREM SenderLeftEdgeAdvances == Spec => LeftEdgeOnlyAdvances
<1>1. SenderInv /\ [Next]_vars => [AbsAck(snd') >= AbsAck(snd)]_vars
  BY StepKeepsGood DEF SenderInv
<1> QED
  BY <1>1, SenderStaysGood, PTL DEF Spec, LeftEdgeOnlyAdvances

(* In every reachable state push() leaves a sender with something to say   *)
(* with a segment in flight and its timer running (tcp_sender.cc:61-73).   *)
THEOREM SenderNeverStalls == Spec => []NeverSilentlyStalls
<1>1. SenderInv => NeverSilentlyStalls
  BY PushNeverStalls DEF SenderInv, NeverSilentlyStalls
<1> QED
  BY <1>1, SenderStaysGood, PTL
-----------------------------------------------------------------------------
(* The loops of push() and receive(), turn by turn. *)
Turn(loop, x, arg) == IF loop = "push" THEN PushTurn(x, arg) ELSE AckTurn(x, arg)

TurnsBy(loop, t, x, arg, m) ==
    t = [k \in 0 .. m |-> IF k = 0 THEN x ELSE Turn(loop, t[k - 1], arg)]

(* The states after each turn of a loop are a function of the turn. *)
LEMMA TurnsExist ==
  ASSUME NEW loop, NEW x, NEW arg, NEW L \in Nat
  PROVE  \E t : TurnsBy(loop, t, x, arg, L)
<1> DEFINE T == {m \in 0 .. L : ~\E t : TurnsBy(loop, t, x, arg, m)}
<1>1. L \in 0 .. L
  OBVIOUS
<1> SUFFICES ASSUME T # {} PROVE FALSE
  BY <1>1, Zenon
<1>2. T \subseteq Nat
  OBVIOUS
<1>3. PICK y \in T : \A z \in T : y <= z
  <2> HIDE DEF T
  <2> QED
    BY <1>2, LeastElement
<1>4. y # 0
  <2> DEFINE g == [k \in 0 .. 0 |-> x]
  <2>1. TurnsBy(loop, g, x, arg, 0)
    BY DEF TurnsBy
  <2>2. \E t : TurnsBy(loop, t, x, arg, 0)
    BY <2>1
  <2> QED
    BY <1>3, <2>2
<1>5. y - 1 \in 0 .. L /\ y - 1 \notin T /\ y \in Nat /\ y - 1 \in Nat
  <2>1. y \in 0 .. L
    BY <1>3
  <2> HIDE DEF T
  <2>2. y - 1 \in 0 .. L /\ ~(y <= y - 1)
    BY <1>4, <2>1
  <2> QED
    BY <1>3, <2>1, <2>2
<1>6. PICK g : TurnsBy(loop, g, x, arg, y - 1)
  BY <1>5
<1> HIDE DEF T
<1> DEFINE last == Turn(loop, g[y - 1], arg)
           h == [k \in 0 .. y |-> IF k < y THEN g[k] ELSE last]
<1>7. /\ \A k \in 0 .. y - 1 : h[k] = g[k]
      /\ h[y] = last
  BY <1>5
<1>8. \A k \in 0 .. y - 1 : g[k] = IF k = 0 THEN x ELSE Turn(loop, g[k - 1], arg)
  BY <1>6 DEF TurnsBy
<1>9. h = [k \in 0 .. y |-> h[k]]
  OBVIOUS
<1> HIDE DEF h
<1>10. \A k \in 0 .. y : h[k] = IF k = 0 THEN x ELSE Turn(loop, h[k - 1], arg)
  <2> SUFFICES ASSUME NEW k \in 0 .. y
               PROVE  h[k] = IF k = 0 THEN x ELSE Turn(loop, h[k - 1], arg)
    OBVIOUS
  <2>1. CASE k = y
    <3>1. y - 1 \in 0 .. y - 1
      BY <1>5
    <3>2. h[y - 1] = g[y - 1]
      BY <1>7, <3>1
    <3> QED
      BY <1>4, <1>7, <2>1, <3>2
  <2>2. CASE k # y /\ k = 0
    <3>1. k \in 0 .. y - 1
      BY <1>5, <2>2
    <3> QED
      BY <1>7, <1>8, <2>2, <3>1
  <2>3. CASE k # y /\ k # 0
    <3>1. k \in 0 .. y - 1 /\ k - 1 \in 0 .. y - 1
      BY <1>5, <2>3
    <3>2. h[k] = g[k] /\ h[k - 1] = g[k - 1]
      BY <1>7, <3>1
    <3>3. g[k] = Turn(loop, g[k - 1], arg)
      BY <1>8, <2>3, <3>1
    <3> QED
      BY <2>3, <3>2, <3>3
  <2> QED
    BY <2>1, <2>2, <2>3
<1>11. TurnsBy(loop, h, x, arg, y)
  BY <1>9, <1>10 DEF TurnsBy
<1> QED
  BY <1>3, <1>11 DEF T

(* Every turn of a loop, from the first state on. *)
LEMMA TurnsAre ==
  ASSUME NEW loop, NEW x, NEW arg, NEW L \in Nat, NEW t, TurnsBy(loop, t, x, arg, L)
  PROVE  t[0] = x /\ \A k \in 0 .. L - 1 : t[k + 1] = Turn(loop, t[k], arg)
<1>1. \A k \in 0 .. L : t[k] = IF k = 0 THEN x ELSE Turn(loop, t[k - 1], arg)
  BY DEF TurnsBy
<1>2. 0 \in 0 .. L /\ \A k \in 0 .. L - 1 : k + 1 \in 0 .. L /\ k + 1 # 0 /\ (k + 1) - 1 = k
  OBVIOUS
<1> QED
  BY <1>1, <1>2


(* push() ends where its turns end. *)
LEMMA PushTurns ==
  ASSUME NEW s, Budget(s) \in Nat
  PROVE  \E t : /\ TurnsBy("push", t, Out(s, <<>>), RightEdge(s), Budget(s))
                /\ PushLoop(s) = t[Budget(s)]
<1> DEFINE L == Budget(s)
           x == Out(s, <<>>)
           e == RightEdge(s)
           turn == CHOOSE t : t = [k \in 0 .. L |-> IF k = 0 THEN x ELSE PushTurn(t[k - 1], e)]
<1>1. PushLoop(s) = turn[L]
  BY Zenon DEF PushLoop
<1> HIDE DEF x, e, L
<1>2. \A t : TurnsBy("push", t, x, e, L)
              <=> t = [k \in 0 .. L |-> IF k = 0 THEN x ELSE PushTurn(t[k - 1], e)]
  BY DEF TurnsBy, Turn
<1>3. PICK t : TurnsBy("push", t, x, e, L)
  BY TurnsExist DEF L
<1>4. t = [k \in 0 .. L |-> IF k = 0 THEN x ELSE PushTurn(t[k - 1], e)]
  BY <1>2, <1>3
<1>5. turn = [k \in 0 .. L |-> IF k = 0 THEN x ELSE PushTurn(turn[k - 1], e)]
  BY <1>4
<1>6. TurnsBy("push", turn, x, e, L)
  BY <1>2, <1>5
<1> HIDE DEF turn
<1> QED
  BY <1>1, <1>6 DEF x, e, L

(* So does the loop of receive(). *)
LEMMA AckTurns ==
  ASSUME NEW s, NEW abs_ackno, Len(s.outstanding) \in Nat
  PROVE  \E t : /\ TurnsBy("ack", t, [sender |-> s, acked_anything |-> FALSE], abs_ackno, Len(s.outstanding))
                /\ AckLoop(s, abs_ackno) = t[Len(s.outstanding)]
<1> DEFINE L == Len(s.outstanding)
           x == [sender |-> s, acked_anything |-> FALSE]
           turn == CHOOSE t : t = [k \in 0 .. L |-> IF k = 0 THEN x ELSE AckTurn(t[k - 1], abs_ackno)]
<1>1. AckLoop(s, abs_ackno) = turn[L]
  BY Zenon DEF AckLoop
<1> HIDE DEF x, L
<1>2. \A t : TurnsBy("ack", t, x, abs_ackno, L)
              <=> t = [k \in 0 .. L |-> IF k = 0 THEN x ELSE AckTurn(t[k - 1], abs_ackno)]
  BY DEF TurnsBy, Turn
<1>3. PICK t : TurnsBy("ack", t, x, abs_ackno, L)
  BY TurnsExist DEF L
<1>4. t = [k \in 0 .. L |-> IF k = 0 THEN x ELSE AckTurn(t[k - 1], abs_ackno)]
  BY <1>2, <1>3
<1>5. turn = [k \in 0 .. L |-> IF k = 0 THEN x ELSE AckTurn(turn[k - 1], abs_ackno)]
  BY <1>4
<1>6. TurnsBy("ack", turn, x, abs_ackno, L)
  BY <1>2, <1>5
<1> HIDE DEF turn
<1> QED
  BY <1>1, <1>6 DEF x, L

-----------------------------------------------------------------------------
(* receive() *)

(* After k segments were popped. *)
PoppedSoFar(s, k) ==
    [sender |-> [s EXCEPT !.outstanding = SubSeq(@, k + 1, Len(@)),
                          !.bytes_in_flight = @ - AckedLength(s, k)],
     acked_anything |-> k # 0]

(* The sender after k segments were popped. *)
LEMMA PoppedFields ==
  ASSUME NEW s, GoodSender(s), NEW k \in 0 .. Len(s.outstanding)
  PROVE  LET t == PoppedSoFar(s, k).sender
             n == Len(s.outstanding)
         IN  /\ t.isn = s.isn /\ t.next_seqno = s.next_seqno
             /\ t.outstanding = SubSeq(s.outstanding, k + 1, n)
             /\ t.outstanding \in Seq(MessageRecord) /\ Len(t.outstanding) = n - k
             /\ t.outstanding = <<>> <=> k = n
             /\ k < n => t.outstanding[1] = s.outstanding[k + 1] /\ SegmentEnd(t, 1) = SegmentEnd(s, k + 1)
             /\ k < n => Head(t.outstanding) = s.outstanding[k + 1]
             /\ k < n => Tail(t.outstanding) = SubSeq(s.outstanding, k + 2, n)
<1> DEFINE t == PoppedSoFar(s, k).sender
           o == s.outstanding
           n == Len(o)
<1>1. s \in SenderRecord /\ o \in Seq(MessageRecord) /\ n \in Nat /\ k \in Nat /\ k <= n
  BY SenderTypes DEF GoodSender, SenderRecord
<1>2. t.isn = s.isn /\ t.next_seqno = s.next_seqno /\ t.outstanding = SubSeq(o, k + 1, n)
  BY <1>1 DEF PoppedSoFar, SenderRecord
<1> DEFINE q == SubSeq(o, k + 1, n)
<1>3. q \in Seq(MessageRecord) /\ Len(q) = n - k
  <2>1. \A i \in k + 1 .. n : o[i] \in MessageRecord
    <3> SUFFICES ASSUME NEW i \in k + 1 .. n PROVE o[i] \in MessageRecord
      OBVIOUS
    <3>1. i \in 1 .. Len(o)
      BY <1>1
    <3> QED
      BY <1>1, <3>1, ElementOfSeq
  <2>2. q \in Seq(MessageRecord) /\ Len(q) = IF k + 1 <= n THEN n - (k + 1) + 1 ELSE 0
    BY <1>1, <2>1, SubSeqProperties
  <2> QED
    BY <1>1, <2>2
<1>4. q = <<>> <=> k = n
  <2>1. q = <<>> <=> Len(q) = 0
    <3> HIDE DEF q
    <3> QED
      BY <1>3, EmptySeq
  <2> QED
    BY <1>1, <1>3, <2>1
<1>5. ASSUME k < n PROVE q[1] = o[k + 1]
  <2>1. k + 1 \in 1 .. Len(o) /\ n \in 1 .. Len(o) /\ 1 \in 1 .. Len(q)
    BY <1>1, <1>3, <1>5
  <2> QED
    BY <1>1, <2>1
<1>6. ASSUME k < n PROVE SegmentEnd(t, 1) = SegmentEnd(s, k + 1)
  BY <1>2, <1>5, <1>6 DEF SegmentEnd, SegmentStart
<1>7. ASSUME k < n PROVE Head(q) = o[k + 1] /\ Tail(q) = SubSeq(o, k + 2, n)
  <2>1. q # <<>> /\ Head(q) = q[1]
    BY <1>3, <1>4, <1>7
  <2>2. Tail(q) = SubSeq(q, 2, Len(q))
    BY <1>3, <2>1
  <2>3. Tail(q) \in Seq(MessageRecord) /\ Len(Tail(q)) = n - k - 1
        /\ \A i \in 1 .. n - k - 1 : Tail(q)[i] = q[i + 1]
    BY <1>1, <1>3, <2>1
  <2>4. \A i \in 1 .. n - k - 1 : q[i + 1] = o[k + (i + 1)]
    <3> SUFFICES ASSUME NEW i \in 1 .. n - k - 1 PROVE q[i + 1] = o[k + (i + 1)]
      OBVIOUS
    <3>1. k + 1 \in 1 .. Len(o) /\ n \in 1 .. Len(o) /\ i + 1 \in 1 .. Len(q)
      BY <1>1, <1>3, <1>7
    <3>2. q[i + 1] = o[(k + 1) + (i + 1) - 1]
      BY <1>1, <3>1
    <3> QED
      BY <1>1, <3>2
  <2> DEFINE z == SubSeq(o, k + 2, n)
  <2>5. z \in Seq(MessageRecord) /\ Len(z) = n - k - 1
    <3>1. \A i \in k + 2 .. n : o[i] \in MessageRecord
      <4> SUFFICES ASSUME NEW i \in k + 2 .. n PROVE o[i] \in MessageRecord
        OBVIOUS
      <4>1. i \in 1 .. Len(o)
        BY <1>1
      <4> QED
        BY <1>1, <4>1, ElementOfSeq
    <3>2. z \in Seq(MessageRecord) /\ Len(z) = IF k + 2 <= n THEN n - (k + 2) + 1 ELSE 0
      BY <1>1, <3>1, SubSeqProperties
    <3> QED
      BY <1>1, <1>7, <3>2
  <2>6. \A i \in 1 .. n - k - 1 : z[i] = o[k + (i + 1)]
    <3> SUFFICES ASSUME NEW i \in 1 .. n - k - 1 PROVE z[i] = o[k + (i + 1)]
      OBVIOUS
    <3>1. k + 2 \in 1 .. Len(o) /\ n \in 1 .. Len(o) /\ i \in 1 .. Len(z)
      BY <1>1, <2>5
    <3>2. z[i] = o[(k + 2) + i - 1]
      BY <1>1, <3>1
    <3>3. (k + 2) + i - 1 = k + (i + 1)
      BY <1>1
    <3> QED
      BY <3>2, <3>3
  <2>7. Tail(q) = z
    <3> HIDE DEF z, q
    <3> QED
      BY <2>3, <2>4, <2>5, <2>6, SeqEqual
  <2> QED
    BY <1>5, <1>7, <2>1, <2>7
<1> HIDE DEF t
<1> QED
  BY <1>2, <1>3, <1>4, <1>5, <1>6, <1>7 DEF t

(* One segment more acknowledged. *)
LEMMA AckedLengths ==
  ASSUME NEW s, GoodSender(s), NEW k \in Nat, k < Len(s.outstanding)
  PROVE  /\ s.bytes_in_flight \in Nat /\ AckedLength(s, k) \in Int
         /\ AckedLength(s, k + 1) = AckedLength(s, k) + SequenceLength(s.outstanding[k + 1])
         /\ SequenceLength(s.outstanding[k + 1]) \in Nat
<1> DEFINE n == Len(s.outstanding)
<1>1. s \in SenderRecord /\ n \in Nat /\ s.bytes_in_flight \in Nat
  BY SenderTypes DEF GoodSender
<1>2. \A j \in 1 .. n : SegmentStart(s, j) \in Int /\ SegmentEnd(s, j) \in Int
                        /\ SequenceLength(s.outstanding[j]) \in Nat
                        /\ SegmentEnd(s, j) = SegmentStart(s, j) + SequenceLength(s.outstanding[j])
  BY <1>1, SegmentTypes DEF SegmentEnd
<1>3. \A j \in 1 .. (n - 1) : SegmentEnd(s, j) = SegmentStart(s, j + 1)
  BY DEF GoodSender, TilesFlight
<1>4. 1 \in 1 .. n /\ k + 1 \in 1 .. n /\ k + 1 # 0 /\ (k # 0 => k \in 1 .. (n - 1) /\ k \in 1 .. n)
  BY <1>1
<1> HIDE DEF n
<1>5. CASE k = 0
  <2>1. AckedLength(s, k) = 0 /\ AckedLength(s, k + 1) = SegmentEnd(s, 1) - SegmentStart(s, 1)
    BY <1>5 DEF AckedLength
  <2> QED
    BY <1>1, <1>2, <1>4, <1>5, <2>1
<1>6. CASE k # 0
  <2>1. /\ AckedLength(s, k) = SegmentEnd(s, k) - SegmentStart(s, 1)
        /\ AckedLength(s, k + 1) = SegmentEnd(s, k + 1) - SegmentStart(s, 1)
    BY <1>4, <1>6 DEF AckedLength
  <2>2. SegmentEnd(s, k) = SegmentStart(s, k + 1)
    BY <1>3, <1>4, <1>6
  <2> DEFINE a == SegmentStart(s, 1)
             b == SegmentStart(s, k + 1)
             e == SegmentEnd(s, k + 1)
             l == SequenceLength(s.outstanding[k + 1])
  <2>3. a \in Int /\ b \in Int /\ e = b + l /\ l \in Nat
    BY <1>2, <1>4
  <2>4. AckedLength(s, k) = b - a /\ AckedLength(s, k + 1) = e - a
    BY <2>1, <2>2
  <2> HIDE DEF a, b, e, l
  <2>5. AckedLength(s, k) \in Int /\ AckedLength(s, k + 1) = AckedLength(s, k) + l
    BY <2>3, <2>4
  <2> QED
    BY <1>1, <2>3, <2>5 DEF l
<1> QED
  BY <1>5, <1>6

(* A turn of receive() pops the front segment if it is covered. *)
LEMMA AckTurnPops ==
  ASSUME NEW s, GoodSender(s), NEW a \in Int, NEW k \in Nat, k < Len(s.outstanding),
         SegmentEnd(s, k + 1) <= a
  PROVE  AckTurn(PoppedSoFar(s, k), a) = PoppedSoFar(s, k + 1)
<1> DEFINE t == PoppedSoFar(s, k).sender
           n == Len(s.outstanding)
           m == s.outstanding[k + 1]
<1>1. s \in SenderRecord /\ n \in Nat /\ k \in 0 .. n /\ k + 1 \in 1 .. n
  BY SenderTypes DEF GoodSender
<1>2. /\ t.outstanding # <<>> /\ SegmentEnd(t, 1) = SegmentEnd(s, k + 1)
      /\ Head(t.outstanding) = m /\ Tail(t.outstanding) = SubSeq(s.outstanding, k + 2, n)
      /\ t.outstanding = SubSeq(s.outstanding, k + 1, n)
  BY <1>1, PoppedFields
<1>3. SegmentEnd(s, k + 1) \in Int
  BY <1>1, SegmentTypes
<1>4. ~(SegmentEnd(t, 1) > a)
  BY <1>2, <1>3
<1>5. AckTurn(PoppedSoFar(s, k), a)
        = [sender |-> [t EXCEPT !.bytes_in_flight = @ - SequenceLength(m),
                                !.outstanding = SubSeq(s.outstanding, k + 2, n)],
           acked_anything |-> TRUE]
  BY <1>2, <1>4 DEF AckTurn
<1>6. t = [s EXCEPT !.outstanding = SubSeq(s.outstanding, k + 1, n), !.bytes_in_flight = @ - AckedLength(s, k)]
  BY DEF PoppedSoFar
<1>7. (s.bytes_in_flight - AckedLength(s, k)) - SequenceLength(m) = s.bytes_in_flight - AckedLength(s, k + 1)
  BY AckedLengths
<1>8. k + 2 = (k + 1) + 1 /\ k + 1 # 0
  OBVIOUS
<1>9. PoppedSoFar(s, k + 1)
        = [sender |-> [s EXCEPT !.outstanding = SubSeq(s.outstanding, k + 2, n),
                                !.bytes_in_flight = @ - AckedLength(s, k + 1)],
           acked_anything |-> TRUE]
  BY <1>8 DEF PoppedSoFar
<1> HIDE DEF t, m, n
<1>10. [t EXCEPT !.bytes_in_flight = @ - SequenceLength(m), !.outstanding = SubSeq(s.outstanding, k + 2, n)]
        = [s EXCEPT !.outstanding = SubSeq(s.outstanding, k + 2, n),
                    !.bytes_in_flight = @ - AckedLength(s, k + 1)]
  BY <1>1, <1>6, <1>7 DEF SenderRecord
<1> QED
  BY <1>5, <1>9, <1>10

(* The loop pops exactly the segments that are covered. *)
LEMMA AckLoopIs ==
  ASSUME NEW s, GoodSender(s), NEW a \in Int
  PROVE  AckLoop(s, a) = PoppedSoFar(s, AckedCount(s, a))
<1> DEFINE n == Len(s.outstanding)
           c == AckedCount(s, a)
           x == [sender |-> s, acked_anything |-> FALSE]
           S(k) == PoppedSoFar(s, IF k < c THEN k ELSE c)
<1>1. s \in SenderRecord /\ n \in Nat
  BY SenderTypes DEF GoodSender
<1>2. /\ c \in 0 .. n /\ (\A k \in 1 .. c : SegmentEnd(s, k) <= a)
      /\ c < n => SegmentEnd(s, c + 1) > a
  BY <1>1, AckedCountFound
<1>3. PICK t : TurnsBy("ack", t, x, a, n) /\ AckLoop(s, a) = t[n]
  BY <1>1, AckTurns
<1> HIDE DEF x, n, c
<1>4. t[0] = x /\ \A k \in 0 .. n - 1 : t[k + 1] = Turn("ack", t[k], a)
  BY <1>1, <1>3, TurnsAre
<1>5. \A k \in 0 .. n - 1 : t[k + 1] = AckTurn(t[k], a)
  BY <1>4 DEF Turn
<1>6. S(0) = x
  <2>1. (IF 0 < c THEN 0 ELSE c) = 0
    BY <1>1, <1>2
  <2>2. SubSeq(s.outstanding, 0 + 1, Len(s.outstanding)) = s.outstanding
    <3>1. s.outstanding \in Seq(MessageRecord)
      BY <1>1 DEF SenderRecord
    <3> QED
      BY <3>1
  <2>3. s.bytes_in_flight \in Nat /\ AckedLength(s, 0) = 0
    BY <1>1 DEF SenderRecord, AckedLength
  <2>4. s.bytes_in_flight - AckedLength(s, 0) = s.bytes_in_flight
    BY <2>3
  <2>5. [s EXCEPT !.outstanding = s.outstanding, !.bytes_in_flight = s.bytes_in_flight] = s
    BY <1>1 DEF SenderRecord
  <2>6. [s EXCEPT !.outstanding = SubSeq(@, 0 + 1, Len(@)), !.bytes_in_flight = @ - AckedLength(s, 0)] = s
    BY <2>2, <2>4, <2>5
  <2>7. PoppedSoFar(s, 0) = x
    BY <2>6, Zenon DEF PoppedSoFar, x
  <2> QED
    BY <2>1, <2>7
<1>7. ASSUME NEW k \in 0 .. n - 1 PROVE AckTurn(S(k), a) = S(k + 1)
  <2>1. k \in Nat /\ c \in Nat /\ k + 1 \in Nat
    BY <1>1, <1>2
  <2>2. CASE k < c
    <3>1. k + 1 \in 1 .. c /\ k < n
      BY <1>1, <1>2, <2>1, <2>2
    <3>2. SegmentEnd(s, k + 1) <= a
      BY <1>2, <3>1
    <3>3. AckTurn(PoppedSoFar(s, k), a) = PoppedSoFar(s, k + 1)
      BY <2>1, <3>1, <3>2, AckTurnPops DEF n
    <3>4. (IF k < c THEN k ELSE c) = k /\ (IF k + 1 < c THEN k + 1 ELSE c) = k + 1
      BY <2>1, <2>2
    <3> QED
      BY <3>3, <3>4
  <2>3. CASE ~(k < c)
    <3>1. (IF k < c THEN k ELSE c) = c /\ (IF k + 1 < c THEN k + 1 ELSE c) = c
      BY <2>1, <2>3
    <3>2. c < n /\ SegmentEnd(s, c + 1) > a
      BY <1>1, <1>2, <2>1, <2>3
    <3> DEFINE u == PoppedSoFar(s, c).sender
    <3>3. SegmentEnd(u, 1) = SegmentEnd(s, c + 1)
      BY <1>2, <3>2, PoppedFields DEF n
    <3> HIDE DEF u
    <3>4. AckTurn(PoppedSoFar(s, c), a) = PoppedSoFar(s, c)
      BY <3>2, <3>3 DEF AckTurn, u
    <3> QED
      BY <3>1, <3>4
  <2> QED
    BY <2>2, <2>3
<1> HIDE DEF S
<1> DEFINE T == {k \in 0 .. n : t[k] # S(k)}
<1>8. T = {}
  <2> SUFFICES ASSUME T # {} PROVE FALSE
    OBVIOUS
  <2>1. T \subseteq Nat
    BY <1>1
  <2>2. PICK k \in T : \A j \in T : k <= j
    <3> HIDE DEF T
    <3> QED
      BY <2>1, LeastElement
  <2>3. k \in 0 .. n /\ t[k] # S(k) /\ k # 0
    BY <1>4, <1>6, <2>2
  <2>4. k - 1 \in 0 .. n - 1 /\ k - 1 \in 0 .. n /\ ~(k <= k - 1) /\ (k - 1) + 1 = k
    BY <1>1, <2>3
  <2>5. t[k - 1] = S(k - 1)
    BY <2>2, <2>4
  <2>6. t[k] = AckTurn(t[k - 1], a) /\ AckTurn(S(k - 1), a) = S(k)
    BY <1>5, <1>7, <2>4
  <2> QED
    BY <2>3, <2>5, <2>6
<1>9. t[n] = S(n)
  BY <1>1, <1>8
<1>10. (IF n < c THEN n ELSE c) = c
  BY <1>1, <1>2
<1> QED
  BY <1>3, <1>9, <1>10 DEF S, c

(* With what follows the loop, that is the closed form. *)
LEMMA AckOneByOneIs ==
  ASSUME NEW s, GoodSender(s), NEW a \in Int
  PROVE  AckOneByOne(s, a) = PopAcked(s, AckedCount(s, a))
<1> DEFINE c == AckedCount(s, a)
           n == Len(s.outstanding)
           p == PoppedSoFar(s, c)
           u == p.sender
<1>1. s \in SenderRecord /\ n \in Nat /\ c \in 0 .. n
  BY SenderTypes, AckedCountFound DEF GoodSender
<1>2. AckLoop(s, a) = p
  BY AckLoopIs
<1>3. p.acked_anything = (c # 0)
      /\ u = [s EXCEPT !.outstanding = SubSeq(@, c + 1, Len(@)), !.bytes_in_flight = @ - AckedLength(s, c)]
  BY DEF PoppedSoFar
<1>4. u.outstanding = <<>> <=> c = n
  BY <1>1, PoppedFields
<1>5. AckOneByOne(s, a) = IF ~p.acked_anything THEN u
                          ELSE [u EXCEPT !.timer = IF u.outstanding = <<>> THEN TimerStop(TimerResetBackoff(@))
                                                   ELSE TimerStart(TimerResetBackoff(@))]
  BY <1>2 DEF AckOneByOne
<1> HIDE DEF c, n, p, u
<1>6. CASE c = 0
  <2>1. SubSeq(s.outstanding, 0 + 1, Len(s.outstanding)) = s.outstanding
    <3>1. s.outstanding \in Seq(MessageRecord)
      BY <1>1 DEF SenderRecord
    <3> QED
      BY <3>1
  <2>2. s.bytes_in_flight \in Nat /\ AckedLength(s, 0) = 0
    BY <1>1 DEF SenderRecord, AckedLength
  <2>3. s.bytes_in_flight - AckedLength(s, 0) = s.bytes_in_flight
    BY <2>2
  <2>4. [s EXCEPT !.outstanding = s.outstanding, !.bytes_in_flight = s.bytes_in_flight] = s
    BY <1>1 DEF SenderRecord
  <2>5. u = [s EXCEPT !.outstanding = SubSeq(s.outstanding, 0 + 1, Len(s.outstanding)),
                      !.bytes_in_flight = s.bytes_in_flight - AckedLength(s, 0)]
    BY <1>3, <1>6
  <2>6. u = s
    BY <2>1, <2>3, <2>4, <2>5
  <2>7. PopAcked(s, c) = s
    BY <1>6 DEF PopAcked
  <2> QED
    BY <1>3, <1>5, <1>6, <2>6, <2>7 DEF c
<1>7. CASE c # 0
  <2> DEFINE fresh == IF c = n THEN TimerStop(TimerResetBackoff(s.timer))
                      ELSE TimerStart(TimerResetBackoff(s.timer))
  <2>1. u.timer = s.timer
    BY <1>1, <1>3 DEF SenderRecord
  <2>2. AckOneByOne(s, a) = [u EXCEPT !.timer = fresh]
    BY <1>3, <1>4, <1>5, <1>7, <2>1
  <2>3. PopAcked(s, c) = [s EXCEPT !.outstanding = SubSeq(@, c + 1, Len(@)),
                                   !.bytes_in_flight = @ - AckedLength(s, c), !.timer = fresh]
    BY <1>7 DEF PopAcked, n
  <2> HIDE DEF fresh
  <2>4. [u EXCEPT !.timer = fresh] = [s EXCEPT !.outstanding = SubSeq(@, c + 1, Len(@)),
                                   !.bytes_in_flight = @ - AckedLength(s, c), !.timer = fresh]
    BY <1>1, <1>3 DEF SenderRecord
  <2> QED
    BY <2>2, <2>3, <2>4 DEF c
<1> QED
  BY <1>6, <1>7

-----------------------------------------------------------------------------
(* push() *)

(* The bytes that have gone out after k segments. *)
Gone(s, k) == PayloadBefore(s, k + 1)

(* How many segments go out, and which bytes: the next one takes as much as *)
(* fits into it of what is still to go.                                     *)
LEMMA PlanNumbers ==
  ASSUME NEW s, GoodSender(s)
  PROVE  /\ SegmentsToSend(s) \in Nat /\ SegmentsToSend(s) <= Budget(s)
         /\ SegmentsToSend(s) = 0 <=> LengthToSend(s) = 0
         /\ PayloadToSend(s) \in Nat /\ (PayloadToSend(s) = 0 => SegmentsToSend(s) <= 1)
         /\ Gone(s, 0) = 0 /\ Gone(s, SegmentsToSend(s)) = PayloadToSend(s)
         /\ \A k \in 0 .. SegmentsToSend(s) : Gone(s, k) \in 0 .. PayloadToSend(s)
         /\ \A k \in 0 .. SegmentsToSend(s) - 1 :
               /\ Gone(s, k + 1) = Gone(s, k) + Least(MaxPayload, PayloadToSend(s) - Gone(s, k))
               /\ PayloadToSend(s) > 0 => Gone(s, k) < Gone(s, k + 1)
               /\ Gone(s, k + 1) = PayloadToSend(s) <=> k + 1 = SegmentsToSend(s)
<1> DEFINE N == SegmentsToSend(s)
           P == PayloadToSend(s)
           L == LengthToSend(s)
           M == MaxPayload
           B == Budget(s)
<1>1. /\ M \in Nat \ {0} /\ P \in Nat /\ L \in Nat /\ L <= B /\ P <= L /\ B \in Nat
      /\ L = Bit(SendsSyn(s)) + P + Bit(SendsFin(s))
  <2>1. BytesBuffered(s.input) \in Int
    BY SenderTypes DEF GoodSender, BytesBuffered
  <2> QED
    BY <2>1, PushNumbers, WindowAssumption
<1>2. \A k : Gone(s, k) = IF ((k + 1) - 1) * M < P THEN ((k + 1) - 1) * M ELSE P
  BY DEF Gone, PayloadBefore, Least
<1>3. CASE L = 0
  <2>1. N = 0
    BY <1>3 DEF SegmentsToSend
  <2>2. P = 0
    BY <1>1, <1>3
  <2> HIDE DEF N, P, L, M, B
  <2>3. \A k \in 0 .. N : Gone(s, k) = 0
    BY <1>1, <1>2, <2>1, <2>2
  <2> QED
    BY <1>1, <1>3, <2>1, <2>2, <2>3 DEF N, P, L, M, B
<1>4. CASE L # 0
  <2>1. /\ N \in Nat \ {0} /\ (P = 0 => N = 1)
        /\ PayloadBefore(s, 1) = 0 /\ PayloadBefore(s, N + 1) = P
        /\ \A k \in 1 .. (N + 1) : PayloadBefore(s, k) \in 0 .. P
        /\ \A j, k \in 1 .. (N + 1) : j <= k => PayloadBefore(s, j) <= PayloadBefore(s, k)
        /\ \A k \in 1 .. N : P > 0 => PayloadBefore(s, k) < PayloadBefore(s, k + 1)
    BY <1>1, <1>4, PayloadCuts
  <2>2. N <= B
    <3>1. CASE P = 0
      <4> HIDE DEF N, P, L, B
      <4> QED
        BY <1>1, <1>4, <2>1, <3>1
    <3>2. CASE P # 0
      <4>1. N = 1 + ((P - 1) \div M)
        BY <1>1, <1>4, <3>2 DEF SegmentsToSend
      <4>2. P \in Nat \ {0}
        BY <1>1, <3>2
      <4> HIDE DEF N, P, L, B, M
      <4>3. (N - 1) * M < P
        BY <1>1, <4>1, <4>2, PartsCover
      <4>4. N - 1 <= (N - 1) * M
        <5>1. N - 1 \in Nat /\ M \in Nat /\ 1 <= M
          BY <1>1, <2>1
        <5> DEFINE n == N - 1
        <5>2. n \in Nat
          BY <5>1
        <5> HIDE DEF n
        <5>3. 1 * n <= M * n
          BY <5>1, <5>2, TimesMonotone
        <5>4. 1 * n = n /\ M * n = n * M
          BY <5>1, <5>2
        <5> QED
          BY <5>3, <5>4 DEF n
      <4>5. (N - 1) * M \in Nat
        BY <1>1, <2>1
      <4> QED
        BY <1>1, <2>1, <4>3, <4>4, <4>5
    <3> QED
      BY <3>1, <3>2
  <2> HIDE DEF N, P, L, B, M
  <2>3. Gone(s, 0) = 0 /\ Gone(s, N) = P
    <3>1. 0 + 1 = 1
      OBVIOUS
    <3> QED
      BY <2>1, <3>1 DEF Gone
  <2>4. \A k \in 0 .. N : Gone(s, k) \in 0 .. P
    <3> SUFFICES ASSUME NEW k \in 0 .. N PROVE Gone(s, k) \in 0 .. P
      OBVIOUS
    <3>1. k + 1 \in 1 .. (N + 1)
      BY <2>1
    <3> QED
      BY <2>1, <3>1 DEF Gone
  <2>5. ASSUME NEW k \in 0 .. N - 1
        PROVE  /\ Gone(s, k + 1) = Gone(s, k) + Least(M, P - Gone(s, k))
               /\ P > 0 => Gone(s, k) < Gone(s, k + 1)
               /\ Gone(s, k + 1) = P <=> k + 1 = N
    <3>1. k \in Nat /\ k + 1 \in 1 .. N /\ k \in 0 .. N /\ k + 1 \in 0 .. N /\ k < N
      BY <2>1
    <3>2. P > 0 => Gone(s, k) < Gone(s, k + 1)
      BY <2>1, <3>1 DEF Gone
    <3>3. Gone(s, k) \in 0 .. P /\ Gone(s, k + 1) \in 0 .. P
      BY <2>4, <3>1
    <3>4. Gone(s, k + 1) = Gone(s, k) + Least(M, P - Gone(s, k))
      <4>1. (k + 1) - 1 = k /\ ((k + 1) + 1) - 1 = k + 1 /\ (k + 1) * M = k * M + M /\ k * M \in Nat
        BY <1>1, <3>1
      <4> DEFINE z == k * M
                 g == Gone(s, k)
                 h == Gone(s, k + 1)
      <4>2. g = (IF z < P THEN z ELSE P) /\ h = (IF z + M < P THEN z + M ELSE P)
        BY <1>2, <4>1
      <4>3. z \in Nat /\ (P > 0 => g < h) /\ g \in 0 .. P /\ h \in 0 .. P
        BY <3>2, <3>3, <4>1
      <4> HIDE DEF z, g, h
      <4>4. h = g + Least(M, P - g)
        BY <1>1, <4>2, <4>3 DEF Least
      <4> QED
        BY <4>4 DEF g, h
    <3>5. Gone(s, k + 1) = P <=> k + 1 = N
      <4>1. CASE P = 0
        BY <2>1, <3>1, <3>3, <4>1
      <4>2. CASE P # 0
        <5>1. ASSUME k + 1 # N PROVE Gone(s, k + 1) # P
          <6>1. k + 2 \in 1 .. N /\ k + 2 \in 1 .. (N + 1) /\ (k + 2) + 1 \in 1 .. (N + 1) /\ (k + 1) + 1 = k + 2
            BY <2>1, <3>1, <5>1
          <6>2. P > 0
            BY <1>1, <4>2
          <6>3. PayloadBefore(s, k + 2) < PayloadBefore(s, (k + 2) + 1) /\ PayloadBefore(s, (k + 2) + 1) \in 0 .. P
            BY <2>1, <6>1, <6>2
          <6>4. Gone(s, k + 1) = PayloadBefore(s, k + 2)
            BY <6>1 DEF Gone
          <6> QED
            BY <1>1, <3>3, <6>3, <6>4
        <5> QED
          BY <2>3, <5>1
      <4> QED
        BY <4>1, <4>2
    <3> QED
      BY <3>2, <3>4, <3>5
  <2> QED
    BY <1>1, <1>4, <2>1, <2>2, <2>3, <2>4, <2>5 DEF N, P, L, B, M
<1> QED
  BY <1>3, <1>4

(* What send_segment() puts into a segment when w numbers may be used. *)
PutsSyn(t) == ~t.syn_sent
PutsBytes(t, w) == Least(Least(w - Bit(PutsSyn(t)), MaxPayload), BytesBuffered(t.input))
InputAfter(t, w) == ReaderPop(t.input, PutsBytes(t, w))
PutsFin(t, w) ==
    /\ ~t.fin_sent
    /\ InputAfter(t, w).closed
    /\ BytesBuffered(InputAfter(t, w)) = 0
    /\ Bit(PutsSyn(t)) + PutsBytes(t, w) < w
PutsLength(t, w) == Bit(PutsSyn(t)) + PutsBytes(t, w) + Bit(PutsFin(t, w))
PutTogether(t, w) ==
    SenderMessage(Wrap(t.next_seqno, t.isn), PutsSyn(t), NextBytes(t.input, PutsBytes(t, w)),
                  PutsFin(t, w), t.input.error)

AfterSegment(t, w) ==
    [t EXCEPT !.input = InputAfter(t, w),
              !.next_seqno = @ + PutsLength(t, w),
              !.bytes_in_flight = @ + PutsLength(t, w),
              !.syn_sent = @ \/ PutsSyn(t),
              !.fin_sent = @ \/ PutsFin(t, w),
              !.outstanding = Append(@, PutTogether(t, w)),
              !.timer = IF @.running THEN @ ELSE TimerStart(@)]

(* What a turn of push() appends to what it has sent. *)
LEMMA SegmentSent ==
  ASSUME NEW t, NEW q, NEW w
  PROVE  SendSegment(Out(t, q), w)
           = IF w = 0 \/ PutsLength(t, w) = 0 THEN Out(t, q)
             ELSE Out(AfterSegment(t, w), Append(q, PutTogether(t, w)))
<1> DEFINE out == Out(t, q)
           x == out.sender
<1>1. x = t /\ out.segments = q
  BY DEF Out
<1> HIDE DEF out
<1>2. SendSegment(out, w)
        = IF w = 0 \/ PutsLength(x, w) = 0 THEN out
          ELSE Out(AfterSegment(x, w), Append(out.segments, PutTogether(x, w)))
  BY Zenon DEF SendSegment, AfterSegment, PutsLength, InputAfter, PutsSyn, PutsFin, PutTogether, PutsBytes
<1> HIDE DEF x
<1> QED
  BY <1>1, <1>2 DEF out

(* The sequence numbers used by the first k segments, those segments, and  *)
(* the sender and its transmissions after them.                            *)
Used(s, k) ==
    IF k = 0 THEN 0
    ELSE Bit(SendsSyn(s)) + Gone(s, k) + Bit(SendsFin(s) /\ k = SegmentsToSend(s))

FirstSegments(s, k) == [j \in 1 .. k |-> SegmentToSend(s, j)]

SentSoFar(s, k) ==
    IF k = 0 THEN s
    ELSE [s EXCEPT !.input = [s.input EXCEPT !.popped = @ + Gone(s, k)],
                   !.next_seqno = @ + Used(s, k),
                   !.bytes_in_flight = @ + Used(s, k),
                   !.syn_sent = TRUE,
                   !.fin_sent = @ \/ (SendsFin(s) /\ k = SegmentsToSend(s)),
                   !.outstanding = @ \o FirstSegments(s, k),
                   !.timer = IF @.running THEN @ ELSE TimerStart(@)]

(* The first k segments of the closed form and the next. *)
LEMMA FirstSegmentsGrow ==
  ASSUME NEW s, GoodSender(s), NEW k \in 0 .. SegmentsToSend(s) - 1
  PROVE  /\ FirstSegments(s, k) \in Seq(MessageRecord) /\ FirstSegments(s, k + 1) \in Seq(MessageRecord)
         /\ SegmentToSend(s, k + 1) \in MessageRecord
         /\ FirstSegments(s, k + 1) = Append(FirstSegments(s, k), SegmentToSend(s, k + 1))
         /\ s.outstanding \o FirstSegments(s, k + 1)
              = Append(s.outstanding \o FirstSegments(s, k), SegmentToSend(s, k + 1))
         /\ s.outstanding \o FirstSegments(s, 0) = s.outstanding
<1> DEFINE N == SegmentsToSend(s)
           q == FirstSegments(s, k)
           r == FirstSegments(s, k + 1)
           m == SegmentToSend(s, k + 1)
           o == s.outstanding
<1>1. N \in Nat /\ k \in Nat /\ k + 1 \in 1 .. N /\ LengthToSend(s) > 0
  <2>1. N \in Nat /\ (N = 0 <=> LengthToSend(s) = 0) /\ LengthToSend(s) \in Nat
    BY PlanNumbers, PushNumbers
  <2> QED
    BY <2>1
<1>2. \A j \in 1 .. N : SegmentToSend(s, j) \in MessageRecord
  <2>1. PushSegments(s) \in Seq(MessageRecord) /\ Len(PushSegments(s)) = N
    BY <1>1, PushedSegments
  <2>2. \A j \in 1 .. N : PushSegments(s)[j] = SegmentToSend(s, j)
    BY DEF PushSegments
  <2>3. \A j \in 1 .. N : PushSegments(s)[j] \in MessageRecord
    BY <2>1, ElementOfSeq
  <2> QED
    BY <2>2, <2>3
<1>3. m \in MessageRecord /\ o \in Seq(MessageRecord)
  BY <1>1, <1>2, SenderTypes DEF GoodSender
<1> HIDE DEF N
<1>4. \A j \in 0 .. N : FirstSegments(s, j) \in Seq(MessageRecord) /\ Len(FirstSegments(s, j)) = j
  BY <1>1, <1>2 DEF FirstSegments
<1>5. q \in Seq(MessageRecord) /\ Len(q) = k /\ r \in Seq(MessageRecord) /\ Len(r) = k + 1
  BY <1>1, <1>4
<1>6. (\A j \in 1 .. k : q[j] = SegmentToSend(s, j)) /\ (\A j \in 1 .. k + 1 : r[j] = SegmentToSend(s, j))
  BY DEF FirstSegments
<1> HIDE DEF q, r
<1>7. r = Append(q, m)
  <2>1. /\ Append(q, m) \in Seq(MessageRecord) /\ Len(Append(q, m)) = k + 1
        /\ \A i \in 1 .. k : Append(q, m)[i] = q[i]
        /\ Append(q, m)[k + 1] = m
    BY <1>3, <1>5, AppendProperties
  <2>2. \A i \in 1 .. k + 1 : r[i] = Append(q, m)[i]
    <3> SUFFICES ASSUME NEW i \in 1 .. k + 1 PROVE r[i] = Append(q, m)[i]
      OBVIOUS
    <3>1. CASE i = k + 1
      BY <1>6, <2>1, <3>1
    <3>2. CASE i # k + 1
      <4>1. i \in 1 .. k
        BY <1>1, <3>2
      <4> QED
        BY <1>6, <2>1, <4>1
    <3> QED
      BY <3>1, <3>2
  <2> QED
    BY <1>5, <2>1, <2>2, SeqEqual
<1> HIDE DEF m, o
<1>8. o \o Append(q, m) = Append(o \o q, m)
  <2>1. <<m>> \in Seq(MessageRecord) /\ o \o q \in Seq(MessageRecord)
    BY <1>3, <1>5, ConcatProperties
  <2>2. Append(q, m) = q \o <<m>>
    BY <1>3, <1>5, AppendIsConcat
  <2>3. Append(o \o q, m) = (o \o q) \o <<m>>
    BY <1>3, <2>1, AppendIsConcat
  <2>4. (o \o q) \o <<m>> = o \o (q \o <<m>>)
    BY <1>3, <1>5, <2>1, ConcatAssociative
  <2> QED
    BY <2>2, <2>3, <2>4
<1>9. o \o FirstSegments(s, 0) = o
  <2>1. FirstSegments(s, 0) = <<>>
    BY DEF FirstSegments
  <2> QED
    BY <1>3, <2>1, ConcatEmptySeq
<1> QED
  BY <1>3, <1>5, <1>7, <1>8, <1>9 DEF q, r, m, o

(* What the fields of the sender are after k segments. *)
LEMMA SentFields ==
  ASSUME NEW s, GoodSender(s), NEW k \in 0 .. SegmentsToSend(s)
  PROVE  LET t == SentSoFar(s, k)
         IN  /\ t.isn = s.isn /\ t.next_seqno = s.next_seqno + Used(s, k)
             /\ t.syn_sent = (s.syn_sent \/ k # 0)
             /\ t.fin_sent = (s.fin_sent \/ (k # 0 /\ SendsFin(s) /\ k = SegmentsToSend(s)))
             /\ t.input = [s.input EXCEPT !.popped = s.input.popped + Gone(s, k)]
             /\ t.input.pushed = s.input.pushed /\ t.input.popped = s.input.popped + Gone(s, k)
             /\ t.input.closed = s.input.closed /\ t.input.error = s.input.error
             /\ BytesBuffered(t.input) = BytesBuffered(s.input) - Gone(s, k)
<1> DEFINE t == SentSoFar(s, k)
           g == Gone(s, k)
           u == Used(s, k)
<1>0. s \in SenderRecord /\ s.input \in InputRecord
  BY DEF GoodSender, SenderRecord
<1>1. /\ s.next_seqno \in Nat /\ s.input.popped \in Nat /\ Len(s.input.pushed) \in Nat
      /\ s.syn_sent \in BOOLEAN /\ s.fin_sent \in BOOLEAN
  BY <1>0, SenderTypes
<1>2. g \in Nat /\ (k = 0 => g = 0)
  <2>1. g \in 0 .. PayloadToSend(s) /\ PayloadToSend(s) \in Nat /\ Gone(s, 0) = 0
    BY PlanNumbers
  <2> QED
    BY <2>1
<1>3. k = 0 => u = 0
  BY DEF Used
<1> HIDE DEF g
<1>4. /\ t.isn = s.isn /\ t.next_seqno = s.next_seqno + u
      /\ t.syn_sent = (s.syn_sent \/ k # 0)
      /\ t.fin_sent = (s.fin_sent \/ (k # 0 /\ SendsFin(s) /\ k = SegmentsToSend(s)))
      /\ t.input = [s.input EXCEPT !.popped = s.input.popped + g]
  <2>1. CASE k = 0
    <3>1. s.input.popped + g = s.input.popped /\ s.next_seqno + u = s.next_seqno
      BY <1>1, <1>2, <1>3, <2>1
    <3>2. [s.input EXCEPT !.popped = s.input.popped] = s.input
      BY <1>0 DEF InputRecord
    <3>3. t = s
      BY <2>1 DEF SentSoFar
    <3> QED
      BY <1>1, <2>1, <3>1, <3>2, <3>3
  <2>2. CASE k # 0
    <3>1. t = [s EXCEPT !.input = [s.input EXCEPT !.popped = @ + g],
                   !.next_seqno = @ + u,
                   !.bytes_in_flight = @ + u,
                   !.syn_sent = TRUE,
                   !.fin_sent = @ \/ (SendsFin(s) /\ k = SegmentsToSend(s)),
                   !.outstanding = @ \o FirstSegments(s, k),
                   !.timer = IF @.running THEN @ ELSE TimerStart(@)]
      BY <2>2 DEF SentSoFar, g
    <3> HIDE DEF t, u
    <3>2. /\ t.isn = s.isn /\ t.next_seqno = s.next_seqno + u /\ t.syn_sent = TRUE
          /\ t.fin_sent = (s.fin_sent \/ (SendsFin(s) /\ k = SegmentsToSend(s)))
          /\ t.input = [s.input EXCEPT !.popped = @ + g]
      BY <1>0, <3>1 DEF SenderRecord
    <3> QED
      BY <1>1, <2>2, <3>2
  <2> QED
    BY <2>1, <2>2
<1> HIDE DEF t
<1>5. /\ t.input.pushed = s.input.pushed /\ t.input.popped = s.input.popped + g
      /\ t.input.closed = s.input.closed /\ t.input.error = s.input.error
  BY <1>0, <1>4 DEF InputRecord
<1>6. BytesBuffered(t.input) = BytesBuffered(s.input) - g
  BY <1>1, <1>2, <1>5 DEF BytesBuffered
<1> HIDE DEF u
<1> QED
  BY <1>4, <1>5, <1>6 DEF t, g, u

(* One turn of the loop of push() sends the next segment of the closed form. *)
LEMMA PushTurnSends ==
  ASSUME NEW s, GoodSender(s), NEW k \in 0 .. SegmentsToSend(s) - 1
  PROVE  PushTurn(Out(SentSoFar(s, k), FirstSegments(s, k)), RightEdge(s))
           = Out(SentSoFar(s, k + 1), FirstSegments(s, k + 1))
<1> DEFINE N == SegmentsToSend(s)
           P == PayloadToSend(s)
           B == Budget(s)
           b == BytesBuffered(s.input)
           y == Bit(SendsSyn(s))
           t == SentSoFar(s, k)
           g == Gone(s, k)
           h == Gone(s, k + 1)
           u == Used(s, k)
           q == FirstSegments(s, k)
           SYN == ~t.syn_sent
           w == RightEdge(s) - t.next_seqno
           n == Least(Least(w - Bit(SYN), MaxPayload), BytesBuffered(t.input))
           input == ReaderPop(t.input, n)
           FIN == /\ ~t.fin_sent /\ input.closed /\ BytesBuffered(input) = 0 /\ Bit(SYN) + n < w
           length == Bit(SYN) + n + Bit(FIN)
           ends == SendsFin(s) /\ k + 1 = N
           m == SegmentToSend(s, k + 1)
<1>0. s \in SenderRecord /\ s.input \in InputRecord
  BY DEF GoodSender, SenderRecord
<1>1. /\ s.next_seqno \in Nat /\ s.bytes_in_flight \in Nat /\ s.input.popped \in Nat /\ Len(s.input.pushed) \in Nat
      /\ s.syn_sent \in BOOLEAN /\ s.fin_sent \in BOOLEAN /\ s.input.closed \in BOOLEAN
      /\ MaxPayload \in Nat \ {0} /\ s.timer \in TimerRecord
  BY <1>0, SenderTypes
<1>2. /\ N \in Nat /\ k \in Nat /\ k < N /\ k \in 0 .. N /\ k + 1 \in 0 .. N
      /\ P \in Nat /\ (P = 0 => N <= 1)
      /\ g \in 0 .. P /\ h \in 0 .. P /\ (k = 0 => g = 0)
      /\ h = g + Least(MaxPayload, P - g) /\ (P > 0 => g < h) /\ (h = P <=> k + 1 = N)
      /\ N <= B /\ LengthToSend(s) # 0
  <2>1. N \in Nat /\ k \in Nat /\ k < N /\ k \in 0 .. N /\ k + 1 \in 0 .. N
    BY PlanNumbers
  <2> QED
    BY <2>1, PlanNumbers
<1>3. /\ B \in Nat /\ y \in {0, 1} /\ P <= b /\ b \in Nat
      /\ B > 0 => ~s.fin_sent /\ s.next_seqno + B = RightEdge(s)
      /\ LengthToSend(s) = y + P + Bit(SendsFin(s))
  <2>1. b \in Int
    BY <1>1 DEF BytesBuffered
  <2>2. P \in 0 .. b
    BY PushNumbers
  <2> QED
    BY <2>1, <2>2, PushNumbers
<1>4. /\ P = Least(b, B - y) /\ B > 0 /\ (SendsSyn(s) <=> ~s.syn_sent)
      /\ SendsFin(s) <=> s.input.closed /\ P = b /\ y + P < B
  <2>1. B > 0
    <3> HIDE DEF B, N
    <3> QED
      BY <1>2, <1>3
  <2> QED
    BY <2>1 DEF PayloadToSend, SendsSyn, SendsFin
<1>5. /\ t.isn = s.isn /\ t.next_seqno = s.next_seqno + u
      /\ t.syn_sent = (s.syn_sent \/ k # 0) /\ t.fin_sent = s.fin_sent
      /\ t.input = [s.input EXCEPT !.popped = s.input.popped + g]
      /\ t.input.pushed = s.input.pushed /\ t.input.popped = s.input.popped + g
      /\ t.input.closed = s.input.closed /\ t.input.error = s.input.error
      /\ BytesBuffered(t.input) = b - g
  <2>1. k # N
    <3> HIDE DEF N
    <3> QED
      BY <1>2
  <2>2. /\ t.isn = s.isn /\ t.next_seqno = s.next_seqno + u
        /\ t.syn_sent = (s.syn_sent \/ k # 0)
        /\ t.fin_sent = (s.fin_sent \/ (k # 0 /\ SendsFin(s) /\ k = N))
        /\ t.input = [s.input EXCEPT !.popped = s.input.popped + g]
        /\ t.input.pushed = s.input.pushed /\ t.input.popped = s.input.popped + g
        /\ t.input.closed = s.input.closed /\ t.input.error = s.input.error
        /\ BytesBuffered(t.input) = b - g
    BY <1>2, SentFields
  <2> HIDE DEF t, u, g, b, N
  <2>3. t.fin_sent = s.fin_sent
    BY <1>1, <2>1, <2>2
  <2> QED
    BY <2>2, <2>3
<1>6. u = IF k = 0 THEN 0 ELSE y + g
  <2>1. k # N
    <3> HIDE DEF N
    <3> QED
      BY <1>2
  <2>2. Bit(SendsFin(s) /\ k = N) = 0
    BY <2>1 DEF Bit
  <2>3. CASE k = 0
    BY <2>3 DEF Used
  <2>4. CASE k # 0
    <3>1. u = y + g + 0
      BY <2>2, <2>4 DEF Used
    <3>2. y \in Nat /\ g \in Nat
      <4> HIDE DEF y, g, P
      <4> QED
        BY <1>2, <1>3
    <3> HIDE DEF u, y, g
    <3> QED
      BY <2>4, <3>1, <3>2
  <2> QED
    BY <2>3, <2>4
<1>7. SYN <=> (k = 0 /\ SendsSyn(s))
  BY <1>1, <1>4, <1>5
<1>8. Bit(SYN) = IF k = 0 THEN y ELSE 0
  <2>1. CASE k = 0
    BY <1>7, <2>1 DEF Bit
  <2>2. CASE k # 0
    BY <1>7, <2>2 DEF Bit
  <2> QED
    BY <2>1, <2>2
<1> HIDE DEF N, P, B, b, y, t, g, h, u, q, SYN
<1>9. /\ w = B - u /\ w - Bit(SYN) = B - y - g /\ w > 0 /\ w # 0
      /\ t.next_seqno < RightEdge(s)
  <2>1. u \in Nat /\ g \in Nat /\ y \in Nat /\ RightEdge(s) = s.next_seqno + B /\ t.next_seqno = s.next_seqno + u
    BY <1>2, <1>3, <1>4, <1>5, <1>6
  <2>2. w = B - u
    BY <1>1, <1>3, <2>1
  <2>3. w - Bit(SYN) = B - y - g
    <3>1. CASE k = 0
      BY <1>2, <1>3, <1>6, <1>8, <2>1, <2>2, <3>1
    <3>2. CASE k # 0
      BY <1>2, <1>3, <1>6, <1>8, <2>1, <2>2, <3>2
    <3> QED
      BY <3>1, <3>2
  <2>4. u < B
    <3>1. CASE k = 0
      BY <1>4, <1>6, <3>1, <1>3
    <3>2. CASE k # 0
      <4>1. P > 0
        BY <1>2, <3>2
      <4>2. g < P /\ P <= B - y
        BY <1>2, <1>3, <1>4, <4>1 DEF Least
      <4> QED
        BY <1>2, <1>3, <1>6, <2>1, <3>2, <4>2
    <3> QED
      BY <3>1, <3>2
  <2> QED
    <3>1. B \in Nat /\ s.next_seqno \in Nat
      BY <1>1, <1>3
    <3>2. w > 0 /\ w # 0
      BY ONLY <2>1, <2>2, <2>4, <3>1
    <3>3. t.next_seqno < RightEdge(s)
      BY ONLY <2>1, <2>4, <3>1
    <3> QED
      BY ONLY <2>2, <2>3, <3>2, <3>3, Zenon
<1>10. n = h - g
  <2>1. n = Least(Least(B - y - g, MaxPayload), b - g)
    BY <1>5, <1>9
  <2>2. Least(Least(B - y - g, MaxPayload), b - g) = Least(MaxPayload, P - g)
    <3>1. g \in Nat /\ g <= P
      BY <1>2
    <3> QED
      <4>1. /\ MaxPayload \in Nat /\ B \in Nat /\ y \in {0, 1} /\ b \in Nat /\ P \in Nat
            /\ P = Least(b, B - y)
        BY <1>1, <1>2, <1>3, <1>4
      <4>2. CASE b < B - y
        BY ONLY <3>1, <4>1, <4>2 DEF Least
      <4>3. CASE ~(b < B - y)
        BY ONLY <3>1, <4>1, <4>3 DEF Least
      <4> QED
        BY ONLY <4>2, <4>3, Zenon
  <2>3. Least(MaxPayload, P - g) = h - g
    <3>1. g \in Nat /\ g <= P
      BY <1>2
    <3> QED
      BY <1>1, <1>2, <3>1 DEF Least
  <2> QED
    BY <2>1, <2>2, <2>3
<1>11. g \in Nat /\ h \in Nat /\ n \in Nat /\ g <= h /\ h <= P
  <2>1. g \in Nat /\ h \in Nat /\ g <= P /\ h <= P
    BY <1>2
  <2>2. g <= h
    BY <1>1, <1>2, <2>1 DEF Least
  <2> HIDE DEF n
  <2> QED
    BY <1>10, <2>1, <2>2
<1> HIDE DEF w, n
<1>12. input = [s.input EXCEPT !.popped = s.input.popped + h] /\ BytesBuffered(input) = b - h
       /\ input.closed = s.input.closed
  <2>1. (IF n < BytesBuffered(t.input) THEN n ELSE BytesBuffered(t.input)) = n
    BY <1>2, <1>3, <1>5, <1>10, <1>11
  <2>2. input = [t.input EXCEPT !.popped = @ + n]
    BY <2>1 DEF ReaderPop
  <2>3. (s.input.popped + g) + n = s.input.popped + h
    BY <1>1, <1>10, <1>11
  <2>4. input = [s.input EXCEPT !.popped = s.input.popped + h]
    BY <1>0, <1>5, <2>2, <2>3 DEF InputRecord
  <2> HIDE DEF input
  <2>5. input.pushed = s.input.pushed /\ input.popped = s.input.popped + h /\ input.closed = s.input.closed
    BY <1>0, <2>4 DEF InputRecord
  <2>6. BytesBuffered(input) = b - h
    BY <1>1, <1>11, <2>5 DEF BytesBuffered, b
  <2> QED
    BY <2>4, <2>5, <2>6
<1> HIDE DEF input
<1>13. FIN <=> ends
  <2>1. Bit(SYN) + n < w <=> y + h < B
    <3>1. w - Bit(SYN) = B - y - g /\ w \in Int /\ Bit(SYN) \in Int
      <4>1. Bit(SYN) \in Int
        BY <1>3, <1>8
      <4>2. u \in Int
        BY <1>2, <1>3, <1>6
      <4> QED
        BY <1>3, <1>9, <4>1, <4>2
    <3> QED
      BY <1>3, <1>10, <1>11, <3>1
  <2>2. b - h = 0 <=> h = P /\ P = b
    BY <1>2, <1>3, <1>11
  <2>3. ~t.fin_sent
    BY <1>3, <1>4, <1>5
  <2>4. FIN <=> s.input.closed /\ h = P /\ P = b /\ y + h < B
    BY <1>12, <2>1, <2>2, <2>3
  <2> QED
    BY <1>2, <1>4, <2>4 DEF N
<1>14. Bit(FIN) = Bit(ends) /\ Bit(ends) \in {0, 1}
  BY <1>13 DEF Bit
<1> HIDE DEF FIN, ends
<1>15. length # 0 /\ length \in Nat /\ u + length = Used(s, k + 1)
  <2>1. Bit(SYN) \in Nat /\ Bit(FIN) \in Nat
    BY <1>3, <1>8, <1>14
  <2>2. length \in Nat
    BY <1>11, <2>1
  <2>3. length # 0
    <3>1. CASE P > 0
      <4>1. n > 0
        BY <1>2, <1>10, <1>11, <3>1
      <4> QED
        BY <1>11, <2>1, <4>1
    <3>2. CASE P = 0
      <4>1. N = 1 /\ k = 0
        BY <1>2, <3>2
      <4>2. Bit(ends) = Bit(SendsFin(s))
        BY <4>1 DEF Bit, ends
      <4>3. y + Bit(SendsFin(s)) # 0
        BY <1>2, <1>3, <3>2 DEF Bit
      <4> QED
        BY <1>8, <1>11, <1>14, <2>1, <4>1, <4>2, <4>3
    <3> QED
      BY <1>2, <3>1, <3>2
  <2>4. Used(s, k + 1) = y + h + Bit(ends)
    <3>1. k + 1 # 0
      BY <1>2
    <3> QED
      BY <3>1 DEF Used, y, h, N, ends
  <2>5. u + (Bit(SYN) + n + Bit(FIN)) = y + h + Bit(ends)
    <3>1. u + Bit(SYN) = y + g /\ u \in Nat
      BY <1>2, <1>3, <1>6, <1>8
    <3> QED
      BY <1>3, <1>10, <1>11, <1>14, <2>1, <3>1
  <2> QED
    BY <2>2, <2>3, <2>4, <2>5
<1>16. SenderMessage(Wrap(t.next_seqno, t.isn), SYN, NextBytes(t.input, n), FIN, t.input.error) = m
  <2>1. m = SenderMessage(Wrap(s.next_seqno + (IF k + 1 = 1 THEN 0 ELSE y) + g, s.isn),
                          SendsSyn(s) /\ k + 1 = 1,
                          SubSeq(s.input.pushed, s.input.popped + g + 1, s.input.popped + h),
                          ends, s.input.error)
    BY Zenon DEF SegmentToSend, Gone, y, g, h, N, ends
  <2>2. t.next_seqno = s.next_seqno + (IF k + 1 = 1 THEN 0 ELSE y) + g
    BY <1>1, <1>2, <1>3, <1>5, <1>6
  <2>3. SYN = (SendsSyn(s) /\ k + 1 = 1)
    <3>1. k = 0 <=> k + 1 = 1
      BY <1>2
    <3> QED
      BY <1>7, <3>1 DEF SYN
  <2>4. FIN = ends
    BY <1>13 DEF FIN, ends
  <2>5. NextBytes(t.input, n) = SubSeq(s.input.pushed, s.input.popped + g + 1, s.input.popped + h)
    <3>1. (s.input.popped + g) + n = s.input.popped + h
      BY <1>1, <1>10, <1>11
    <3> QED
      BY <1>5, <3>1 DEF NextBytes
  <2> QED
    BY <1>5, <2>1, <2>2, <2>3, <2>4, <2>5
<1>17. SendSegment(Out(t, q), w)
         = Out([t EXCEPT !.input = input,
                         !.next_seqno = @ + length,
                         !.bytes_in_flight = @ + length,
                         !.syn_sent = @ \/ SYN,
                         !.fin_sent = @ \/ FIN,
                         !.outstanding = Append(@, m),
                         !.timer = IF @.running THEN @ ELSE TimerStart(@)],
               Append(q, m))
  <2> DEFINE z == SenderMessage(Wrap(t.next_seqno, t.isn), SYN, NextBytes(t.input, n), FIN, t.input.error)
  <2>1. z = m
    BY <1>16
  <2>2. SYN = PutsSyn(t) /\ n = PutsBytes(t, w) /\ input = InputAfter(t, w)
    BY DEF SYN, n, input, PutsSyn, PutsBytes, InputAfter
  <2>3. FIN = PutsFin(t, w)
    BY <2>2 DEF FIN, PutsFin
  <2>4. length = PutsLength(t, w) /\ z = PutTogether(t, w)
    BY <2>2, <2>3 DEF PutsLength, PutTogether
  <2> HIDE DEF z, length, FIN, m
  <2>5. SendSegment(Out(t, q), w) = Out(AfterSegment(t, w), Append(q, m))
    BY <1>9, <1>15, <2>1, <2>4, SegmentSent
  <2>6. AfterSegment(t, w) = [t EXCEPT !.input = input,
                         !.next_seqno = @ + length,
                         !.bytes_in_flight = @ + length,
                         !.syn_sent = @ \/ SYN,
                         !.fin_sent = @ \/ FIN,
                         !.outstanding = Append(@, m),
                         !.timer = IF @.running THEN @ ELSE TimerStart(@)]
    BY <2>1, <2>2, <2>3, <2>4 DEF AfterSegment
  <2> QED
    BY <2>5, <2>6
<1> DEFINE d == length
           f == FIN
           o == s.outstanding
           c == IF s.timer.running THEN s.timer ELSE TimerStart(s.timer)
           T == [s EXCEPT !.input = input,
                          !.next_seqno = s.next_seqno + Used(s, k + 1),
                          !.bytes_in_flight = s.bytes_in_flight + Used(s, k + 1),
                          !.syn_sent = TRUE,
                          !.fin_sent = FIN,
                          !.outstanding = Append(o \o q, m),
                          !.timer = c]
<1>18. d \in Nat /\ u \in Nat /\ u + d = Used(s, k + 1) /\ s.fin_sent = FALSE
       /\ (k = 0 => u = 0 /\ SYN = ~s.syn_sent) /\ (k # 0 => t.syn_sent = TRUE)
       /\ c.running = TRUE
  <2>1. u \in Nat
    BY <1>2, <1>3, <1>6
  <2>2. s.fin_sent = FALSE
    BY <1>1, <1>3, <1>4
  <2>3. k = 0 => SYN = ~s.syn_sent
    BY <1>1, <1>5 DEF SYN
  <2>4. k # 0 => t.syn_sent = TRUE
    BY <1>5
  <2>5. c.running = TRUE
    <3>1. CASE s.timer.running
      BY <1>1, <3>1 DEF TimerRecord
    <3>2. CASE ~s.timer.running
      BY <1>1, <3>2 DEF TimerRecord, TimerStart
    <3> QED
      BY <3>1, <3>2
  <2> QED
    BY <1>6, <1>15, <2>1, <2>2, <2>3, <2>4, <2>5
<1>19. FIN \in BOOLEAN /\ SYN \in BOOLEAN
  BY DEF FIN, SYN
<1> HIDE DEF d, c
<1>20. [t EXCEPT !.input = input,
                 !.next_seqno = @ + d,
                 !.bytes_in_flight = @ + d,
                 !.syn_sent = @ \/ SYN,
                 !.fin_sent = @ \/ FIN,
                 !.outstanding = Append(@, m),
                 !.timer = IF @.running THEN @ ELSE TimerStart(@)] = T
  <2>1. CASE k = 0
    <3>1. t = s
      BY <2>1 DEF t, SentSoFar
    <3>2. /\ s.next_seqno + d = s.next_seqno + Used(s, k + 1)
          /\ s.bytes_in_flight + d = s.bytes_in_flight + Used(s, k + 1)
      BY <1>1, <1>18, <2>1
    <3>3. (s.syn_sent \/ SYN) = TRUE /\ (s.fin_sent \/ FIN) = FIN
      BY <1>1, <1>18, <1>19, <2>1
    <3>4. o \o q = o
      <4>1. k \in 0 .. SegmentsToSend(s) - 1
        OBVIOUS
      <4> QED
        BY <2>1, <4>1, FirstSegmentsGrow DEF q
    <3> HIDE DEF m
    <3> QED
      BY <1>0, <3>1, <3>2, <3>3, <3>4 DEF c
  <2>2. CASE k # 0
    <3>1. t = [s EXCEPT !.input = [s.input EXCEPT !.popped = @ + g],
                   !.next_seqno = @ + u,
                   !.bytes_in_flight = @ + u,
                   !.syn_sent = TRUE,
                   !.fin_sent = @ \/ (SendsFin(s) /\ k = N),
                   !.outstanding = @ \o q,
                   !.timer = c]
      BY <2>2, Zenon DEF t, SentSoFar, g, u, N, q, c
    <3>2. (s.next_seqno + u) + d = s.next_seqno + Used(s, k + 1)
          /\ (s.bytes_in_flight + u) + d = s.bytes_in_flight + Used(s, k + 1)
      BY <1>1, <1>18
    <3>3. k # N
      BY <1>2
    <3>4. ((s.fin_sent \/ (SendsFin(s) /\ k = N)) \/ FIN) = FIN
      BY <1>18, <1>19, <3>3
    <3>5. /\ t.next_seqno = s.next_seqno + u /\ t.bytes_in_flight = s.bytes_in_flight + u
          /\ t.syn_sent = TRUE /\ t.fin_sent = (s.fin_sent \/ (SendsFin(s) /\ k = N))
          /\ t.outstanding = o \o q /\ t.timer = c
      BY <1>0, <3>1 DEF SenderRecord
    <3>6. [t EXCEPT !.input = input,
                    !.next_seqno = s.next_seqno + Used(s, k + 1),
                    !.bytes_in_flight = s.bytes_in_flight + Used(s, k + 1),
                    !.syn_sent = TRUE,
                    !.fin_sent = FIN,
                    !.outstanding = Append(o \o q, m),
                    !.timer = c] = T
      <4> HIDE DEF m, o
      <4> QED
        BY <1>0, <3>1 DEF SenderRecord
    <3>7. (t.syn_sent \/ SYN) = TRUE /\ (t.fin_sent \/ FIN) = FIN
      BY <3>4, <3>5
    <3> HIDE DEF T, m, o
    <3> QED
      BY <1>18, <3>2, <3>5, <3>6, <3>7
  <2> QED
    BY <2>1, <2>2
<1>21. T = SentSoFar(s, k + 1)
  <2>1. k + 1 # 0
    BY <1>2
  <2>2. input = [s.input EXCEPT !.popped = @ + Gone(s, k + 1)]
    BY <1>12 DEF h
  <2>3. FIN = (s.fin_sent \/ (SendsFin(s) /\ k + 1 = SegmentsToSend(s)))
    BY <1>13, <1>18 DEF FIN, ends, N
  <2>4. Append(o \o q, m) = s.outstanding \o FirstSegments(s, k + 1)
    BY FirstSegmentsGrow DEF q
  <2> DEFINE F == s.fin_sent \/ (SendsFin(s) /\ k + 1 = SegmentsToSend(s))
             O == s.outstanding \o FirstSegments(s, k + 1)
  <2>5. SentSoFar(s, k + 1)
          = [s EXCEPT !.input = [s.input EXCEPT !.popped = @ + Gone(s, k + 1)],
                          !.next_seqno = @ + Used(s, k + 1),
                          !.bytes_in_flight = @ + Used(s, k + 1),
                          !.syn_sent = TRUE,
                          !.fin_sent = F,
                          !.outstanding = O,
                          !.timer = c]
    BY <2>1, Zenon DEF SentSoFar, c
  <2>6. FIN = F /\ Append(o \o q, m) = O
    BY <2>3, <2>4
  <2> HIDE DEF F, O, m, o
  <2> QED
    BY <2>2, <2>5, <2>6
<1>22. Append(q, m) = FirstSegments(s, k + 1)
  BY FirstSegmentsGrow DEF q
<1>23. PushTurn(Out(t, q), RightEdge(s)) = SendSegment(Out(t, q), w)
  <2>1. Out(t, q).sender = t
    BY DEF Out
  <2>2. ~t.fin_sent
    BY <1>5, <1>18
  <2> QED
    BY <1>9, <2>1, <2>2 DEF PushTurn, w
<1> HIDE DEF T, m
<1> QED
  BY <1>17, <1>20, <1>21, <1>22, <1>23 DEF d, t, q

(* After the last segment a turn changes nothing: the window is full, FIN  *)
(* is out, or there is nothing to put into a segment.                      *)
LEMMA PushTurnEnds ==
  ASSUME NEW s, GoodSender(s)
  PROVE  LET N == SegmentsToSend(s)
             out == Out(SentSoFar(s, N), FirstSegments(s, N))
         IN  PushTurn(out, RightEdge(s)) = out
<1> DEFINE N == SegmentsToSend(s)
           P == PayloadToSend(s)
           B == Budget(s)
           b == BytesBuffered(s.input)
           y == Bit(SendsSyn(s))
           t == SentSoFar(s, N)
           u == Used(s, N)
           q == FirstSegments(s, N)
           w == RightEdge(s) - t.next_seqno
<1>0. s \in SenderRecord /\ s.input \in InputRecord
  BY DEF GoodSender, SenderRecord
<1>1. /\ s.next_seqno \in Nat /\ s.input.popped \in Nat /\ Len(s.input.pushed) \in Nat
      /\ s.syn_sent \in BOOLEAN /\ s.fin_sent \in BOOLEAN /\ s.input.closed \in BOOLEAN
      /\ MaxPayload \in Nat \ {0}
  BY <1>0, SenderTypes
<1>2. /\ N \in Nat /\ N \in 0 .. N /\ P \in Nat /\ Gone(s, N) = P
      /\ (N = 0 <=> LengthToSend(s) = 0)
  <2>1. N \in Nat
    BY PlanNumbers
  <2>2. N \in 0 .. N
    <3> HIDE DEF N
    <3> QED
      BY <2>1
  <2> QED
    BY <2>1, <2>2, PlanNumbers
<1>3. /\ B \in Nat /\ y \in {0, 1} /\ P <= b /\ b \in Nat
      /\ B > 0 => ~s.fin_sent /\ s.next_seqno + B = RightEdge(s)
      /\ LengthToSend(s) = y + P + Bit(SendsFin(s)) /\ LengthToSend(s) \in Nat
      /\ LengthToSend(s) <= B /\ Bit(SendsFin(s)) \in {0, 1}
  <2>1. b \in Int
    BY <1>1 DEF BytesBuffered
  <2>2. P \in 0 .. b
    BY PushNumbers
  <2> QED
    BY <2>1, <2>2, PushNumbers
<1>4. /\ P = Least(b, B - y) /\ (B > 0 => (SendsSyn(s) <=> ~s.syn_sent))
      /\ SendsFin(s) <=> s.input.closed /\ P = b /\ y + P < B
  BY DEF PayloadToSend, SendsSyn, SendsFin
<1>5. /\ t.next_seqno = s.next_seqno + u
      /\ t.syn_sent = (s.syn_sent \/ N # 0)
      /\ t.fin_sent = (s.fin_sent \/ (N # 0 /\ SendsFin(s) /\ N = N))
      /\ t.input.popped = s.input.popped + Gone(s, N)
      /\ t.input = [s.input EXCEPT !.popped = s.input.popped + Gone(s, N)]
      /\ t.input.pushed = s.input.pushed
      /\ t.input.closed = s.input.closed
      /\ BytesBuffered(t.input) = b - Gone(s, N)
  BY <1>2, SentFields
<1>6. u = LengthToSend(s)
  <2>1. CASE N = 0
    BY <1>2, <2>1 DEF Used
  <2>2. CASE N # 0
    <3>1. Bit(SendsFin(s) /\ N = N) = Bit(SendsFin(s))
      BY DEF Bit
    <3>2. u = y + Gone(s, N) + Bit(SendsFin(s))
      BY <2>2, <3>1 DEF Used
    <3> QED
      BY <1>2, <1>3, <3>2
  <2> QED
    BY <2>1, <2>2
<1>7. Out(t, q).sender = t
  BY DEF Out
<1>8. CASE ~(t.next_seqno < RightEdge(s) /\ ~t.fin_sent)
  BY <1>7, <1>8 DEF PushTurn
<1>9. CASE t.next_seqno < RightEdge(s) /\ ~t.fin_sent
  <2> DEFINE f == Bit(SendsFin(s))
             l == LengthToSend(s)
             g == Gone(s, N)
  <2> HIDE DEF N, P, B, b, y, t, u, q, f, l, g
  <2>1. ~s.fin_sent /\ ~SendsFin(s) /\ f = 0
    <3>1. ~s.fin_sent
      BY <1>5, <1>9
    <3>2. ~SendsFin(s)
      <4>1. CASE N # 0
        BY <1>5, <1>9, <4>1
      <4>2. CASE N = 0
        <5>1. f = 0
          BY <1>2, <1>3, <4>2 DEF f
        <5> QED
          BY <5>1 DEF f, Bit
      <4> QED
        BY <4>1, <4>2
    <3> QED
      BY <3>1, <3>2 DEF f, Bit
  <2>2. B > 0 /\ s.next_seqno + B = RightEdge(s) /\ u < B
    <3>1. s.next_seqno < RightEdge(s)
      <4>1. u \in Nat /\ RightEdge(s) \in Int
        <5>1. AbsAck(s) \in Nat /\ EffectiveWindow(s) \in 1 .. WinMax /\ WinMax \in Nat
          BY PushNumbers, WindowAssumption
        <5> QED
          BY <1>3, <1>6, <5>1 DEF RightEdge, l
      <4> QED
        BY <1>1, <1>5, <1>9, <4>1
    <3>2. AbsAck(s) \in Nat /\ EffectiveWindow(s) \in 1 .. WinMax /\ WinMax \in Nat
      BY PushNumbers, WindowAssumption
    <3>3. RightEdge(s) \in Int
      BY <3>2 DEF RightEdge
    <3>4. B = RightEdge(s) - s.next_seqno
      BY <2>1, <3>1 DEF B, Budget
    <3> QED
      BY <1>1, <1>3, <1>5, <1>6, <1>9, <3>1, <3>3, <3>4
  <2>3. /\ w = B - u /\ w > 0 /\ w # 0 /\ u = y + P /\ t.syn_sent = TRUE
    <3>1. u = y + P
      BY <1>2, <1>3, <1>6, <2>1 DEF f
    <3>2. t.syn_sent = TRUE
      <4>1. CASE N # 0
        BY <1>1, <1>5, <4>1
      <4>2. CASE N = 0
        <5>1. y = 0
          BY <1>2, <1>3, <4>2
        <5>2. ~SendsSyn(s)
          BY <5>1 DEF y, Bit
        <5> QED
          BY <1>1, <1>4, <1>5, <2>2, <5>2
      <4> QED
        BY <4>1, <4>2
    <3> QED
      BY <1>1, <1>2, <1>3, <1>5, <2>2, <3>1, <3>2
  <2> DEFINE SYN == ~t.syn_sent
             n == Least(Least(w - Bit(SYN), MaxPayload), BytesBuffered(t.input))
             input == ReaderPop(t.input, n)
             FIN == /\ ~t.fin_sent /\ input.closed /\ BytesBuffered(input) = 0 /\ Bit(SYN) + n < w
             length == Bit(SYN) + n + Bit(FIN)
  <2>4. Bit(SYN) = 0
    BY <2>3 DEF Bit
  <2>5. BytesBuffered(t.input) = b - P
    BY <1>2, <1>5
  <2>6. n = 0
    <3>1. n = Least(Least(w, MaxPayload), b - P)
      <4>1. w - 0 = w
        BY <1>2, <1>3, <2>3
      <4> QED
        BY <2>4, <2>5, <4>1
    <3> HIDE DEF n, w
    <3>2. w = B - y - P
      BY <1>2, <1>3, <2>3
    <3> QED
      BY <1>1, <1>2, <1>3, <1>4, <2>3, <3>1, <3>2 DEF Least
  <2>7. input.closed = s.input.closed /\ BytesBuffered(input) = b - P
    <3>1. (IF 0 < b - P THEN 0 ELSE b - P) = 0
      BY <1>2, <1>3
    <3>2. input = [t.input EXCEPT !.popped = @ + 0]
      BY <2>5, <2>6, <3>1 DEF ReaderPop
    <3>3. input = t.input
      <4>1. (s.input.popped + P) + 0 = s.input.popped + P
        BY <1>1, <1>2
      <4> HIDE DEF input
      <4> QED
        BY <1>0, <1>2, <1>5, <3>2, <4>1 DEF InputRecord
    <3> QED
      BY <1>5, <2>5, <3>3
  <2> HIDE DEF n, w, input
  <2>8. ~FIN
    <3>1. SUFFICES ASSUME FIN PROVE FALSE
      OBVIOUS
    <3>2. s.input.closed /\ b - P = 0 /\ 0 + 0 < w
      BY <2>4, <2>6, <2>7, <3>1
    <3>3. P = b /\ y + P < B
      BY <1>2, <1>3, <2>3, <3>2
    <3> QED
      BY <1>4, <2>1, <3>2, <3>3
  <2>9. length = 0
    <3>1. Bit(FIN) = 0
      BY <2>8 DEF Bit
    <3> HIDE DEF SYN, FIN
    <3> QED
      BY <2>4, <2>6, <3>1
  <2>10. n = PutsBytes(t, w) /\ input = InputAfter(t, w) /\ SYN = PutsSyn(t)
    BY DEF n, input, PutsSyn, PutsBytes, InputAfter
  <2>11. FIN = PutsFin(t, w)
    BY <2>10 DEF PutsFin
  <2>12. length = PutsLength(t, w)
    BY <2>10, <2>11 DEF PutsLength
  <2> HIDE DEF SYN, FIN, length
  <2>15. SendSegment(Out(t, q), w) = Out(t, q)
    BY <2>9, <2>12, SegmentSent
  <2>16. PushTurn(Out(t, q), RightEdge(s)) = SendSegment(Out(t, q), w)
    BY <1>7, <1>9 DEF PushTurn, w
  <2> QED
    BY <2>15, <2>16 DEF t, q, N
<1> HIDE DEF t, q, N
<1> QED
  BY <1>8, <1>9 DEF t, q, N

(* The loop of push() computes its closed form (tcp_sender.cc:61-73). *)
LEMMA PushLoopIs ==
  ASSUME NEW s, GoodSender(s)
  PROVE  PushLoop(s) = Out(SenderPush(s), PushSegments(s))
<1> DEFINE N == SegmentsToSend(s)
           B == Budget(s)
           e == RightEdge(s)
           x == Out(s, <<>>)
           A(k) == Out(SentSoFar(s, k), FirstSegments(s, k))
           S(k) == A(IF k < N THEN k ELSE N)
<1>1. N \in Nat /\ B \in Nat /\ N <= B /\ (N = 0 <=> LengthToSend(s) = 0) /\ Gone(s, N) = PayloadToSend(s)
  BY PlanNumbers, PushNumbers
<1>2. PICK t : TurnsBy("push", t, x, e, B) /\ PushLoop(s) = t[B]
  BY <1>1, PushTurns
<1> HIDE DEF x, e, B
<1>3. t[0] = x /\ \A k \in 0 .. B - 1 : t[k + 1] = Turn("push", t[k], e)
  BY <1>1, <1>2, TurnsAre
<1>4. \A k \in 0 .. B - 1 : t[k + 1] = PushTurn(t[k], e)
  BY <1>3 DEF Turn
<1>5. S(0) = x
  <2>1. (IF 0 < N THEN 0 ELSE N) = 0
    <3> HIDE DEF N
    <3> QED
      BY <1>1
  <2>2. FirstSegments(s, 0) = <<>> /\ SentSoFar(s, 0) = s
    BY DEF FirstSegments, SentSoFar
  <2> QED
    BY <2>1, <2>2 DEF x
<1>6. ASSUME NEW k \in 0 .. B - 1 PROVE PushTurn(S(k), e) = S(k + 1)
  <2>1. k \in Nat
    BY <1>1
  <2>2. CASE k < N
    <3>1. k \in 0 .. N - 1
      <4> HIDE DEF N
      <4> QED
        BY <1>1, <2>1, <2>2
    <3>2. PushTurn(A(k), e) = A(k + 1)
      BY <3>1, PushTurnSends DEF e
    <3>3. (IF k < N THEN k ELSE N) = k /\ (IF k + 1 < N THEN k + 1 ELSE N) = k + 1
      <4> HIDE DEF N
      <4> QED
        BY <1>1, <2>1, <2>2
    <3> HIDE DEF A
    <3> QED
      BY <3>2, <3>3
  <2>3. CASE ~(k < N)
    <3>1. PushTurn(A(N), e) = A(N)
      BY PushTurnEnds DEF e
    <3>2. (IF k < N THEN k ELSE N) = N /\ (IF k + 1 < N THEN k + 1 ELSE N) = N
      <4> HIDE DEF N
      <4> QED
        BY <1>1, <2>1, <2>3
    <3> HIDE DEF A
    <3> QED
      BY <3>1, <3>2
  <2> QED
    BY <2>2, <2>3
<1> HIDE DEF S
<1> DEFINE T == {k \in 0 .. B : t[k] # S(k)}
<1>7. T = {}
  <2> SUFFICES ASSUME T # {} PROVE FALSE
    OBVIOUS
  <2>1. T \subseteq Nat
    BY <1>1
  <2>2. PICK k \in T : \A j \in T : k <= j
    <3> HIDE DEF T
    <3> QED
      BY <2>1, LeastElement
  <2>3. k \in 0 .. B /\ t[k] # S(k) /\ k # 0
    BY <1>3, <1>5, <2>2
  <2>4. k - 1 \in 0 .. B - 1 /\ k - 1 \in 0 .. B /\ ~(k <= k - 1) /\ (k - 1) + 1 = k
    BY <1>1, <2>3
  <2>5. t[k - 1] = S(k - 1)
    BY <2>2, <2>4
  <2>6. t[k] = PushTurn(t[k - 1], e) /\ PushTurn(S(k - 1), e) = S(k)
    BY <1>4, <1>6, <2>4
  <2> QED
    BY <2>3, <2>5, <2>6
<1>8. t[B] = S(B)
  BY <1>1, <1>7
<1>9. S(B) = A(N)
  <2>1. (IF B < N THEN B ELSE N) = N
    <3> HIDE DEF N
    <3> QED
      BY <1>1
  <2> QED
    BY <2>1 DEF S
<1>10. FirstSegments(s, N) = PushSegments(s)
  BY DEF FirstSegments, PushSegments
<1>11. SentSoFar(s, N) = SenderPush(s)
  <2>1. CASE N = 0
    BY <1>1, <2>1 DEF SentSoFar, SenderPush
  <2>2. CASE N # 0
    <3>1. Bit(SendsFin(s) /\ N = N) = Bit(SendsFin(s))
      BY DEF Bit
    <3>2. Used(s, N) = LengthToSend(s)
      BY <1>1, <2>2, <3>1 DEF Used, LengthToSend
    <3>3. ReaderPop(s.input, PayloadToSend(s)) = [s.input EXCEPT !.popped = @ + PayloadToSend(s)]
      <4>1. PayloadToSend(s) \in 0 .. BytesBuffered(s.input) /\ BytesBuffered(s.input) \in Int
        BY PushNumbers, SenderTypes DEF GoodSender, BytesBuffered
      <4>2. (IF PayloadToSend(s) < BytesBuffered(s.input) THEN PayloadToSend(s)
               ELSE BytesBuffered(s.input)) = PayloadToSend(s)
        BY <4>1
      <4> QED
        BY <4>2 DEF ReaderPop
    <3> DEFINE c == IF s.timer.running THEN s.timer ELSE TimerStart(s.timer)
               O == s.outstanding \o PushSegments(s)
               F == s.fin_sent \/ SendsFin(s)
               i == [s.input EXCEPT !.popped = @ + PayloadToSend(s)]
               l == LengthToSend(s)
    <3>4. SentSoFar(s, N)
            = [s EXCEPT !.input = i, !.next_seqno = @ + l, !.bytes_in_flight = @ + l,
                        !.syn_sent = TRUE, !.fin_sent = F, !.outstanding = O, !.timer = c]
      <4>1. (s.fin_sent \/ (SendsFin(s) /\ N = N)) = F
        OBVIOUS
      <4> HIDE DEF N
      <4> QED
        BY <1>1, <1>10, <2>2, <3>2, <4>1 DEF SentSoFar, N
    <3>5. SenderPush(s)
            = [s EXCEPT !.input = i, !.next_seqno = @ + l, !.bytes_in_flight = @ + l,
                        !.syn_sent = TRUE, !.fin_sent = F, !.outstanding = O, !.timer = c]
      BY <1>1, <2>2, <3>3 DEF SenderPush
    <3> QED
      BY <3>4, <3>5
  <2> QED
    BY <2>1, <2>2
<1> HIDE DEF N
<1> QED
  BY <1>2, <1>8, <1>9, <1>10, <1>11

(* In every reachable state the loops of push() and receive(), a segment   *)
(* at a time as the code runs them, transmit and leave behind exactly what *)
(* the closed forms say, for every window, payload size and stream and for *)
(* every acknowledgement of something sent: what is proved of the closed   *)
(* forms is proved of the loops (tcp_sender.cc:13-73, 96-115).             *)
THEOREM SenderLoopsAgree == Spec => []LoopsAgree
<1>1. ASSUME SenderInv PROVE LoopsAgree
  <2>1. GoodSender(snd)
    BY <1>1 DEF SenderInv
  <2>2. PushAgrees
    BY <2>1, PushLoopIs DEF PushAgrees
  <2>3. ASSUME NEW a \in 0 .. snd.next_seqno
        PROVE  AckOneByOne(snd, a) = PopAcked(snd, AckedCount(snd, a))
    <3>1. a \in Int
      BY <2>1, SenderTypes DEF GoodSender
    <3> QED
      BY <2>1, <3>1, AckOneByOneIs
  <2>4. AckAgrees
    BY <2>3 DEF AckAgrees
  <2> QED
    BY <2>2, <2>4 DEF LoopsAgree
<1>2. SenderInv => LoopsAgree
  BY <1>1
<1> QED
  BY <1>2, SenderStaysGood, PTL
=============================================================================
