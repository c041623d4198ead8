--------------------------- MODULE TCPSenderSpec ----------------------------
(***************************************************************************)
(* A TCPSender in the hands of its owner: the application writes, closes   *)
(* or fails, push(), receive() and tick() are called in any order, and the *)
(* messages received may say anything: late, repeated, contradictory or    *)
(* acknowledging what was never sent.                                      *)
(***************************************************************************)
EXTENDS TCPSender

CONSTANTS
    ISN,            \* the initial sequence number of this side
    SendCapacity,   \* send_capacity
    InitialRTO,     \* rt_timeout, in ticks of the model
    MaxBytes,       \* bound: the bytes the application writes
    MaxElapse,      \* bound: the time that passes between two ticks
    MaxBackoff      \* bound: consecutive retransmissions

(* Absolute numbers do not run out. *)
ASSUME SenderAssumption ==
    /\ ISN \in Seqno
    /\ SendCapacity \in Nat
    /\ InitialRTO \in Nat
    /\ MaxBytes \in Nat /\ MaxBytes + 2 + WinMax < AbsMod
    /\ MaxElapse \in Nat
    /\ MaxBackoff \in Nat

VARIABLES
    snd,    \* the TCPSender
    sent    \* what the last call transmitted

vars == <<snd, sent>>

(* Bytes are numbered in the order they are written. *)
FreshBytes(n) == [i \in 1 .. n |-> BytesPushed(snd.input) + i]

Init ==
    /\ snd = NewSender(SendCapacity, ISN, InitialRTO)
    /\ sent = <<>>

(* writer().push: nothing is written after close().  The owner offers no   *)
(* more than fits (tcp_minnow_socket_impl.hh:98-118).                      *)
Write(n) ==
    /\ ~snd.input.closed
    /\ n <= AvailableCapacity(snd.input)
    /\ BytesPushed(snd.input) + n <= MaxBytes
    /\ snd' = [snd EXCEPT !.input = WriterPush(@, FreshBytes(n))]
    /\ sent' = <<>>

Close ==
    /\ snd' = [snd EXCEPT !.input = WriterClose(@)]
    /\ sent' = <<>>

Fail ==
    /\ snd' = [snd EXCEPT !.input = SetError(@)]
    /\ sent' = <<>>

Push ==
    /\ snd' = SenderPush(snd)
    /\ sent' = PushSegments(snd)

Receive(m) ==
    /\ snd' = SenderReceive(snd, m)
    /\ sent' = <<>>

Tick(ms) ==
    /\ snd.timer.retransmissions < MaxBackoff
    /\ snd' = SenderTick(snd, ms)
    /\ sent' = TickSegments(snd, ms)

Next ==
    \/ \E n \in 1 .. MaxBytes : Write(n)
    \/ Close
    \/ Fail
    \/ Push
    \/ \E m \in AnyReceiverMessage : Receive(m)
    \/ \E ms \in 1 .. MaxElapse : Tick(ms)

Spec == Init /\ [][Next]_vars

-----------------------------------------------------------------------------
(* Every field keeps its type, and what the sender was configured with. *)
TypeOK ==
    /\ snd \in SenderRecord
    /\ snd.isn = ISN /\ snd.input.capacity = SendCapacity /\ snd.timer.initial_RTO = InitialRTO
    /\ sent \in Seq(MessageRecord)

-----------------------------------------------------------------------------
(* The unacknowledged segments lie end to end and cover exactly the        *)
(* sequence numbers in flight, each read back from its wrapped seqno       *)
(* (tcp_sender.hh:54-59).  So no byte in flight is missing from the        *)
(* retransmission queue, and bytes_in_flight_ cannot underflow.            *)
OutstandingTilesFlight == TilesFlight(snd)

(* The timer runs exactly while something is unacknowledged: nothing in    *)
(* flight is ever left without a timeout, nothing acknowledged keeps one   *)
(* (tcp_sender.cc:54-57, 79, 108-115).                                     *)
TimerGuardsFlight == TimerRunsWithFlight(snd)

(* A segment waiting for retransmission carries the bytes the stream has   *)
(* at its sequence number, SYN only at 0 and FIN only at the end           *)
(* (tcp_sender.cc:22-54).                                                  *)
SegmentsCarryStream == CarriesStream(snd)

-----------------------------------------------------------------------------
(* New sequence numbers are used only up to the right edge of the window   *)
(* in force (1 if it is closed), FIN included; a retransmission uses none  *)
(* (tcp_sender.cc:61-73).                                                  *)
WindowRespected ==
    [][snd'.next_seqno > snd.next_seqno =>
          snd'.next_seqno <= AbsAck(snd) + (IF snd.window_size = 0 THEN 1 ELSE snd.window_size)]_vars

(* push() never leaves a sender that has something to say with nothing in  *)
(* flight: it would be silent forever, since only a timeout or an answer   *)
(* could wake it (the zero-window probe, tcp_sender.cc:63-66).  In every   *)
(* state, because the owner may call push() in every state.                *)
NeverSilentlyStalls ==
    LET pushed == SenderPush(snd) IN Unsent(pushed) => pushed.timer.running

(* What was acknowledged is never unacknowledged, and data once sent is    *)
(* neither forgotten nor renumbered: the left edge only moves forward.     *)
LeftEdgeOnlyAdvances == [][AbsAck(snd') >= AbsAck(snd)]_vars
=============================================================================
