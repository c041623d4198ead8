------------------------ MODULE RetransmissionTimer -------------------------
(***************************************************************************)
(* Timer and RetransmissionTimer of src/timer.hh: a countdown with         *)
(* exponential backoff.  The timeout is a size_t; it would need more than  *)
(* fifty doublings, each waited for in full, to overflow.                  *)
(***************************************************************************)
EXTENDS Naturals

(* RetransmissionTimer::RetransmissionTimer *)
NewTimer(initial_RTO) ==
    [initial_RTO |-> initial_RTO, timeout |-> initial_RTO, elapsed |-> 0,
     running |-> FALSE, retransmissions |-> 0]

TimerStart(t) == [t EXCEPT !.running = TRUE, !.elapsed = 0]
TimerStop(t) == [t EXCEPT !.running = FALSE, !.elapsed = 0]

TimerTick(t, ms) == IF t.running THEN [t EXCEPT !.elapsed = @ + ms] ELSE t

TimerIsExpired(t) == t.running /\ t.elapsed >= t.timeout

(* RetransmissionTimer::reset_backoff *)
TimerResetBackoff(t) == [t EXCEPT !.timeout = t.initial_RTO, !.retransmissions = 0]

(* RetransmissionTimer::record_retransmission *)
TimerRecordRetransmission(t) ==
    [t EXCEPT !.retransmissions = @ + 1, !.timeout = @ * 2]
=============================================================================
