----------------------------- MODULE StreamCopy -----------------------------
(***************************************************************************)
(* The owner of the socket: apps/tcp_ipv4.cc, which connects or listens,   *)
(* copies standard input to the socket and the socket to standard output   *)
(* (apps/bidirectional_stream_copy.cc), and waits until the connection is  *)
(* closed.  The copy runs over an EventLoop with poll(), with four rules:  *)
(*                                                                         *)
(*   stdin -1-> outbound -2-> pipe -> TCP thread -> the other side         *)
(*   stdout <-4- inbound <-3- pipe <- TCP thread <- the other side         *)
(*                                                                         *)
(* All the bytes of standard input are there from the start; its end comes *)
(* after them if the scenario says so.                                     *)
(***************************************************************************)
EXTENDS MinnowSocket

CONSTANT
    CopyCapacity    \* buffer_size

ASSUME CopyAssumption == CopyCapacity \in Nat \ {0}

VARIABLE
    copy            \* the state of bidirectional_stream_copy

allVars == <<socketVars, copy>>

CopyInit ==
    /\ SocketInit
    /\ copy = Looping(1 .. 4) @@
                [outbound |-> NewStream(CopyCapacity), inbound |-> NewStream(CopyCapacity),
                 outbound_shutdown |-> FALSE, inbound_shutdown |-> FALSE,
                 input_eof |-> FALSE, socket_eof |-> FALSE, output |-> "open"]

(* What is left of standard input. *)
Unread == [i \in 1 .. sc.bytes[Local] - BytesPushed(copy.outbound) |-> BytesPushed(copy.outbound) + i]

-----------------------------------------------------------------------------
(* The rules and their interests. *)
Errs == copy.outbound.error \/ copy.inbound.error
Takes(stream) == ~Errs /\ AvailableCapacity(stream) > 0 /\ ~stream.closed
Gives(stream, shut_down) == BytesBuffered(stream) > 0 \/ (IsFinished(stream) /\ ~shut_down)

CopyRules ==
    <<Rule(copy, 1, "stdin", "In", Takes(copy.outbound)),
      Rule(copy, 2, "socket", "Out", Gives(copy.outbound, copy.outbound_shutdown)),
      Rule(copy, 3, "socket", "In", Takes(copy.inbound)),
      Rule(copy, 4, "stdout", "Out", Gives(copy.inbound, copy.inbound_shutdown))>>

CopyFiles ==
    [f \in {"stdin", "socket", "stdout"} |->
        CASE f = "stdin" -> File(Len(Unread), Local \in sc.closing, copy.input_eof)
          [] f = "socket" -> PipeFile("owner", copy.socket_eof)
          [] f = "stdout" -> [File(0, FALSE, FALSE) EXCEPT !.open = copy.output # "closed",
                                                           !.broken = copy.output = "broken"]]

Answered == Asked(copy, Loop!PollWait(CopyRules, CopyFiles))

-----------------------------------------------------------------------------
(* The callbacks, on the copy `c' and the pipe `p'. *)
Job(c, p) == [copy |-> c, pipe |-> p]

CloseOut(j) == [j EXCEPT !.copy.outbound = WriterClose(@)]
CloseIn(j) == [j EXCEPT !.copy.inbound = WriterClose(@)]
FailBoth(j) == [j EXCEPT !.copy.outbound = SetError(@), !.copy.inbound = SetError(@)]

(* Rule 1 *)
ReadStdin(j) ==
    LET read == [j EXCEPT !.copy.outbound = WriterPush(@, Unread),
                          !.copy.input_eof = Unread = <<>>]
    IN  IF read.copy.input_eof THEN CloseOut(read) ELSE read

(* Rule 2, with a write of n bytes. *)
WriteSocket(j, n) ==
    LET out == j.copy.outbound
        wrote == IF BytesBuffered(out) = 0 THEN j
                 ELSE [j EXCEPT !.pipe = Write(@, "owner", NextBytes(out, n)),
                                !.copy.outbound = ReaderPop(@, n)]
    IN  IF IsFinished(wrote.copy.outbound)
        THEN [wrote EXCEPT !.pipe = Shutdown(@, "owner", {"WR"}), !.copy.outbound_shutdown = TRUE]
        ELSE wrote

(* Rule 3 *)
ReadSocket(j) ==
    LET n == AvailableCapacity(j.copy.inbound)
        read == [j EXCEPT !.copy.inbound = WriterPush(@, ReadData(j.pipe, "owner", n)),
                          !.pipe = AfterReading(@, "owner", n),
                          !.copy.socket_eof = @ \/ ReadsEof(j.pipe, "owner")]
    IN  IF read.copy.socket_eof THEN CloseIn(read) ELSE read

(* Rule 4: standard output takes everything. *)
WriteStdout(j) ==
    LET wrote == [j EXCEPT !.copy.inbound = ReaderPop(@, BytesBuffered(@))]
    IN  IF IsFinished(wrote.copy.inbound)
        THEN [wrote EXCEPT !.copy.output = "closed", !.copy.inbound_shutdown = TRUE]
        ELSE wrote

CopyCall(n, j, c) ==
    CASE c.kind = "error" -> FailBoth(j)
      [] c.kind = "cancel" -> IF c.rule \in {1, 2} THEN CloseOut(j) ELSE CloseIn(j)
      [] c.kind = "callback" /\ c.rule = 1 -> ReadStdin(j)
      [] c.kind = "callback" /\ c.rule = 2 -> WriteSocket(j, n)
      [] c.kind = "callback" /\ c.rule = 3 -> ReadSocket(j)
      [] c.kind = "callback" /\ c.rule = 4 -> WriteStdout(j)

Copies == call = "none" /\ ~pipe.broken /\ copy.at # "ended"

CopyServe(cp, n) ==
    LET serve(j, c) == CopyCall(n, j, c)
        done == Loop!FoldLeft(serve, Job(cp, pipe), cp.todo)
    IN  /\ copy' = [done.copy EXCEPT !.at = IF cp.exits THEN "ended" ELSE "waiting", !.todo = <<>>]
        /\ pipe' = done.pipe
        /\ UNCHANGED <<vars, thread, call>>

(* wait_next_event: it finds room in the pipe, ... *)
CopyWait ==
    LET asked == Answered
    IN  /\ Copies /\ copy.at = "waiting"
        /\ Serves(asked, 2)
        /\ copy' = asked
        /\ UNCHANGED socketVars

(* ... and writes, whatever the TCP thread has done meanwhile. *)
CopyWrite ==
    LET most == Least(BytesBuffered(copy.outbound), Room(pipe, "owner"))
    IN  /\ Copies /\ copy.at = "serving"
        /\ \E n \in Least(1, most) .. most : CopyServe(copy, n)

(* wait_next_event makes other calls, or exits. *)
CopyHandle ==
    LET asked == Answered
    IN  /\ Copies /\ copy.at = "waiting"
        /\ asked.todo # <<>> \/ asked.exits
        /\ ~Serves(asked, 2)
        /\ CopyServe(asked, 0)

CopyStep == CopyWait \/ CopyWrite \/ CopyHandle

(* main() goes on to wait_until_closed(). *)
MainWaits ==
    /\ call = "none" /\ copy.at = "ended" /\ ~pipe.broken
    /\ WaitUntilClosed
    /\ UNCHANGED copy

(* An exception leaves main(). *)
MainThrows == ~pipe.broken /\ copy.at = "waiting" /\ Destruct /\ UNCHANGED copy

(* The reader of standard output goes away. *)
StdoutBreaks ==
    /\ faults < sc.fault
    /\ copy.output = "open"
    /\ copy' = [copy EXCEPT !.output = "broken"]
    /\ faults' = faults + 1
    /\ UNCHANGED <<sc, peers, net, listening, lost, repeated, pipe, thread, call>>

(* The owner's thread: its calls on the socket, and the copy. *)
OwnerStep ==
    \/ SocketConnect /\ UNCHANGED copy
    \/ HandshakeReturns /\ UNCHANGED copy
    \/ MainWaits
    \/ Join /\ UNCHANGED copy

CopyNext ==
    \/ OwnerStep
    \/ CopyStep
    \/ MainThrows
    \/ StdoutBreaks
    \/ ThreadStep /\ UNCHANGED copy
    \/ NetworkStep /\ UNCHANGED copy

CopySpec == CopyInit /\ [][CopyNext]_allVars

-----------------------------------------------------------------------------
(* Safety *)

AllOfStdin == [i \in 1 .. sc.bytes[Local] |-> i]

(* Unless the connection was reset or standard output broke, neither       *)
(* thread writes into a pipe that the other has shut, although the pipe    *)
(* can be shut between poll() and the write: SIGPIPE would end the         *)
(* program (tcp_minnow_socket_impl.hh:139-158, 207, 279;                   *)
(* bidirectional_stream_copy.cc:57-66).                                    *)
NoBrokenPipe == faults = 0 => ~pipe.broken

(* Without a fault and unless the socket is destructed early, an end of    *)
(* file is the end of everything: the owner sees it only after all that    *)
(* the other application wrote, and the other application sees it only     *)
(* after all of standard input, whatever shuts first and however full the  *)
(* streams and the pipe are.  The second half is claimed of the poll loop  *)
(* only: the epoll loop cuts off what is in the pipe at a hangup           *)
(* (EpollMirrorsEventLoop of EventLoopSpec).                               *)
NothingIsCutOff ==
    faults = 0 /\ ~sc.leaves =>
        /\ copy.socket_eof => /\ Outbound(peers[Remote]).closed
                              /\ copy.inbound.pushed = Outbound(peers[Remote]).pushed
        /\ sc.loop = "poll" /\ PeerInbound(peers[Remote]).closed
               => PeerInbound(peers[Remote]).pushed = AllOfStdin

-----------------------------------------------------------------------------
(* Liveness.  The operating system runs both threads whenever they have    *)
(* something to do (the loops wait at most TCP_TICK_MS), time passes, the  *)
(* network delivers what it does not lose, and the other application reads *)
(* and ends its stream in the end.  Losses, resets, a broken standard      *)
(* output and an early destruction are never forced.                       *)
CopyReady == Copies /\ (copy.at = "waiting" => Answered.todo # <<>> \/ Answered.exits)

RemoteEnds == MayWrite(Remote) /\ Remote \in sc.closing

Beside == UNCHANGED <<pipe, thread, call, copy>>

CopyFairness ==
    /\ WF_allVars(OwnerStep)
    /\ WF_allVars(Beside /\ NobodyReads)
    /\ WF_allVars(Beside /\ RemoteReads)
    /\ []<>(net[Remote] = {}) \/ []<><<Beside /\ RemoteReceives>>_allVars
    /\ []<>~RemoteEnds \/ []<><<Beside /\ RemoteWrites(TRUE)>>_allVars
    /\ []<>~MayElapseHere \/ []<><<Beside /\ SocketElapse>>_allVars
    /\ []<>~CopyReady \/ []<><<UNCHANGED <<vars, thread, call>> /\ CopyStep>>_allVars
    /\ []<>~ThreadReady \/ []<><<UNCHANGED <<call, copy>> /\ ThreadStep>>_allVars

FairCopySpec == CopySpec /\ CopyFairness

(* wait_until_closed() returns if nothing failed, and the destructor       *)
(* always does: nobody waits for a thread that waits for him               *)
(* (tcp_minnow_socket_impl.hh:29, 189-213).                                *)
OwnerIsReleased ==
    /\ call = "destruct" ~> call = "joined"
    /\ sc.fault = 0 /\ call = "wait_until_closed" ~> call = "joined"

(* If both applications end their streams and nothing fails, everything    *)
(* arrives, on both sides the end is seen, and the program and the other   *)
(* peer come to rest, although segments are lost, the window and the pipe  *)
(* fill up, and a FIN may wait for the next push().  (On epoll, what was   *)
(* not cut off.)                                                           *)
EverythingGetsThrough ==
    sc.fault = 0 /\ ~sc.leaves /\ sc.closing = Sides =>
        <>[](/\ call = "joined" /\ ~Active(peers[Remote])
             /\ IsFinished(PeerInbound(peers[Remote]))
             /\ sc.loop = "poll" => PeerInbound(peers[Remote]).pushed = AllOfStdin
             /\ IsFinished(copy.inbound)
             /\ copy.inbound.pushed = Outbound(peers[Remote]).pushed)
=============================================================================
