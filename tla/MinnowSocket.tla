---------------------------- MODULE MinnowSocket ----------------------------
(***************************************************************************)
(* A TCPMinnowSocket, util/tcp_minnow_socket{.hh,_impl.hh}, on one side of *)
(* a connection: the TCP thread, which runs _tcp_loop over an EventLoop or *)
(* an EpollEventLoop, the pair of AF_UNIX sockets between it and the       *)
(* owner's thread, and the calls by which the owner begins and ends.  The  *)
(* other side of the connection is driven as in TCPConnection.             *)
(*                                                                         *)
(* The loop is the one of module EventLoop.  Between the kernel's answer   *)
(* that a write is possible and the write, the other thread can act; the   *)
(* other reasons for a call, bytes to read or a hangup, do not go away, so *)
(* asking and calling are one step.                                        *)
(***************************************************************************)
EXTENDS TCPConnection, TLC

Loop == INSTANCE EventLoop WITH NoFile <- "none"

CONSTANTS
    PipeCapacity    \* bytes that fit into the AF_UNIX socket, either way

(* A scenario of TCPConnection, and which side the socket is on, which     *)
(* loop its TCP thread uses, and whether its owner may destruct it early.  *)
SocketScenario(scenario, local, loop, leaves) ==
    scenario @@ [local |-> local, loop |-> loop, leaves |-> leaves]

ASSUME SocketAssumption ==
    /\ PipeCapacity \in Nat \ {0}
    /\ \A s \in Scenarios : s.local \in Sides /\ s.loop \in {"poll", "epoll"}

VARIABLES
    pipe,       \* the AF_UNIX sockets: what is on its way `to' each end, how
                \* each is `shut', and whether SIGPIPE was raised (`broken')
    thread,     \* the TCP thread
    call        \* the owner's last call on the socket

socketVars == <<vars, pipe, thread, call>>

Local == sc.local
Remote == Other(Local)
Peer == peers[Local]

(* A thread at work in its loop: about to ask the kernel ("waiting") or to *)
(* make the calls `todo' ("serving"), with `rules' still in the loop.      *)
Looping(rules) == [at |-> "waiting", todo |-> <<>>, exits |-> FALSE, rules |-> rules]

NewThread == Looping(1 .. 3) @@
    [outbound_shutdown |-> FALSE, inbound_shutdown |-> FALSE, eof |-> FALSE]

SocketInit ==
    /\ Init
    /\ pipe = [to |-> [end \in {"owner", "thread"} |-> <<>>],
               shut |-> [end \in {"owner", "thread"} |-> {}], broken |-> FALSE]
    /\ thread = NewThread
    /\ call = "connect"

-----------------------------------------------------------------------------
(* The pair of AF_UNIX sockets. *)

OtherEnd(end) == IF end = "owner" THEN "thread" ELSE "owner"

(* Socket::shutdown: what one end no longer reads, the other cannot write. *)
Shutdown(p, end, how) ==
    [p EXCEPT !.shut[end] = @ \cup how,
              !.shut[OtherEnd(end)] = @ \cup {IF h = "RD" THEN "WR" ELSE "RD" : h \in how}]

(* FileDescriptor::read of at most n bytes, more than none. *)
ReadData(p, end, n) == Take(p.to[end], n)
AfterReading(p, end, n) == [p EXCEPT !.to[end] = SubSeq(@, Len(Take(@, n)) + 1, Len(@))]
ReadsEof(p, end) == p.to[end] = <<>> /\ "RD" \in p.shut[end]

(* FileDescriptor::write: into a pipe that is shut it raises SIGPIPE,      *)
(* which the program does not catch.                                       *)
Write(p, end, data) ==
    IF "WR" \in p.shut[end] THEN [p EXCEPT !.broken = TRUE]
    ELSE [p EXCEPT !.to[OtherEnd(end)] = @ \o data]

Room(p, end) == PipeCapacity - Len(p.to[OtherEnd(end)])

(* Files and rules as module EventLoop sees them. *)
File(unread, ended, eof) ==
    [Loop!NewFile EXCEPT !.unread = unread, !.ended = ended, !.eof = eof]

PipeFile(end, eof) ==
    [File(Len(pipe.to[end]), "RD" \in pipe.shut[end], eof) EXCEPT
        !.hung = pipe.shut[end] = {"RD", "WR"},
        !.room = Room(pipe, end) > 0]

Rule(looping, k, file, direction, interested) ==
    [Loop!NoRule EXCEPT !.state = IF k \in looping.rules THEN "live" ELSE "gone",
                        !.file = file, !.direction = direction, !.interested = interested]

(* The loop has asked the kernel, and `wait' is the answer. *)
Asked(looping, wait) ==
    [looping EXCEPT !.at = "serving",
                    !.todo = Loop!Calls(wait.pass),
                    !.exits = wait.result = "Exit",
                    !.rules = {k \in @ : Loop!Live(wait.pass.rules[k])}]

-----------------------------------------------------------------------------
(* The TCP thread. *)

(* The three rules of _initialize_TCP and their interests. *)
ThreadRules ==
    LET inbound == PeerInbound(Peer)
    IN  <<Rule(thread, 1, "tun", "In", Active(Peer)),
          Rule(thread, 2, "data", "In",
               Active(Peer) /\ ~thread.outbound_shutdown /\ AvailableCapacity(Outbound(Peer)) > 0),
          Rule(thread, 3, "data", "Out",
               \/ BytesBuffered(inbound) > 0
               \/ (IsFinished(inbound) \/ inbound.error) /\ ~thread.inbound_shutdown)>>

ThreadFiles ==
    [f \in {"tun", "data"} |-> IF f = "tun" THEN File(Cardinality(net[Local]), FALSE, FALSE)
                               ELSE PipeFile("thread", thread.eof)]

(* What the callbacks work on: the peer, what it transmits, the thread's   *)
(* flags and the pipe.                                                     *)
Work(peer, messages, th, p) == [peer |-> peer, messages |-> messages, thread |-> th, pipe |-> p]

Transmits(w, result) ==
    [w EXCEPT !.peer = result.peer, !.messages = @ \o result.messages]

(* Rule 1: a datagram from the adapter, which a listening one may discard. *)
ReceiveSegment(w, m) ==
    IF Discards(Local, m) THEN w ELSE Transmits(w, PeerReceive(w.peer, m))

(* The cancel callback of rule 2: nothing is pushed. *)
CloseOutbound(w) ==
    [w EXCEPT !.peer.sender.input = WriterClose(@), !.thread.outbound_shutdown = TRUE]

(* A plausible slip: at the end of the file nothing is pushed. *)
PushBytesUnlessEof(w) ==
    LET n == AvailableCapacity(Outbound(w.peer))
        read == [w EXCEPT !.peer.sender.input = WriterPush(@, ReadData(w.pipe, "thread", n)),
                          !.pipe = AfterReading(@, "thread", n),
                          !.thread.eof = @ \/ ReadsEof(w.pipe, "thread")]
    IN  IF read.thread.eof THEN CloseOutbound(read) ELSE Transmits(read, PeerPush(read.peer))

(* Rule 2: read what there is room for. *)
PushBytes(w) ==
    LET n == AvailableCapacity(Outbound(w.peer))
        read == [w EXCEPT !.peer.sender.input = WriterPush(@, ReadData(w.pipe, "thread", n)),
                          !.pipe = AfterReading(@, "thread", n),
                          !.thread.eof = @ \/ ReadsEof(w.pipe, "thread")]
        ready == IF read.thread.eof THEN CloseOutbound(read) ELSE read
    IN  Transmits(ready, PeerPush(ready.peer))

(* A plausible slip: the end of the inbound stream shuts down both ways. *)
PassInboundShutBoth(w, n) ==
    LET inbound == PeerInbound(w.peer)
        passed == IF BytesBuffered(inbound) = 0 THEN w
                  ELSE [w EXCEPT !.pipe = Write(@, "thread", NextBytes(inbound, n)),
                                 !.peer.receiver.reassembler = ReadOutput(@, n)]
        left == PeerInbound(passed.peer)
    IN  IF IsFinished(left) \/ left.error
        THEN [passed EXCEPT !.pipe = Shutdown(@, "thread", {"RD", "WR"}), !.thread.inbound_shutdown = TRUE]
        ELSE passed

(* Rule 3: pass n bytes on, and the end of the stream after the last. *)
PassInbound(w, n) ==
    LET inbound == PeerInbound(w.peer)
        passed == IF BytesBuffered(inbound) = 0 THEN w
                  ELSE [w EXCEPT !.pipe = Write(@, "thread", NextBytes(inbound, n)),
                                 !.peer.receiver.reassembler = ReadOutput(@, n)]
        left == PeerInbound(passed.peer)
    IN  IF IsFinished(left) \/ left.error
        THEN [passed EXCEPT !.pipe = Shutdown(@, "thread", {"WR"}), !.thread.inbound_shutdown = TRUE]
        ELSE passed

(* One call that the thread's loop makes, with segment m and n bytes. *)
ThreadCall(m, n, w, c) ==
    CASE c.kind = "callback" /\ c.rule = 1 -> ReceiveSegment(w, m)
      [] c.kind = "callback" /\ c.rule = 2 -> PushBytes(w)
      [] c.kind = "callback" /\ c.rule = 3 -> PassInbound(w, n)
      [] c.kind = "cancel" /\ c.rule = 2 -> CloseOutbound(w)
      [] OTHER -> w

Serves(looping, k) == \E j \in DOMAIN looping.todo :
                        looping.todo[j].kind = "callback" /\ looping.todo[j].rule = k

(* The answer of the kernel, if `first' is the first descriptor reported.  *)
(* The epoll loop registers every descriptor afresh: that its record of    *)
(* what is registered is true is RegistrationIsCurrent of EventLoopSpec.   *)
Answer(first) ==
    LET unregistered == Loop!Registration([Loop!NoState EXCEPT !.known = TRUE], Loop!NoWatch)
    IN  IF sc.loop = "poll" THEN Loop!PollWait(ThreadRules, ThreadFiles)
        ELSE Loop!EpollWait(ThreadRules, ThreadFiles, [f \in {"tun", "data"} |-> unregistered], first)

(* The descriptors that may be reported first: of those without an error,  *)
(* any that epoll_wait returns.                                            *)
MayBeFirst == IF sc.loop = "poll" THEN {"data"}
              ELSE LET able == Answer("data").able IN IF able = {} THEN {"data"} ELSE able

(* When _tcp_loop ends: there is nothing left to wait for, or _abort is    *)
(* set.  A plausible slip: _abort is not looked at.                        *)
StopsDeaf(th) == th.exits
Stops(th) == th.exits \/ call = "destruct"

(* Answers that lead to a step: calls, or the end of the loop, except that *)
(* Exit ends connect() and listen_and_accept() otherwise.  A timeout does  *)
(* nothing but let _abort be seen.                                         *)
Heard(wait) ==
    \/ Loop!Calls(wait.pass) # <<>>
    \/ call # "connect" /\ Stops(Asked(thread, wait))

Waits ==
    /\ ~pipe.broken /\ thread.at = "waiting"
    /\ Local = "client" => Peer.sender.syn_sent

(* The calls, and the end of _tcp_main if the loop ends.  If no time has   *)
(* passed, tick() changes nothing.                                         *)
ThreadServe(th, m, n) ==
    LET serve(w, c) == ThreadCall(m, n, w, c)
        done == Loop!FoldLeft(serve, Work(Peer, <<>>, th, pipe), th.todo)
    IN  /\ Apply(Local, Result(done.peer, done.messages),
                 [net EXCEPT ![Local] = IF Serves(th, 1) THEN @ \ {m} ELSE @])
        /\ IF Serves(th, 1) THEN UnwrapTcp(Local, m) ELSE UNCHANGED listening
        /\ thread' = [done.thread EXCEPT !.at = IF Stops(th) THEN "ended" ELSE "waiting", !.todo = <<>>]
        /\ pipe' = IF Stops(th) THEN Shutdown(done.pipe, "owner", {"RD", "WR"}) ELSE done.pipe
        /\ UNCHANGED <<sc, lost, repeated, faults, call>>

(* wait_next_event: it finds room in the pipe, ... *)
ThreadWait(wait) ==
    /\ Serves(Asked(thread, wait), 3)
    /\ thread' = Asked(thread, wait)
    /\ UNCHANGED <<vars, pipe, call>>

(* ... and writes, whatever the owner has done to the pipe meanwhile. *)
ThreadWrite ==
    LET inbound == PeerInbound(Peer)
        most == Least(BytesBuffered(inbound), Room(pipe, "thread"))
    IN  /\ ~pipe.broken /\ thread.at = "serving"
        /\ \E n \in Least(1, most) .. most : ThreadServe(thread, Reset, n)

(* wait_next_event makes other calls: their reasons do not go away. *)
ThreadHandle(wait) ==
    LET asked == Asked(thread, wait)
    IN  /\ Heard(wait) /\ ~Serves(asked, 3)
        /\ \E m \in IF Serves(asked, 1) THEN net[Local] ELSE {Reset} : ThreadServe(asked, m, 0)

ThreadReady ==
    \/ Waits /\ \E first \in MayBeFirst : Heard(Answer(first))
    \/ thread.at = "serving" /\ ~pipe.broken

ThreadStep ==
    \/ /\ Waits
       /\ \E first \in MayBeFirst :
            LET wait == Answer(first)
            IN  ThreadWait(wait) \/ ThreadHandle(wait)
    \/ ThreadWrite

-----------------------------------------------------------------------------
(* The owner's calls. *)

(* The condition under which connect() or listen_and_accept() stays in its *)
(* own _tcp_loop.                                                          *)
Handshaking ==
    IF Local = "client" THEN Peer.sender.bytes_in_flight = 1
    ELSE Peer.receiver.isn = NoSeqno \/ Peer.sender.bytes_in_flight > 0

(* connect(): the first push(). *)
SocketConnect == Connect /\ UNCHANGED <<pipe, thread, call>>

(* connect() or listen_and_accept() returns, connected or not, and leaves  *)
(* the loop to the new thread.                                             *)
MayReturn ==
    /\ call = "connect" /\ thread.at = "waiting"
    /\ Local = "client" => Peer.sender.syn_sent
    /\ ~Handshaking \/ \A k \in thread.rules : ~ThreadRules[k].interested

HandshakeReturns ==
    /\ MayReturn
    /\ call' = "none"
    /\ UNCHANGED <<vars, pipe, thread>>

(* wait_until_closed() shuts the socket down and joins the thread. *)
WaitUntilClosed ==
    /\ call' = "wait_until_closed"
    /\ pipe' = Shutdown(pipe, "owner", {"RD", "WR"})
    /\ UNCHANGED <<vars, thread>>

(* The destructor sets _abort and joins the thread: nothing is sent. *)
Destruct ==
    /\ sc.leaves /\ call = "none"
    /\ call' = "destruct"
    /\ UNCHANGED <<vars, pipe, thread>>

(* join() returns. *)
Join ==
    /\ call \in {"wait_until_closed", "destruct"} /\ thread.at = "ended"
    /\ call' = "joined"
    /\ UNCHANGED <<vars, pipe, thread>>

-----------------------------------------------------------------------------
(* The network, the clock and the other side. *)

LocalSame == UNCHANGED <<pipe, thread, call>>

(* A thread that has ended, or was killed, reads no more datagrams. *)
Listens == thread.at # "ended" /\ ~pipe.broken

NobodyReads ==
    /\ ~Listens /\ net[Local] # {}
    /\ net' = [net EXCEPT ![Local] = {}]
    /\ UNCHANGED <<sc, peers, listening, lost, repeated, faults>>
    /\ LocalSame

SocketLose(side, m) ==
    /\ side = Local => Listens /\ thread.at = "waiting"
    /\ Lose(side, m)
    /\ LocalSame

(* A reset that neither peer sent. *)
InjectReset(side) ==
    /\ faults < sc.fault /\ Cardinality(net[side]) < sc.under_way
    /\ net' = [net EXCEPT ![side] = @ \cup {Reset}]
    /\ faults' = faults + 1
    /\ UNCHANGED <<sc, peers, listening, lost, repeated>>
    /\ LocalSame

Ticks(side) == Active(peers[side]) /\ (side = Local => Listens)

(* Time passes as in TCPConnection; if timeouts are not eager, then not    *)
(* while the TCP thread has something to do.  Time before the streams have *)
(* finished matters only to a running timer: they finish with a receipt.   *)
MayElapseHere ==
    /\ thread.at # "serving"
    /\ \/ sc.eager_timeouts
       \/ /\ \A side \in Sides : net[side] = {}
          /\ ~Waits \/ \A first \in MayBeFirst : ~Heard(Answer(first))
    /\ peers["client"].sender.syn_sent
    /\ \E side \in Sides : /\ Ticks(side)
                            /\ \/ peers[side].sender.timer.running
                               \/ ~SenderActive(peers[side]) /\ ~ReceiverActive(peers[side])
    /\ \A side \in Sides : peers[side].sender.timer.retransmissions < MaxBackoff

SocketElapse ==
    LET results == [side \in Sides |-> IF Ticks(side) THEN PeerTick(peers[side], 1)
                                       ELSE Result(peers[side], <<>>)]
    IN  /\ MayElapseHere
        /\ peers' = [side \in Sides |-> results[side].peer]
        /\ net' = [side \in Sides |-> Carry(net[side], results[Other(side)].messages)]
        /\ UNCHANGED <<sc, listening, lost, repeated, faults>>
        /\ LocalSame

(* The application on the other side reads, writes and ends its stream. *)
RemoteReads == \E n \in 1 .. sc.recv_capacity : AppRead(Remote, n) /\ LocalSame
RemoteWrites(eof) == \E n \in 0 .. sc.bytes[Remote] : AppWrite(Remote, n, eof) /\ LocalSame
RemoteReceives == \E m \in net[Remote] : Deliver(Remote, m) /\ LocalSame

NetworkStep ==
    \/ NobodyReads
    \/ \E side \in Sides : \E m \in net[side] : SocketLose(side, m)
    \/ \E side \in Sides : InjectReset(side)
    \/ SocketElapse
    \/ RemoteReads
    \/ \E eof \in BOOLEAN : RemoteWrites(eof)
    \/ RemoteReceives
=============================================================================
