# Minnow in TLA+

This directory specifies the protocol core of the repository in TLA+: the byte
stream, the reassembler, both halves of TCP, the peer that joins them, whole
connections over a bad network, the two-threaded socket with a program that uses
it, the Ethernet/ARP interface, the IP router with an internetwork built from it,
the two event loops, and the worker pool of the demo server. TLC model-checks the
modules on small instances; TLAPS proves for all instances every safety property,
action property and refinement that a run checks, but for two about the socket
with its two threads: of the byte stream and the reassembler with their
representations, of `TCPSender` with the loops of its code, of `TCPReceiver`, of
whole connections, of `NetworkInterface`, of routers and the internetwork, of both
event loops and of the worker pool.

`PROJECT.json` lists components, runs, mutants (a plausible slip in one
definition for every property, each of which TLC must catch), the lines of
source every definition stands for, hazards, findings and theorems.

```
cd tla
tlc -workers 2 -config TCPSenderLoops.cfg TCPSenderLoops   # one run
tlapm TCPSenderProofs.tla                                  # one set of proofs
```

## 1. The system

Everything lives in four directories: `src/src` (the protocol classes),
`src/util` (messages, the peer, the socket, event loops, system wrappers),
`src/apps` (command-line programs) and `src/demo` (two small servers). The call structure, from the application
down:

```
 application <--pipe--> socket thread (EventLoop: three rules + a clock)
                          |
                       TCPPeer
                      /       \
               TCPSender     TCPReceiver --> Reassembler --> ByteStream (in)
             ByteStream (out)
                      \       /
            TCPSegment over IPv4 (adapter)
                          |
                  NetworkInterface (ARP) -- Ethernet -- Router -- ...
```

| Component | State it keeps | Operations | What is hard |
| --- | --- | --- | --- |
| `Wrap32` (`wrapping_integers`) | none | `wrap`, `unwrap`, `+` | three candidates around a checkpoint, 64-bit arithmetic that wraps at both ends |
| `ByteStream` | deque of strings, offset into the front one, two counters, closed, error | `push`, `close`, `peek`, `pop`, `set_error` | representation invariant over any mix of pushes and pops |
| `Reassembler` | map of merged substrings, end index, eof seen | `insert` | overlaps on both sides at once, a window that moves with the reader, the last substring arriving first, twice, empty or cut |
| `TCPReceiver` | ISN | `receive`, `send` | SYN and FIN take numbers but no room; promises made with the window |
| `RetransmissionTimer` | initial and current timeout, elapsed, running, count | `start`, `stop`, `tick`, `backoff`, resets | agreement with the retransmission queue |
| `TCPSender` | retransmission queue, counters, window, SYN/FIN flags, timer, stream | `push`, `receive`, `tick`, `make_empty_message` | late, repeated, partial and impossible acknowledgements; zero-window probing; FIN at the window's edge |
| `TCPPeer` | both halves, linger flag, clocks, "need to send" | `push`, `receive`, `tick`, `active` | replying exactly when needed, when to leave |
| Socket, adapters | two threads, a pair of sockets between them, shutdown flags, `_abort`, a clock | three rules, `connect`, `listen_and_accept`, `wait_until_closed`, destructor | order of events, end-of-file and hangups, loss, a pipe that the other thread shuts |
| `tcp_ipv4`, `bidirectional_stream_copy` | two buffers, shutdown flags | four rules, `main` | ends that come in any order, full buffers everywhere, waiting for a thread that waits |
| `NetworkInterface`, `ARPTable`, `ARPMessageQueue` | cache with a timer per entry, queue with a timer per next hop, received datagrams | `send_datagram`, `recv_frame`, `tick`, `initialize` | replies racing timeouts; order of waiting datagrams; a callback through a weak pointer |
| `Router` | interfaces, a table sorted by prefix length | `add_route`, `route` | shift by 32, loops of routes, the checksum after the decrement |
| `EventLoop`, `EpollEventLoop` | rules, and for epoll a record of what is registered | `add_rule`, `cancel`, `wait_next_event` | two copies of the registration; several events at once and one callback |
| `BoundedBlockingQueue`, `WorkerPool` | queue, closed, two condition variables, threads | `push`, `pop`, `close`, `submit`, `shutdown`, `run` | lost wake-ups, closing a queue on which both sides sleep, draining |
| Headers, parser, checksum | none | serialize, parse | sequential encoding |
| System wrappers, utilities, applications | file descriptors | system calls | pure I/O |

**Interaction.** The socket's thread owns the `TCPPeer`: each rule's callback
and each tick of the clock runs to completion there, so a handler is one step.
Between steps anything may happen at the other end and on the wire. The two
halves of a peer meet in one place: the receiver's acknowledgement and window
ride on the sender's segments. Interfaces interact through frames only, a router
with its interfaces through queues of received datagrams. The owner of a socket
and its TCP thread share nothing but a pair of `AF_UNIX` sockets and the flag
`_abort`; each runs an event loop over its end, and either may shut the pair.

**What makes each part correct** is in section 4; the places where it could go
wrong and a test would hardly look are the `hazards` of `PROJECT.json`.

## 2. Modules

Data is abstracted throughout: a byte is a number, an address a small integer or
a name, a datagram an identity with destination, time to live and the value its
checksum was computed for. Control is kept: every guard, early return and state
change of the mapped lines. Widths are parameters where they matter (`SeqMod` for
2^32, `AbsMod` for 2^64, `WinMax` for UINT16_MAX, `AddrBits` for 32).

| Module | Code | Contents |
| --- | --- | --- |
| `UInt64`, `Wrap32` | `wrapping_integers.*` | modular arithmetic as operators |
| `ByteStream` | `byte_stream.*` | abstract bounded FIFO: everything pushed, how much was popped, capacity, flags; used by all modules above it |
| `ByteStreamSpec` | | the FIFO as a state machine |
| `ByteStreamSegments` | `byte_stream.cc`, `byte_stream_helpers.cc` | the deque of strings with its offset and counters, the loops of `pop` and `read` turn by turn (`PopTurn`, `ReadTurn`); implements `ByteStreamSpec` |
| `Reassembler`, `ReassemblerSpec` | `reassembler.*` | byte-wise meaning of `insert`: held bytes as a function of their index |
| `InboundStream` | | the stream that segments are cut from, and the capacity that receives it |
| `ReassemblerPending` | `reassembler.cc` | the map of substrings: clip, merge with the predecessor, absorb successors, flush; implements `ReassemblerSpec` |
| `TCPMessages` | message headers, `tcp_segment.cc` | messages, and what serializing and parsing does to them (one RST flag for both halves, a missing ackno); the largest window, `WinMax` |
| `TCPReceiver`, `TCPReceiverSpec` | `tcp_receiver.*` | the receiver as operators, and under every arrival a correct sender can cause |
| `RetransmissionTimer` | `timer.hh` | the timer as operators on a record |
| `TCPSender` | `tcp_sender.*` | the sender as operators; `push` in closed form (segment *k* carries these numbers), `receive`, `tick` |
| `TCPSenderSpec` | | the sender called in any order with any message |
| `TCPSenderLoops` | `tcp_sender.cc` | the loops of `push` and `receive` turn by turn (`PushTurn`, `AckTurn`), as recursive functions, compared with the closed forms |
| `TCPPeer` | `tcp_peer.hh` | both halves, replies, lingering, `active` |
| `TCPConnection` | `tcp_minnow_socket_impl.hh`, `tcp_over_ip.cc`, `lossy_fd_adapter.hh` | two peers, their applications, the clock, a network that loses, repeats, reorders |
| `ReliableStream` | | what a connection promises for one direction |
| `MinnowSocket` | `tcp_minnow_socket.hh`, `tcp_minnow_socket_impl.hh`, `socket.cc`, `file_descriptor.cc` | one side of `TCPConnection` as the code runs it: the TCP thread with its rules in an event loop of module `EventLoop`, the pipe, the owner's calls |
| `StreamCopy` | `tcp_ipv4.cc`, `bidirectional_stream_copy.cc` | the owner: four rules in a poll loop between standard input, the socket and standard output, then `wait_until_closed` |
| `NetworkInterface`, `NetworkInterfaceSpec` | `network_interface.*`, `arp_table.*`, `arp_message_queue.*` | the interface as operators, and under any datagrams, ARP messages and ticks, with histories beside it |
| `Router`, `Internetwork` | `router.*` | table and forwarding as operators; hosts, routers and segments composed of interfaces |
| `EventLoop` | `eventloop.*`, `epoll_eventloop.*` | `wait_next_event` of both loops as operators on rules and files, with the kernel's view of them. A loop over the rules is given the fate of each rule it comes to (`stays`, `dropped`, `cancelled`, `failed`, `served`); what it does to the rules and which callbacks it makes follow from that |
| `EventLoopSpec` | | a loop of either kind, its owner and the files |
| `WorkerPool` | `demo/bounded_queue.hh`, `demo/worker_pool.hh`, `demo/server.cpp` | producers, workers and the owner over the queue, with its condition variables |
| `MC*` | | constants of the larger instances |
| `TCPLemmas` | | `UnwrapInvertsWrap`, and what each operation of sender, receiver and reassembler does, whoever calls it; shared by the proofs about TCP |
| `ByteStreamProofs`, `TCPSenderProofs`, `TCPReceiverProofs`, `TCPConnectionProofs`, `NetworkInterfaceProofs`, `RouterProofs`, `ServerProofs` | | theorems and the lemmas they rest on. `TCPReceiverProofs` is also about `ReassemblerPending`, `TCPSenderProofs` about `TCPSenderLoops`, `RouterProofs` about `Internetwork`, `ServerProofs` about `EventLoopSpec` and `WorkerPool` |

Components are operators on records (`SenderPush(s)`, `PeerReceive(p, m)`,
`RecvFrame(i, frame)`) so that one text serves the stand-alone specification,
the composition and the proofs. `TCPConnection` and `Internetwork` contain no
protocol logic of their own: `Deliver` is "the adapter's filter, then
`PeerReceive`", `Route` is `RouteAll` on the ports of one router. `StreamCopy` is
the whole stack: the copy and the TCP thread each take their steps from
`PollWait` or `EpollWait`, and what the TCP thread's callbacks do is `PeerReceive`
and `PeerPush`.

Correspondence of actions to code, where it is not by name:

* `TCPConnection`: `Deliver`/`DeliverCopy` are rule 1 (one segment from the
  adapter, with the listening filter of `tcp_over_ip.cc`), `AppWrite` is rule 2
  (bytes, end-of-file or both, then `push`), `AppRead` is rule 3 (no segment is
  sent when the window opens), `Elapse` is `_tcp_loop`'s `tick`, `Connect` the
  first `push` of `connect`, `AppFail` the error callback of rule 2. `Lose` is
  the lossy adapter and everything below it. The adapter drops a segment after
  `unwrap_tcp_in_ip` has read it, so a SYN it drops has ended the listening
  already (`UnwrapTcp`); one lost in the network has not.
* `NetworkInterfaceSpec`: `Initializes` is `initialize`, which wires the timeout
  callback. `shared` says whether a `shared_ptr` owns the interface: only then
  can the callback's weak reference be locked.
* `Internetwork`: `GiveRoute` is `add_route`; a router gets its routes in any order,
  and the hosts begin to send when all have theirs, as in `endtoend.cc`.
* `MinnowSocket`: `Asked` is the answer of `wait_next_event`'s system call, the
  calls it leads to are `todo`. Asking and calling are one step (`ThreadHandle`,
  `CopyHandle`), except before a write: there the other thread may act in between
  (`ThreadWait`, `ThreadWrite`; `CopyWait`, `CopyWrite`), because room in a pipe
  and its being open can go away, whereas bytes to read and a hangup cannot.
  `connect` and `listen_and_accept` run the same loop in the owner's thread until
  `HandshakeReturns`. A write into a shut pipe sets `pipe.broken`: SIGPIPE ends
  the program, which does not catch it. `_tcp_main`'s shutdown at its end is part
  of the step that ends the loop.
* `StreamCopy`: all of standard input is there from the start. `MainThrows` is an
  exception that leaves `main` and destructs the socket.
* `WorkerPool`: the mutex is held from the begin of `push` or `pop`, or from a
  wake-up, to the return or the next wait, which is one step; `close` notifies
  after it has let go of the mutex, in steps of its own. Waits may end for no
  reason (`WakeUp`).
* `EventLoopSpec`: `WaitPoll` and `WaitEpoll` are whole calls of `wait_next_event`;
  `first` is the descriptor that `epoll_wait` happens to return first, or none when a
  signal interrupts it: the code returns `Success` then, which the model tells
  apart as `Interrupted` because nothing was served. `calls` has
  one entry for each loop over the rules, and in it the callbacks of each rule.
  There are no more files than one `epoll_wait` reports (`kMaxEvents`).

## 3. Findings

Two runs are expected to end in a violation. Each checks a sentence of the
source against what the code does.

* `claim_requery`: `arp_message_queue.hh:36-37` says that an expired queue
  notifies the callback "so it can resend the ARP request". `endtoend.cc` keeps
  its interface by value, so `weak_from_this()` is empty and the callback does
  nothing, although `initialize()` was called.
* `claim_hup`: `epoll_eventloop.cc:341` says that it mirrors `EventLoop`'s
  treatment of hangups. It does not ask whether input was requested, as
  `eventloop.cc:197` does, so a rule for input that is not interested at the
  moment is cancelled with bytes unread. The run `event_loop` shows the same
  property to hold of the poll loop (`NothingUnreadIsAbandoned`). On Linux the
  TCP thread uses this loop, so that bytes written shortly before
  `wait_until_closed` can be cut off: `NothingIsCutOff` of run `socket` claims the
  upload for the poll loop only.

Smaller disagreements met while modelling, not the subject of a run:

* `tcp_config.hh:16` declares a maximum of retransmission attempts "before giving
  up"; nothing reads it, and a sender retransmits for ever.
* `tcp_receiver_message.hh:15-16` counts the window from the ackno of the same
  message. `tcp_sender.cc:86` takes the window of any message, also an overtaken
  one, and counts it from the newest acknowledgement.
* `network_interface.cc:45-46` says that without a first request "an earlier
  query is still in flight"; after a timeout the query is repeated while the
  queue is gone, so the next datagram asks once more.
* `epoll_eventloop.cc:260-261` speaks of handling hangups for all ready
  descriptors first; only errors are. `ErrorsAreHandledEagerly` therefore
  speaks of errors.
* `epoll_eventloop.hh:63-64` describes a record of what is installed in the
  kernel. If a descriptor is closed and its number reused before the next wait,
  the record belongs to the old file: with the same mask the new file is never
  registered, with another `epoll_ctl(MOD)` throws (`:136-146`). Nothing in the
  loop rules it out. The owners in this repository close and accept in callbacks,
  and a wait serves one descriptor, so that a wait comes in between; `OpenFile` of
  `EventLoopSpec` takes over that discipline and uses a number again only after a
  wait. `RegistrationIsCurrent` and `NoLostWakeup` rest on it.
* `tcp_minnow_socket.hh:41` and `:125-126` say that a destructed socket sends a
  RST. The thread sees `_abort` and leaves its loop; nothing is sent.
* `tcp_minnow_socket_impl.hh:141-143` speaks of handling a partial write. After a
  reset rule 3 shuts the pipe down with bytes left (`:150-151`), stays interested
  because of them (`:160`) and writes again, into the pipe that it has shut. It
  takes a reset while the owner is two bytes behind; `NoBrokenPipe` is stated
  for behaviours without a fault.
* `epoll_server.cpp:106-107` leaves the cleanup to the read rule. Its cancel
  callback erases the connection at end-of-file while the write rule, which looks
  at it, is still in the loop.
* `eventloop.cc:126-127` lets an owner delete captured objects as soon as a rule
  is cancelled. A rule cancelled by another rule's cancel or error callback is
  still looked at in that pass.

## 4. Runs

All bounds are constants of the `.cfg` files or `MC` modules, named there.

**`byte_stream`** (`ByteStreamSegments`; capacity 3, 5 bytes of 2 values, pushes
of at most 2). `PeekMakesProgress`: while bytes are buffered, `peek` shows
a non-empty view. `ImplementsByteStream`: refinement of the FIFO. A pop can end
inside, at and beyond a string; more strings repeat these cases.

**`reassembler`** (`MCReassemblerPending`; 9 bytes, capacity 6, substrings of up
to 5). `OutputIsFaithful`: what comes out is a prefix of the stream and it closes
exactly when complete. `EntriesAreSeparated`: the invariant of
`reassembler.hh:40`, within the window, so that memory is bounded.
`ImplementsReassembler`: refinement of the byte-wise specification. Six indices
allow three separated entries, so one substring can touch a predecessor and
absorb two successors; the stream is longer than the window, so that it is cut
and moves.

**`receiver`** (`MCTCPReceiverSpec`; 18 bytes, 16 sequence numbers, ISN 13,
capacity 4, window field up to 3). Segments cut in any way arrive in any order,
repeated or before the SYN, none older than half the sequence space; also
keep-alives and a reset. The stream passes the wrap of the residues and a round
of the absolute numbers. `AcknoIsExact` (what is received is a prefix, and the
ackno, unwrapped as a sender would, names it), `InOrderIsAcknowledged` (a segment
that begins where the receiver stands and fits into the window is acknowledged
to its end) and `EdgeNeverShrinks` (a window once offered is not taken back).

**`sender`** (`TCPSenderLoops`; 9 sequence numbers, windows up to 4, 4 bytes,
payloads up to 2, up to 2 consecutive retransmissions). Every
`TCPReceiverMessage` there is may arrive at any time. `OutstandingTilesFlight`:
the queued segments cover exactly the numbers in flight, without gap or overlap,
and their wrapped numbers read back as such. `TimerGuardsFlight`: the timer runs
iff something is in flight. `SegmentsCarryStream`: queued payloads are the bytes of the
stream. `NeverSilentlyStalls` (after `push`, a sender with something to say has a
segment in flight), `WindowRespected`, `LeftEdgeOnlyAdvances`;
`LoopsAgree` compares the closed forms with the loops of the code in every
reachable state.

**`connection`** (`MCTCPConnection`). Eight scenarios start from one `Init`:
`Transfers` (2 bytes one way, repetition, reordering, with a window of one and
timeouts at any moment, or with a window of two and loss),
`Closes` (both ends close, in any order, with timeouts at any moment, or with
data, a window of one byte, loss and repetition), `Duplex` (data both ways,
loss), `Failures` (an application fails or a foreign reset arrives at any
moment, also after a loss, such as that of the SYN in the listening adapter). Two segments may be under way to each side; more are lost.
`BothDirectionsAreReliable`: each direction implements
`ReliableStream`. `EndsAgree`: what one end believes acknowledged the other has.
`NobodyLeavesEarly`: an end leaves when all is delivered both ways, and until then
it has a timer running for what it has to say. `NoSpuriousReset`.
`BrokenPeerIsSilent`: a peer with an error puts nothing on the wire any more, no
retransmission and no answer, and neither sends nor receives bytes. That a sender
takes the window of an overtaken message and so may send beyond what the receiver
offers is reached in this run; what is claimed of it is that the receiver cuts the
surplus and that the stream is none the worse (`EndsAgree`,
`BothDirectionsAreReliable`, `NobodyLeavesEarly`). `WindowRespected` of run `sender`
speaks of the window in force.

**`socket`** (`MCStreamCopy`). Six scenarios from one `Init`: an upload of three
bytes on the poll loop, through buffers of one and a pipe of two, so that the
window, the outbound stream, the pipe and the copy's buffer are full at once and
the pipe still holds a byte when it is shut; an upload of two bytes on the epoll
loop, enough for a hangup to find rule 2 not interested and to cancel it; a download
to a server on the poll loop and one to a client on the epoll loop, in which the
other application writes a byte that passes the TCP thread's rule 3, the pipe and
the copy, with a segment lost on the way; and a reset, a broken standard output or an early destruction at any
moment. `NoBrokenPipe`: without a fault, neither thread writes into a pipe that was
shut (after a reset rule 3 may, see section 3).
`NothingIsCutOff`: an end-of-file comes after everything. `OwnerIsReleased`:
`wait_until_closed` and the destructor return. `EverythingGetsThrough`: if both
applications end and nothing fails, all bytes and both ends arrive and everybody
comes to rest. `LingerTime` is ten timeouts, as in the code, and `MaxBackoff` is
above what one loss and the probes of a closed window can cause, so that it never
cuts a behaviour short: one that it did would stay short of rest and refute
`EverythingGetsThrough`.

**`interface`** (`NetworkInterfaceSpec`; 3 datagrams, 2 next hops, 2 Ethernet
addresses, timeouts of 2 and 3 ticks). `EveryDatagramAccountedFor`: each is in a
frame, in a queue or dropped, exactly once. `SentInOrder`, `CacheIsFreshNews`, and
`WaitingImpliesAsked`: what waits was asked for and is not known. The timeouts keep the
order of the code's 5 s and 30 s; three datagrams allow one to wait, one to
follow and one to find the address known.

**`internetwork`** (`MCInternetwork`; two hosts, two routers joined by two
segments; routes that lead everywhere, that loop, or that lead astray; 2
datagrams, 1 lost frame, time to live 3: enough to pass both routers, and to go
round the loop once more than the way is long). `ArrivesOnceWhereAddressed`, with
no more hops than the time to live; `LongestPrefixMatch` against a definition by
counting addresses, after every `add_route`, in every order. The mask is the code's:
a shift reduces its distance modulo the width of an address, so the route of length
zero needs the case of its own that `router.cc:28` has (`ZeroBits`), and the tables
of the run contain such a route. Among routes of equal length that cover the same
addresses nothing is claimed; `NetworkComesToRest`;
`AllArriveIfNothingIsLost`.

**`event_loop`** (`EventLoopSpec`; both backends, 2 rules, 2 files). The owner
adds and cancels rules and changes interests, files become ready, end, hang up,
break, are closed, and their numbers are used again.
`NothingUnreadIsAbandoned`, `RegistrationIsCurrent`, `NoLostWakeup`,
`ErrorsAreHandledEagerly`. Two rules on one file or on two are the cases that the code tells apart. The files are
interchangeable, hence the symmetry.

**`worker_pool`** (`WorkerPool`; 2 workers, 2 producers, 4 items, a queue of two).
`EveryItemHasItsPlace`: what was accepted is in the queue, in one worker's hands
or finished, in order, and nothing is left after `shutdown`.
`NobodyIsLeftAsleep`: nobody sleeps beside work or room that nobody awake is about
to take, and nobody sleeps through `close`. `AllWorkIsDone`: accepted items are
handled, every `submit` returns, `shutdown` returns. Two threads on each side are
the least for a wake-up to go to the wrong one, and four items fill the queue with
both producers waiting.

### Deadlock

`CHECK_DEADLOCK FALSE` is used where the system may really stop: a receiver after
a reset has nothing more to do, a connection whose peers have left is over, and a
network with nothing under way is at rest.

### Fairness

Three runs check liveness, under weak fairness. Where TLC can evaluate `ENABLED`
the formula is `WF_vars(A)`; where the action is a whole step of an event loop it
cannot in reasonable time, and the condition is written out: infinitely often the
thread has nothing to do, or infinitely often it takes a step. Each such
condition (`ThreadReady`, `CopyReady`, `MayElapseHere`, ...) implies that the
action can be taken, which was checked on the same scenarios.

* `StreamCopy`: the operating system runs both threads whenever their event loop
  has something to do (`_tcp_loop` waits at most `TCP_TICK_MS`), and the owner
  makes its next call. Time passes, but a timeout comes only when nothing is under
  way and the TCP thread is idle (`rt_timeout` longer than a round trip; the
  safety run `connection` drops this). The network delivers what it does not
  lose, and loses finitely many segments; the other application reads, and ends
  its stream if the scenario says so. Losses, resets, a broken standard output and
  an early destruction are never forced.
* `Internetwork`: a port takes in frames, a router and a host run when they have
  received something (the loops of `endtoend.cc`), and time passes. Loss is
  never forced.
* `WorkerPool`: threads run when they can, and handlers return. A woken thread
  gets the mutex in the end. Nobody has to submit or to shut down, and no
  spurious wake-up is counted on.

## 5. Proofs

Theorems hold for every value of the constants under these assumptions, which TLC
evaluates in the runs:

* `WidthAssumption` (`Wrap32`): `SeqMod` is positive, `AbsMod` is a multiple of
  it and at least twice as large.
* `CapacityAssumption` (`ByteStreamSegments`), `StreamAssumption`
  (`InboundStream`): capacities and lengths are natural numbers.
* `ReassemblerAssumption` (`ReassemblerPending`): indices do not run out.
* `WindowAssumption` (`TCPSender`): the window field is less than half the
  sequence space, as 2^16 is of 2^32, and payloads may hold a byte.
* `SenderAssumption` (`TCPSenderSpec`): absolute numbers do not run out.
* `ReceiverAssumption` (`TCPReceiverSpec`): the capacity is less than half the
  sequence space, and absolute numbers do not run out.
* `TimeoutAssumption`, `InterfaceAssumption` (`NetworkInterface`,
  `NetworkInterfaceSpec`): timeouts and ticks are positive, a query times out
  sooner than a cache entry, and the own, broadcast and absent Ethernet addresses
  are nobody else's.
* `InternetworkAssumption` (`Internetwork`): addresses, prefixes and their lengths are natural
  numbers; prefixes may be longer than an address, `add_route` refuses them.
* `TopologyAssumption` (`Internetwork`): addresses and ports are finitely many,
  every port has an address and is named neither as the broadcast nor as the absent
  Ethernet address, the ports of a router are distinct, gateways and next hops are
  not addresses of hosts, routes name interfaces that exist, and a datagram begins
  with a positive time to live.
* `EventLoopAssumption`: no more files than one `epoll_wait` reports.
* `ConnectionAssumption` (`TCPConnection`): capacities and the largest window are
  natural numbers, payloads may hold a byte, initial sequence numbers are sequence
  numbers, and the bytes of a scenario fit in half the sequence space. The network
  of the model may keep a segment for ever; TCP counts on a maximum lifetime of
  segments, and without one a number could come back a whole round later.
* `PoolAssumption` (`WorkerPool`): there is a worker, threads are finitely many,
  workers are not producers, the queue may hold an item.

**Loops.** What a loop of the code computes is written as a recursive function of
the turn, never as a `RECURSIVE` operator, which the prover cannot use. Of such a
function the proofs use that it exists and that every turn follows from the one
before; what it computes is shown by looking at the first turn after which
something else would be the case (`LeastElement`: a non-empty set of natural
numbers has a least element). So no induction over data is needed.

`ByteStreamProofs` proves **`PeekIsNeverEmpty`** (`PeekMakesProgress`) and the
refinement **`DequeImplementsByteStream`** (`ImplementsByteStream`), for any bytes,
capacity and sequence of calls. The invariant is `DequeInv`: no string in the deque
is empty and the offset is within the first (`GoodDeque`), the two counters differ
by what the deque holds behind the offset, and that fits into the capacity.
`PopTurnIs` says that a turn of `pop` does not change what will be left once the
bytes still to go are dropped, and drops a string or some of them, so that the loop
ends (`PopIs`); `ReadTurnIs` that a turn of `read` does not change what was
collected together with the bytes still to come (`ReadIs`). The refinement maps
"everything pushed" to what the reader was handed followed by what is buffered.

`TCPLemmas` begins with facts about natural numbers (quotients, remainders,
where a run of members of a finite set ends) that the solver does not find by
itself. It proves **`UnwrapInvertsWrap`**: a number
within half the sequence space of the checkpoint is recovered exactly. The
argument: number and candidate agree modulo `SeqMod`, so they differ by whole
rounds; being near the checkpoint leaves the rounds -1, 0 and +1; in each case
the comparison of distances picks the right one, also where the round below zero
does not exist.

`TCPSenderProofs` proves about `TCPSenderSpec`:

* **`SenderIsConsistent`**: types, `OutstandingTilesFlight`, and with it the
  timer and the accounting of sequence numbers;
* **`SenderRespectsWindow`**: `WindowRespected`;
* **`SenderLeftEdgeAdvances`**: `LeftEdgeOnlyAdvances`;
* **`SenderNeverStalls`**: `NeverSilentlyStalls`;
* **`SenderTypesHold`**, **`SenderTimerGuards`**: `TypeOK`, `TimerGuardsFlight`;
* **`SenderSegmentsCarryStream`**: `SegmentsCarryStream`.

All rest on one inductive invariant, `GoodSender(snd)`:

* `snd \in SenderRecord`, the types;
* `TilesFlight`: the queue tiles `AbsAck .. next_seqno - 1`. It is what makes an
  acknowledgement's effect computable: popping a prefix of the queue subtracts
  exactly what it covers;
* `TimerRunsWithFlight`: needed for `NeverSilentlyStalls`, and kept by `receive`
  only because the queue is known to be empty exactly when nothing is in flight;
* `Accounted`: `next_seqno` is SYN + popped + FIN. It bounds `next_seqno` by the
  bytes of the stream plus two, so absolute numbers stay below `AbsMod`;
* `bytes_in_flight <= WinMax`: everything in flight is within half the sequence
  space, which is what lets `UnwrapInvertsWrap` read a queued segment's number
  back. Without it tiling is not inductive;
* `zero_window <=> window_size = 0`: the probe of a closed window is one number,
  which keeps the bound above.

`SegmentsCarryStream` is inductive together with it: an acknowledgement or a tick
only drops segments from the front of the queue (`Drops`), and `push` appends
segments cut one after the other from the unread part of the stream, so that
`Accounted` says where each begins, and the FIN is on the last segment exactly when
it was sent.

**`SenderLoopsAgree`** (`LoopsAgree`) says that the loops of `push()` and
`receive()`, turn by turn as the code runs them, transmit and leave behind what the
closed forms say that all the other theorems use. `SentSoFar` and `PoppedSoFar` are
the sender after *k* turns in closed form; a turn of `push()` sends the next segment
of the closed form and updates every field as it says (`PushTurnSends`) or ends the
loop exactly where it does (`PushTurnEnds`), and a turn of `receive()` pops the
front segment if the acknowledgement covers it (`AckTurnPops`). The invariant
`GoodSender` is needed: the queued numbers must read back as what they are.

There is one lemma per action (`push` split into its sizes, its segments and
their offsets; `receive` into ignored, partial and full acknowledgements; `tick`),
then the step for `Next`, then the temporal theorems by PTL.

`TCPReceiverProofs` proves about `TCPReceiverSpec`, for any stream, capacity and
widths: **`AcknoStaysExact`** (`AcknoIsExact`), **`InOrderStaysAcknowledged`**
(`InOrderIsAcknowledged`) and the action property **`EdgeStaysPut`**
(`EdgeNeverShrinks`). The invariant is `ReceiverInv`: the reassembler is good, and
before the SYN nothing was taken in. `GoodReassembler` says

* `GoodOutput`: what was pushed is a prefix of the source, within the capacity, and
  closed without an error only when it is all of it;
* `GoodHeld`: bytes held apart are the source's at their index, beyond what was
  pushed, within the window, and the next byte expected is not among them:
  otherwise bytes that are there would not have been passed on;
* the end, once seen, is the source's end, also if the tail was cut off.

`insert` then is: accepted bytes are the source's (the unwrapped number is the
real one by `UnwrapInvertsWrap`, since arrivals are within half the sequence
space), merging keeps that, and flushing appends a run of the source. That an
in-order segment is taken whole needs in addition that the run reaches its end.
`Grown` (pushed, popped and closed never go back) gives the edge.

It also proves, about the reassembler as the code stores it (`ReassemblerPending`):
**`MapIsSeparated`** (`EntriesAreSeparated`), **`MapIsFaithful`**
(`OutputIsFaithful`) and the refinement **`MapImplementsReassembler`**
(`ImplementsReassembler`). The invariant is `PendingInv`: every entry of the map is
a non-empty stretch of the stream, entries neither overlap nor touch, and all lie
beyond what was pushed and within the window. Each step of `insert()` has a lemma
(`ClipIs`, `MergeIs`, `AbsorbIs`, `StoreIs`, `FlushIs`) that says which bytes, by
their index, the map holds afterwards; the loop that absorbs successors is shown
turn by turn to take in exactly the entries that the new one reaches. For the
refinement, what the byte-wise reassembler holds is what waits in the map by index,
and the one entry that is pushed is its run of bytes without a gap: entries that do
not touch are what makes that so.

`NetworkInterfaceProofs` proves about `NetworkInterfaceSpec`:
**`NoDatagramIsLost`** (`EveryDatagramAccountedFor`), **`OrderIsKept`**
(`SentInOrder`), **`CacheStaysFresh`** (`CacheIsFreshNews`) and
**`WaitingStaysAsked`** (`WaitingImpliesAsked`). The invariant is `InterfaceInv`:

* `CacheInStep`: an entry is the latest news and as old as it; a free slot is
  really free;
* `QueuesInStep`: where somebody waits nothing is in the cache, and the queue's
  clock is not behind the age of the query: it is reset when a query is repeated,
  and both would expire together;
* `Accounts`: what was sent, waits or was dropped are the datagrams handed over,
  none twice, none missing, and for each next hop those sent come before those
  that wait (`Ordered`). `SentInOrder` alone is not inductive: releasing a queue
  needs that order.

`RouterProofs` proves **`LongestPrefixIsFound`**, `LongestPrefixMatch` of
`Internetwork`, for any routes and any width of addresses. The invariant is
`GoodTable` of each router's table: it has the routes given so far that are not
too long, the longest first. Three facts make the argument: in a sorted table the
routes at least as long as the new one are an initial segment, so `upper_bound` is
their number (`LongerComeFirst`); the least match of a sorted table is a longest
(`FirstMatchIsLongest`); and masking compares the blocks that addresses are in
(`MatchesIsCovers`, with `SameBlock` about quotients).

It also proves **`DatagramsArriveOnce`** (`ArrivesOnceWhereAddressed`), for any
topology, routes, losses and timeouts. The invariant `NetInv` says that there is a
function `loc` from the datagrams that still exist to places (a frame on a segment,
a queue for a next hop, the datagrams received at a port) with which the state
agrees (`Tracks`): each is in its place once and nowhere else; its time to live and
the times it was put on a wire add up to the one it began with, one less in the
places behind a router; and what waits for a host's address is addressed to that
host. That last part is not in the property but makes it inductive: a frame to a
host can only come from such a queue or an entry of the cache. There is a lemma per
step (sending, receiving a datagram or an ARP message, a timeout, a loss, routing),
each of which says how `loc` moves one datagram, or a whole queue; `route()`, which
takes in everything that has arrived, is a recursive function as above.

`ServerProofs` proves about `EventLoopSpec`, for both loops and any number of
rules: **`HangupCutsNothingOff`** (`NothingUnreadIsAbandoned`),
**`RegistrationStaysCurrent`** (`RegistrationIsCurrent`), **`NoWakeupIsLost`**
(`NoLostWakeup`) and **`ErrorsLeaveNoRule`** (`ErrorsAreHandledEagerly`). These
speak of the moment after a wait; what holds in between is `LoopInv`:

* `InStep`: record and kernel agree except on files that were closed, and of those
  the kernel has nothing. A closed file that is still on record is why the second
  loop of a wait is needed before anything can be said;
* `RulesKnown`: every file with a rule is on record. Otherwise the second loop
  would never register it, and its rules would sleep for ever;
* `GoodFile`, with the types: `eof()` is set only where everything was read. It is
  why dropping a rule at end-of-file cuts nothing off.

What one loop over the rules does is one lemma (`ThroughRules`, and `ThroughCalls`
for the callbacks); `PollOutcome` and `EpollOutcome` put the loops of a wait
together.

About `WorkerPool` it proves **`PoolLosesNothing`**: types and
`EveryItemHasItsPlace`, for any number of threads and items and any capacity. The
inductive invariant is `PoolInv`:

* `EveryItemHasItsPlace` with the types, the claim;
* `InRole`: producers are never in `pop()` nor workers in `push()`, so that a
  notification moves a sleeper of one kind only;
* `OnOffer`: what producers have in hand is new and different from each other's;
  without it an accepted item might be in the queue already;
* `OwnerInStep`: the queue is closed exactly when `shutdown()` has begun, and it
  returns after the workers. A worker that has returned has seen the queue closed
  and empty, and closed it stays empty: so nothing is left after the join.

Steps that only move threads share the lemma `OnlyMoves`; the five in which an
item changes hands have one each, over a few facts on concatenated sequences.

It also proves **`NobodyStaysAsleep`** (`NobodyIsLeftAsleep`) from the same
invariant. The property counts threads inside `push()` or `pop()`; `Rested` states
it of any position of the threads, and lemmas say how the counts change when one
thread moves, or one of several sleepers is woken, whichever it is. `OwnerInStep`
is needed for the claims about a closed queue.

`TCPConnectionProofs` proves about `TCPConnection`, for any capacities, payload
size, timeouts, scenarios and network: **`ConnectionsDoNotBreak`**
(`NoSpuriousReset`) and the action property **`BrokenPeersStaySilent`**
(`BrokenPeerIsSilent`). The invariant is `ConnectionInv`:

* `GoodState(peers, net, Errors)`: peers and segments are well-formed, and every
  error flag and every RST, of the streams, of the segments in flight in both
  senses (queued for retransmission, and under way) and of the answers they carry,
  is in `Errors`, which is `{FALSE}` until the first failure and `BOOLEAN` from then
  on. `NoSpuriousReset` alone is not inductive: a queued segment that carried RST
  would break the other end when it is retransmitted;
* before the client's SYN nothing has happened (`Untouched`). An application that
  is not connected can neither write nor fail, nothing can arrive, and a foreign
  reset is discarded by the server and answered by the client with its SYN. Without
  it `Connect`, which does not ask `active()`, would let a broken client speak.

The set of flags is a parameter `E` of all lemmas on the way (`WriterPushGood`,
`InsertGood`, `ReceiverReceiveGood`, `SenderPushGood`, `SenderReceiveGood`,
`PeerReceiveGood`, `WireGood`, ...): an operation given flags in `E` yields flags in
`E`. With `E = {FALSE}` that is the first theorem; the steps' frame conditions, with
`active()` false for a broken peer, are the second: what a broken peer does carries
nothing (`CarryNothing`), so the other side's wire only loses segments. These lemmas ask less of a
sender and a receiver than the invariants of `TCPSenderProofs` and
`TCPReceiverProofs`: two peers need not agree for the argument.

`TCPConnectionProofs` then proves what relates both ends: **`TheEndsAgree`**
(`EndsAgree`), **`PeersLeaveLast`** (`NobodyLeavesEarly`) and the refinement
**`ConnectionImplementsStreams`** (`BothDirectionsAreReliable`), for any network,
scenario, capacities, windows and initial sequence numbers. The invariant is
`DirectionInv`, which says of each side *x* that `Direction` holds of its sender,
the receiver at the other end and the segments under way both ways:

* the sender is `Sound`: `GoodSender` and `SegmentsCarryStream`, all it may ever
  send fits in half the sequence space, and while something it has sent or has yet
  to say is not acknowledged its timer runs;
* the receiver `Follows` it: what it has is a prefix of what the sender has sent, it
  knows the sender's ISN or none, and it has seen the end only if the FIN was sent;
* every segment under way is a piece of what its sender has sent up to now, at
  whatever time it left (`IsPiece`): senders only ever add to what they have sent,
  so old and repeated segments stay pieces;
* every acknowledgement under way is one that the receiver could have given, not
  beyond what it has now: receivers only ever get further;
* without an error, what the sender believes acknowledged the receiver has.

None of these is inductive without the others: the receiver's prefix needs the
pieces, the last needs the acknowledgements under way, and reading either number
back needs the bound. In a step one side moves and the other does not (`Moves`,
`SideMoves`), or time passes on both, so each lemma is about one sender or one
receiver and what it puts on the wire (`Said`). `Direction` does not mention time or
the applications: what a step of a peer does to its two halves is in `TCPLemmas`.
Of the refinement, `ReliableStream`'s state is read off the two streams; that every
step maps to one of its steps or to a stutter follows from `DirectionInv` before
and after.

**Model-checked only**:

* liveness under fairness (`OwnerIsReleased`, `EverythingGetsThrough`,
  `NetworkComesToRest`, `AllArriveIfNothingIsLost`, `AllWorkIsDone`), which is out
  of the prover's reach;
* `NoBrokenPipe` and `NothingIsCutOff` of `StreamCopy`. Their inductive invariant
  would join `DirectionInv` with what the pipe, the copy's two streams and the
  flags of both threads say of one another, for every call that is still in the
  list a loop works through and for every order of those calls; it is not worked
  out;
* the two claims of section 3, which do not hold.

## 6. Not modelled

* Byte layout and checksums of headers: sequential code that round-trip tests
  reach. A segment that does not parse is a lost segment; of the IPv4 checksum
  the model keeps that a header changed without recomputing it is refused.
* The 64-bit width of the timer: the doubled timeout would pass it only after
  longer than any run of the program.
* Of the event loops: rules without a descriptor, the busy-wait exception,
  callbacks that cancel other rules, reuse of a descriptor's number before the
  next wait.
* Of the socket: exceptions in the TCP thread, and the `fully acknowledged`
  message. Of the stream copy: standard output that takes only part of a write.
* Of the demo: the framing protocol (sequential parsing) and the connections of
  `epoll_server.cpp`.
* `ObjectPool` (only its tests use it), `Ref`, the other system-call wrappers,
  debugging, the remaining command-line programs.

## 7. Plan

Done, in this order: sequence numbers; byte stream and reassembler with their
refinements; receiver; timer and sender; peer and connection; interface; router
and internetwork; event loops; the proofs about `Wrap32`, `TCPSender` and the worker
pool; the socket with both its threads and the stream copy; liveness of the whole
stack, of the internetwork and of the worker pool; the proofs about receiver,
interface, forwarding tables and event loops, and that connections do not break by
themselves; the proofs about both ends of a connection and its refinement, about
the internetwork, about the reassembler's map, the sender's loops and the deque of
the byte stream.

Next, in order of importance:

1. Theorems about `StreamCopy`: `NoBrokenPipe`, from `DirectionInv` and an invariant
   of the pipe, then `NothingIsCutOff`.
2. `epoll_server.cpp` over module `EventLoop`: the lifetime of a connection that
   two rules refer to.
3. `EventLoop`: callbacks that cancel other rules.
