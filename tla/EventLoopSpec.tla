---------------------------- MODULE EventLoopSpec ---------------------------
(***************************************************************************)
(* An event loop of either kind and its owner.  The owner adds rules and   *)
(* asks to cancel them, changes its interests, opens and closes files, and *)
(* calls wait_next_event; the world writes to the files.                   *)
(*                                                                         *)
(* Rules are slots numbered in the order of _fd_rules.  The number of a    *)
(* closed file is given to a new one only when a wait_next_event has made  *)
(* the loop forget the old one.  Whatever the served callback does besides *)
(* reading is an action of the owner after the call; cancel() and error()  *)
(* callbacks do nothing to the loop.                                       *)
(***************************************************************************)
EXTENDS EventLoop

CONSTANTS
    Backends,           \* the loops to look at: "poll", "epoll"
    MaxRules,           \* bound: calls of add_rule
    Files,
    MaxUnread           \* bound: unread bytes of one file

Slots == 1 .. MaxRules

ASSUME EventLoopAssumption ==
    /\ Backends \subseteq {"poll", "epoll"} /\ NoFile \notin Files
    /\ IsFiniteSet(Files) /\ Cardinality(Files) <= kMaxEvents

VARIABLES
    backend,    \* which loop this is
    rules,      \* the rule in each slot
    files,      \* the state of each file, as the kernel knows it
    fd_states,  \* _fd_states: what the epoll loop believes is registered
    kernel,     \* the mask registered in the kernel for each file
    calls,      \* the callbacks that each loop of the last wait_next_event made
    result      \* what it returned, and "none" if the owner has acted since

vars == <<backend, rules, files, fd_states, kernel, calls, result>>

Init ==
    /\ backend \in Backends
    /\ rules = [k \in Slots |-> NoRule]
    /\ files = [f \in Files |-> NewFile]
    /\ fd_states = [f \in Files |-> NoState]
    /\ kernel = [f \in Files |-> NoWatch]
    /\ calls = <<>> /\ result = "none"

-----------------------------------------------------------------------------
(* The callback of an In rule reads; read() notes the end of the file. *)
AfterRead(pass) ==
    LET read(f) == \E k \in pass.served : rules[k].direction = "In" /\ rules[k].file = f
    IN  [f \in Files |-> IF ~read(f) THEN files[f]
                         ELSE IF files[f].unread > 0 THEN [files[f] EXCEPT !.unread = @ - 1]
                         ELSE [files[f] EXCEPT !.eof = TRUE]]

Returns(wait) ==
    /\ rules' = wait.pass.rules
    /\ calls' = wait.pass.calls
    /\ result' = wait.result
    /\ files' = AfterRead(wait.pass)

(* wait_next_event of each loop *)
WaitPoll ==
    /\ backend = "poll"
    /\ Returns(PollWait(rules, files))
    /\ UNCHANGED <<backend, fd_states, kernel>>

WaitEpoll(first) ==
    LET wait == EpollWait(rules, files, [f \in Files |-> Registration(fd_states[f], kernel[f])], first)
    IN  /\ backend = "epoll"
        /\ first = NoFile \/ wait.able = {} \/ first \in wait.able
        /\ Returns(wait)
        /\ fd_states' = [f \in Files |-> wait.reg[f].state]
        /\ kernel' = [f \in Files |-> wait.reg[f].watch]
        /\ UNCHANGED backend

-----------------------------------------------------------------------------
(* The owner and the rest of the world, between two calls. *)
Between == result' = "none" /\ calls' = <<>> /\ UNCHANGED backend

(* close: the kernel forgets the file and what was registered for it. *)
CloseFile(f) ==
    /\ Between
    /\ files[f].open
    /\ files' = [files EXCEPT ![f] = [NewFile EXCEPT !.open = FALSE]]
    /\ kernel' = [kernel EXCEPT ![f] = NoWatch]
    /\ UNCHANGED <<rules, fd_states>>

(* A new file is opened and gets the number of a closed one. *)
OpenFile(f) ==
    /\ Between
    /\ ~files[f].open /\ RulesOn(rules, f) = {} /\ ~fd_states[f].known
    /\ files' = [files EXCEPT ![f] = NewFile]
    /\ UNCHANGED <<rules, fd_states, kernel>>

(* add_rule *)
AddRule(k, f, direction) ==
    /\ Between
    /\ files[f].open
    /\ rules[k] = NoRule /\ \A j \in 1 .. k - 1 : rules[j] # NoRule
    /\ rules' = [rules EXCEPT ![k] = [NoRule EXCEPT !.state = "live", !.file = f,
                                                    !.direction = direction, !.interested = TRUE]]
    /\ fd_states' = [fd_states EXCEPT ![f].known = (backend = "epoll")]
    /\ UNCHANGED <<files, kernel>>

(* RuleHandle::cancel *)
RequestCancel(k) ==
    /\ Between
    /\ Live(rules[k])
    /\ rules' = [rules EXCEPT ![k].cancel_requested = TRUE]
    /\ UNCHANGED <<files, fd_states, kernel>>

(* What interest() of rule k answers changes. *)
ChangeInterest(k) ==
    /\ Between
    /\ Live(rules[k])
    /\ rules' = [rules EXCEPT ![k].interested = ~@]
    /\ UNCHANGED <<files, fd_states, kernel>>

(* Something happens to an open file: bytes, the end of them, a hangup, an *)
(* error, or its buffer fills up or drains.  Nobody sees the events of a   *)
(* file that no rule asks about, so they may as well come once one does.   *)
FileEvent(f) ==
    LET asks(direction) == \E k \in Slots : Live(rules[k]) /\ rules[k].file = f
                                            /\ rules[k].direction = direction
    IN  /\ Between
        /\ files[f].open /\ ~files[f].broken
        /\ \/ /\ asks("In") /\ files[f].unread < MaxUnread /\ ~files[f].ended /\ ~files[f].hung
              /\ files' = [files EXCEPT ![f].unread = @ + 1]
           \/ asks("In") /\ files' = [files EXCEPT ![f].ended = TRUE]
           \/ asks("Out") /\ files' = [files EXCEPT ![f].room = ~@]
           \/ (asks("In") \/ asks("Out")) /\ files' = [files EXCEPT ![f].hung = TRUE]
           \/ (asks("In") \/ asks("Out")) /\ files' = [files EXCEPT ![f].broken = TRUE]
        /\ UNCHANGED <<rules, fd_states, kernel>>

Next ==
    \/ WaitPoll
    \/ \E first \in Files \cup {NoFile} : WaitEpoll(first)
    \/ \E f \in Files : CloseFile(f)
    \/ \E f \in Files : OpenFile(f)
    \/ \E k \in Slots, f \in Files, direction \in {"In", "Out"} : AddRule(k, f, direction)
    \/ \E k \in Slots : RequestCancel(k)
    \/ \E k \in Slots : ChangeInterest(k)
    \/ \E f \in Files : FileEvent(f)

Spec == Init /\ [][Next]_vars

(* The files are interchangeable. *)
Symmetry == Permutations(Files)

-----------------------------------------------------------------------------
(* No callback cuts off a rule for input that has something left to read,  *)
(* unless the file was closed or has an error.                             *)
CutsNothingOff ==
    \A i \in DOMAIN calls : \A k \in DOMAIN calls[i] : \A j \in DOMAIN calls[i][k] :
        calls[i][k][j].kind = "cancel" => calls[i][k][j].unread = 0

(* In the poll loop a rule for input is cancelled only when there is       *)
(* nothing left to read, the file was closed, or it has an error: a hangup *)
(* does not cut off what was written before it (eventloop.cc:195-205).     *)
NothingUnreadIsAbandoned == backend = "poll" => CutsNothingOff

(* "Mirror EventLoop's defunct-fd treatment: pure HUP with nothing to      *)
(* read" (epoll_eventloop.cc:341): the same of the epoll loop.  The code   *)
(* does not ask whether input was asked for, as eventloop.cc:197 does.     *)
EpollMirrorsEventLoop == backend = "epoll" => CutsNothingOff

(* What the epoll loop believes to be "currently installed in the kernel"  *)
(* (epoll_eventloop.hh:63) is installed there when it waits, although      *)
(* files are closed, rules come and go and interests change in between:    *)
(* otherwise a change of mind is not passed on, or the kernel reports what *)
(* nobody asked for.                                                       *)
RegistrationIsCurrent ==
    result # "none" =>
        \A f \in Files : kernel[f] = [watched |-> fd_states[f].in_epoll,
                                      mask |-> fd_states[f].registered]

(* The loop does not go to sleep on a rule that it could serve: it reports *)
(* a timeout only if no interested rule's file is ready for it, and Exit   *)
(* only if no rule is interested at all (eventloop.hh:66,                  *)
(* eventloop.cc:120-164, epoll_eventloop.cc:203-258).                      *)
NoLostWakeup ==
    \A k \in Slots : Live(rules[k]) /\ rules[k].interested =>
        /\ result # "Exit"
        /\ result = "Timeout" =>
               rules[k].direction \notin Conditions(files[rules[k].file])

(* A wait of the epoll loop that found anything leaves no rule whose file  *)
(* has an error, even if another rule is served ("errors on every returned *)
(* fd are processed eagerly", epoll_eventloop.cc:246, 266-313).            *)
ErrorsAreHandledEagerly ==
    backend = "epoll" /\ result = "Success" =>
        \A k \in Slots : Live(rules[k]) => ~files[rules[k].file].broken
=============================================================================
