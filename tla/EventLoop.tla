------------------------------ MODULE EventLoop -----------------------------
(***************************************************************************)
(* wait_next_event of the two event loops: util/eventloop.cc over poll(2), *)
(* and util/epoll_eventloop.cc over epoll(7), which the TCP socket uses on *)
(* Linux.  A call drops dead rules, asks the kernel which descriptors are  *)
(* ready, and serves at most one rule.  It is given the rules, as a        *)
(* sequence in the order of _fd_rules, and the files as the kernel knows   *)
(* them; what the callbacks it makes do is up to the owner of the loop.    *)
(*                                                                         *)
(* A file stands for its descriptor.  Rules without a descriptor run       *)
(* before everything else and change nothing here, and are left out.       *)
(***************************************************************************)
EXTENDS Naturals, FiniteSets, SequencesExt

CONSTANT NoFile     \* not a file

NoRule == [state |-> "unused", file |-> NoFile, direction |-> "In",
           interested |-> FALSE, cancel_requested |-> FALSE]

Live(r) == r.state = "live"

(* unread: bytes to read; ended: end-of-file follows them; hung: hung up;  *)
(* broken: an error is pending; room: can be written to; eof: eof().       *)
NewFile == [open |-> TRUE, unread |-> 0, ended |-> FALSE, hung |-> FALSE,
            broken |-> FALSE, room |-> TRUE, eof |-> FALSE]

(* What the kernel reports of a file: readable, writable. *)
Conditions(file) ==
    {d \in {"In", "Out"} : IF d = "In" THEN file.unread > 0 \/ file.ended ELSE file.room}

-----------------------------------------------------------------------------
(* A wait_next_event in progress: the rules; for every loop over them so   *)
(* far the calls it made for each rule; and the rule that was served.      *)
Pass(rs, cs, served) == [rules |-> rs, calls |-> cs, served |-> served]

(* A callback of rule k, and what was left to read for it at that moment.  *)
Call(fs, k, r, kind) ==
    [rule |-> k, kind |-> kind,
     unread |-> IF r.direction = "In" /\ fs[r.file].open /\ ~fs[r.file].broken
                THEN fs[r.file].unread ELSE 0]

(* What may become of a rule, and the callbacks that go with it. *)
Erased == {"dropped", "cancelled", "failed"}
Callbacks(fate) ==
    CASE fate = "cancelled" -> <<"cancel">>
      [] fate = "failed" -> <<"error", "cancel">>
      [] fate = "served" -> <<"callback">>
      [] OTHER -> <<>>

(* A loop over _fd_rules with the fate of each rule that it comes to.  It  *)
(* ends with the first that is served.                                     *)
GoThrough(fs, pass, fate) ==
    LET ready == {k \in DOMAIN fate : fate[k] = "served"}
        met == {k \in DOMAIN fate : \A j \in ready : k <= j}
        calls(k) == LET kinds == Callbacks(fate[k])
                    IN  [j \in DOMAIN kinds |-> Call(fs, k, pass.rules[k], kinds[j])]
    IN  Pass([k \in DOMAIN fate |-> IF k \in met /\ fate[k] \in Erased
                                    THEN [NoRule EXCEPT !.state = "gone"] ELSE pass.rules[k]],
             Append(pass.calls, [k \in DOMAIN fate |-> IF k \in met THEN calls(k) ELSE <<>>]),
             ready \cap met)

(* The calls in the order in which they were made. *)
Calls(pass) == FlattenSeq(FlattenSeq(pass.calls))

(* Rules that are cancelled, at end-of-file or closed are dropped, the     *)
(* first without a callback.                                               *)
DropDead(fs, r) ==
    IF ~Live(r) THEN "stays"
    ELSE IF r.cancel_requested THEN "dropped"
    ELSE IF (r.direction = "In" /\ fs[r.file].eof) \/ ~fs[r.file].open THEN "cancelled"
    ELSE "stays"

SetUp(rs, fs) == GoThrough(fs, Pass(rs, <<>>, {}), [k \in DOMAIN rs |-> DropDead(fs, rs[k])])

-----------------------------------------------------------------------------
(* eventloop.cc *)

(* A plausible slip: a hangup is the end although nobody asked for input. *)
PollRuleHasty(fs, r) ==
    LET file == fs[r.file]
        ready == r.interested /\ r.direction \in Conditions(file)
    IN  IF ~Live(r) THEN "stays"
        ELSE IF file.broken THEN "failed"
        ELSE IF file.hung /\ (~ready \/ r.direction = "Out") THEN "cancelled"
        ELSE IF ready THEN "served"
        ELSE "stays"

(* One rule in the loop over the results of poll(), which was asked about  *)
(* what the interested rules are for.                                      *)
PollRule(fs, r) ==
    LET file == fs[r.file]
        ready == r.interested /\ r.direction \in Conditions(file)
    IN  IF ~Live(r) THEN "stays"
        ELSE IF file.broken THEN "failed"
        ELSE IF file.hung /\ ((r.interested /\ ~ready) \/ r.direction = "Out") THEN "cancelled"
        ELSE IF ready THEN "served"
        ELSE "stays"

(* poll() has something to report for a rule. *)
PollReports(fs, r) ==
    \/ fs[r.file].broken \/ fs[r.file].hung
    \/ r.interested /\ r.direction \in Conditions(fs[r.file])

PollWait(rs, fs) ==
    LET ready == SetUp(rs, fs)
        live == {k \in DOMAIN rs : Live(ready.rules[k])}
    IN  IF \A k \in live : ~ready.rules[k].interested THEN [pass |-> ready, result |-> "Exit"]
        ELSE IF \A k \in live : ~PollReports(fs, ready.rules[k]) THEN [pass |-> ready, result |-> "Timeout"]
        ELSE [pass |-> GoThrough(fs, ready, [k \in DOMAIN rs |-> PollRule(fs, ready.rules[k])]),
              result |-> "Success"]

-----------------------------------------------------------------------------
(* epoll_eventloop.cc *)

(* What the loop believes of a descriptor (_fd_states), and what the       *)
(* kernel knows of it.                                                     *)
Registration(state, watch) == [state |-> state, watch |-> watch]
NoState == [known |-> FALSE, in_epoll |-> FALSE, registered |-> {}]
NoWatch == [watched |-> FALSE, mask |-> {}]

RulesOn(rs, f) == {k \in DOMAIN rs : Live(rs[k]) /\ rs[k].file = f}

(* A plausible slip: the loop over the rules ends at the first one that is *)
(* not interested.                                                         *)
DesiredBreak(rs, f) ==
    {rs[k].direction : k \in {k \in RulesOn(rs, f) :
                                 \A j \in RulesOn(rs, f) : j <= k => rs[j].interested}}

(* desired_events_for_fd *)
Desired(rs, f) ==
    {rs[k].direction : k \in {k \in RulesOn(rs, f) : ~rs[k].cancel_requested /\ rs[k].interested}}

(* A plausible slip: the mask is installed once and for all. *)
SyncOnce(reg, desired) ==
    Registration([known |-> TRUE, in_epoll |-> TRUE, registered |-> desired],
                 IF reg.state.in_epoll THEN reg.watch
                 ELSE [watched |-> TRUE, mask |-> desired])

(* sync_fd_registration: ADD, nothing, or MOD. *)
Sync(reg, desired) ==
    IF reg.state.in_epoll /\ reg.state.registered = desired THEN reg
    ELSE Registration([known |-> TRUE, in_epoll |-> TRUE, registered |-> desired],
                      [watched |-> TRUE, mask |-> desired])

(* The registrations after the second loop of wait_next_event: those       *)
(* without a rule are forgotten, there and in the kernel.                  *)
Registered(rs, regs) ==
    [f \in DOMAIN regs |->
        IF regs[f].state.known /\ RulesOn(rs, f) # {} THEN Sync(regs[f], Desired(rs, f))
        ELSE Registration(NoState, IF regs[f].state.in_epoll THEN NoWatch ELSE regs[f].watch)]

(* What epoll_wait reports: "In" and "Out" only if the mask has them. *)
Revents(file, watch) ==
    IF ~watch.watched THEN {}
    ELSE (watch.mask \cap Conditions(file))
         \cup (IF file.hung THEN {"HUP"} ELSE {})
         \cup (IF file.broken THEN {"ERR"} ELSE {})

(* A plausible slip: errors are handled on the first descriptor only. *)
FailBrokenFirst(revents, r) ==
    LET broken == {f \in DOMAIN revents : "ERR" \in revents[f]}
    IN  IF Live(r) /\ broken # {} /\ r.file = CHOOSE f \in broken : TRUE THEN "failed" ELSE "stays"

(* The first pass: every rule on a descriptor with an error is told so, in *)
(* the order of the rules (the code goes descriptor by descriptor).        *)
FailBroken(revents, r) == IF Live(r) /\ "ERR" \in revents[r.file] THEN "failed" ELSE "stays"

(* One rule in the search for the rule to serve, on file f. *)
EpollRule(f, revents, r) ==
    LET ready == r.direction \in revents
    IN  IF ~Live(r) \/ r.file # f THEN "stays"
        ELSE IF "HUP" \in revents /\ (~ready \/ r.direction = "Out") THEN "cancelled"
        ELSE IF ready /\ r.interested THEN "served"
        ELSE "stays"

(* How many descriptors one epoll_wait reports; the wait is modelled for  *)
(* loops with no more than that.                                           *)
kMaxEvents == 32

(* The wait, if `first' is the first descriptor without an error that      *)
(* epoll_wait returns: any of them may be, and it is the one served.  It   *)
(* is NoFile if a signal interrupts epoll_wait; the result is then Success *)
(* too, told apart here because nothing was looked at.                     *)
EpollWait(rs, fs, regs, first) ==
    LET ready == SetUp(rs, fs)
        reg == Registered(ready.rules, regs)
        revents == [f \in DOMAIN fs |-> Revents(fs[f], reg[f].watch)]
        failed == GoThrough(fs, ready, [k \in DOMAIN rs |-> FailBroken(revents, ready.rules[k])])
        searched == GoThrough(fs, failed,
                       [k \in DOMAIN rs |-> EpollRule(first, revents[first], failed.rules[k])])
        able == {f \in DOMAIN fs : revents[f] # {} /\ "ERR" \notin revents[f]}
        after == [f \in DOMAIN fs |-> IF "ERR" \in revents[f] THEN Registration(NoState, NoWatch)
                                      ELSE reg[f]]
        wait(pass, res, rg) == [pass |-> pass, result |-> res, reg |-> rg, able |-> able]
    IN  IF \A f \in DOMAIN fs : reg[f].state.registered = {} THEN wait(ready, "Exit", reg)
        ELSE IF first = NoFile THEN wait(ready, "Interrupted", reg)
        ELSE IF \A f \in DOMAIN fs : revents[f] = {} THEN wait(ready, "Timeout", reg)
        ELSE wait(IF able = {} THEN failed ELSE searched, "Success", after)
=============================================================================
