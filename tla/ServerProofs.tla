---------------------------- MODULE ServerProofs ----------------------------
(***************************************************************************)
(* The properties of the two halves of the demo servers: the event loops   *)
(* (EventLoopSpec), for any number of rules, and as many files as one      *)
(* epoll_wait reports, and the worker pool (WorkerPool), for any number of *)
(* workers, producers and items and for any capacity.                      *)
(*                                                                         *)
(* Those of the loops are about the moment after a wait; what has to hold  *)
(* at all times is that the loop's record and the kernel's differ only for *)
(* files that were closed (InStep), that the loop has a record of every    *)
(* file with a rule (RulesKnown), and that a file is at its end only when  *)
(* all of it was read (GoodFile).                                          *)
(*                                                                         *)
(* EveryItemHasItsPlace is not inductive by itself: that an accepted item  *)
(* is new needs the items on offer to be new and different (OnOffer), and  *)
(* that nothing is left in the end needs the owner to be down only when    *)
(* the queue is closed and every worker has returned (OwnerInStep).        *)
(***************************************************************************)
EXTENDS EventLoopSpec, WorkerPool, FiniteSetTheorems, TLAPS

-----------------------------------------------------------------------------
(* The event loops *)

Directions == {"In", "Out"}

GoodFile(file) ==
    /\ file \in [open : BOOLEAN, unread : Nat, ended : BOOLEAN, hung : BOOLEAN,
                 broken : BOOLEAN, room : BOOLEAN, eof : BOOLEAN]
    /\ file.eof => file.ended /\ file.unread = 0

GoodRule(r) ==
    /\ r \in [state : {"unused", "live", "gone"}, file : Files \cup {NoFile}, direction : Directions,
              interested : BOOLEAN, cancel_requested : BOOLEAN]
    /\ Live(r) => r.file \in Files

Types ==
    /\ backend \in {"poll", "epoll"}
    /\ rules = [k \in Slots |-> rules[k]] /\ \A k \in Slots : GoodRule(rules[k])
    /\ files = [f \in Files |-> files[f]] /\ \A f \in Files : GoodFile(files[f])
    /\ fd_states \in [Files -> [known : BOOLEAN, in_epoll : BOOLEAN, registered : SUBSET Directions]]
    /\ kernel \in [Files -> [watched : BOOLEAN, mask : SUBSET Directions]]

(* The epoll loop has a record of every file that a rule is about. *)
RulesKnown ==
    backend = "epoll" => \A k \in Slots : Live(rules[k]) => fd_states[rules[k].file].known

(* What the loop has on record of a file is what the kernel knows of it,   *)
(* unless the file was closed.                                             *)
InStepFor(state, watch, open) ==
    /\ state.in_epoll => state.known
    /\ ~state.in_epoll => state.registered = {} /\ watch = NoWatch
    /\ state.in_epoll /\ open => watch = [watched |-> TRUE, mask |-> state.registered]
    /\ ~open => watch = NoWatch

InStep ==
    /\ \A f \in Files : InStepFor(fd_states[f], kernel[f], files[f].open)
    /\ backend = "poll" => \A f \in Files : ~fd_states[f].in_epoll

LoopInv == Types /\ RulesKnown /\ InStep

-----------------------------------------------------------------------------
(* One loop over the rules *)

Gone == [NoRule EXCEPT !.state = "gone"]

(* Nothing unread is behind a cancellation among the calls c of one loop. *)
CutsNothing(c) ==
    \A k \in DOMAIN c : \A j \in DOMAIN c[k] : c[k][j].kind = "cancel" => c[k][j].unread = 0

(* A loop over the rules leaves each rule alone or erases it; if it serves *)
(* none it comes to all of them (eventloop.cc:167-222).                    *)
LEMMA ThroughRules ==
  ASSUME NEW fs, NEW pass, NEW fate, NEW p, p = GoThrough(fs, pass, fate)
  PROVE  /\ p.rules = [k \in DOMAIN fate |-> p.rules[k]]
         /\ \A k \in DOMAIN fate : p.rules[k] = pass.rules[k] \/ p.rules[k] = Gone
         /\ p.served \subseteq {k \in DOMAIN fate : fate[k] = "served"}
         /\ (\A k \in DOMAIN fate : fate[k] # "served") =>
               /\ \A k \in DOMAIN fate : fate[k] \in Erased => p.rules[k] = Gone
               /\ p.served = {}
<1> DEFINE ready == {k \in DOMAIN fate : fate[k] = "served"}
           met == {k \in DOMAIN fate : \A j \in ready : k <= j}
<1>1. /\ p.rules = [k \in DOMAIN fate |-> IF k \in met /\ fate[k] \in Erased THEN Gone ELSE pass.rules[k]]
      /\ p.served = ready \cap met
  BY DEF GoThrough, Pass, Gone
<1>2. (\A k \in DOMAIN fate : fate[k] # "served") => ready = {} /\ met = DOMAIN fate
  OBVIOUS
<1> HIDE DEF met
<1>3. \A k \in DOMAIN fate : p.rules[k] = IF k \in met /\ fate[k] \in Erased THEN Gone ELSE pass.rules[k]
  BY <1>1
<1>4. p.rules = [k \in DOMAIN fate |-> p.rules[k]]
  BY <1>1
<1> QED
  BY <1>1, <1>2, <1>3, <1>4

(* The first loop: what is left alive is neither cancelled, nor closed,    *)
(* and it is as it was (eventloop.cc:120-143, epoll_eventloop.cc:180-201). *)
LEMMA SetUpRules ==
  ASSUME NEW rs, NEW fs, NEW p, p = SetUp(rs, fs)
  PROVE  /\ p.rules = [k \in DOMAIN rs |-> p.rules[k]]
         /\ \A k \in DOMAIN rs : p.rules[k] = rs[k] \/ p.rules[k] = Gone
         /\ p.served = {}
         /\ \A k \in DOMAIN rs : Live(p.rules[k]) => ~rs[k].cancel_requested /\ fs[rs[k].file].open
<1> DEFINE fate == [k \in DOMAIN rs |-> DropDead(fs, rs[k])]
           start == Pass(rs, <<>>, {})
<1>1. p = GoThrough(fs, start, fate) /\ start.rules = rs /\ DOMAIN fate = DOMAIN rs
  BY DEF SetUp, Pass
<1>2. \A k \in DOMAIN rs : fate[k] \in {"stays", "dropped", "cancelled"}
  BY DEF DropDead
<1>3. \A k \in DOMAIN rs : fate[k] # "served"
  BY <1>2
<1>4. \A k \in DOMAIN rs : Live(rs[k]) /\ (rs[k].cancel_requested \/ ~fs[rs[k].file].open) => fate[k] \in Erased
  BY DEF DropDead, Erased
<1>5. ~Live(Gone)
  BY DEF Gone, NoRule, Live
<1> HIDE DEF fate, start
<1>6. /\ p.rules = [k \in DOMAIN fate |-> p.rules[k]]
      /\ \A k \in DOMAIN fate : p.rules[k] = start.rules[k] \/ p.rules[k] = Gone
      /\ \A k \in DOMAIN fate : fate[k] \in Erased => p.rules[k] = Gone
      /\ p.served = {}
  BY <1>1, <1>3, ThroughRules
<1>7. \A k \in DOMAIN rs : Live(p.rules[k]) => p.rules[k] = rs[k] /\ fate[k] \notin Erased
  BY <1>1, <1>5, <1>6
<1>8. \A k \in DOMAIN rs : Live(p.rules[k]) => ~rs[k].cancel_requested /\ fs[rs[k].file].open
  BY <1>4, <1>7
<1> QED
  BY <1>1, <1>6, <1>8

(* A rule that is erased is a rule that is not there. *)
LEMMA GoneIsGood == GoodRule(Gone) /\ ~Live(Gone) /\ Gone # NoRule
BY DEF GoodRule, Gone, NoRule, Live, Directions

(* The calls of one loop cut nothing off if no cancelled rule has anything *)
(* left to read.                                                           *)
LEMMA ThroughCalls ==
  ASSUME NEW fs, NEW pass, NEW fate, NEW p, p = GoThrough(fs, pass, fate),
         \A k \in DOMAIN fate : fate[k] \in {"cancelled", "failed"} =>
             Call(fs, k, pass.rules[k], "cancel").unread = 0
  PROVE  \E c : p.calls = Append(pass.calls, c) /\ CutsNothing(c)
<1> DEFINE ready == {k \in DOMAIN fate : fate[k] = "served"}
           met == {k \in DOMAIN fate : \A j \in ready : k <= j}
           kinds(k) == Callbacks(fate[k])
           made(k) == [j \in DOMAIN kinds(k) |-> Call(fs, k, pass.rules[k], kinds(k)[j])]
           c == [k \in DOMAIN fate |-> IF k \in met THEN made(k) ELSE <<>>]
<1>1. p.calls = Append(pass.calls, c)
  BY DEF GoThrough, Pass
<1>2. \A k \in DOMAIN fate : \A j \in DOMAIN kinds(k) :
          kinds(k)[j] = "cancel" => fate[k] \in {"cancelled", "failed"}
  <2> SUFFICES ASSUME NEW k \in DOMAIN fate, NEW j \in DOMAIN kinds(k), kinds(k)[j] = "cancel"
               PROVE  fate[k] \in {"cancelled", "failed"}
    OBVIOUS
  <2>1. CASE fate[k] = "served"
    BY <2>1 DEF Callbacks
  <2>2. CASE fate[k] \notin {"cancelled", "failed", "served"}
    BY <2>2 DEF Callbacks
  <2> QED
    BY <2>1, <2>2
<1>3. CutsNothing(c)
  <2> SUFFICES ASSUME NEW k \in DOMAIN c, NEW j \in DOMAIN c[k], c[k][j].kind = "cancel"
               PROVE  c[k][j].unread = 0
    BY DEF CutsNothing
  <2>1. k \in DOMAIN fate /\ (k \in met \/ c[k] = <<>>) /\ (k \in met => c[k] = made(k))
    OBVIOUS
  <2>2. k \in met /\ c[k] = made(k)
    BY <2>1
  <2> HIDE DEF c, met, kinds
  <2>3. j \in DOMAIN kinds(k) /\ c[k][j] = Call(fs, k, pass.rules[k], kinds(k)[j])
    BY <2>2
  <2>4. kinds(k)[j] = "cancel"
    BY <2>3 DEF Call
  <2> QED
    BY <1>2, <2>1, <2>3, <2>4
<1> QED
  BY <1>1, <1>3

(* ... and so do the calls of several loops, one after the other. *)
LEMMA SeveralLoops ==
  ASSUME NEW c, NEW d, CutsNothing(c), CutsNothing(d)
  PROVE  /\ \A i \in DOMAIN Append(<<>>, c) : CutsNothing(Append(<<>>, c)[i])
         /\ \A i \in DOMAIN Append(Append(<<>>, c), d) : CutsNothing(Append(Append(<<>>, c), d)[i])
<1> DEFINE S == {c, d}
           one == Append(<<>>, c)
           two == Append(one, d)
<1>1. <<>> \in Seq(S) /\ c \in S /\ d \in S
  OBVIOUS
<1>2. one \in Seq(S)
  BY <1>1
<1> HIDE DEF one
<1>3. two \in Seq(S)
  BY <1>1, <1>2
<1> HIDE DEF two
<1>4. /\ \A i \in DOMAIN one : one[i] \in S
      /\ \A i \in DOMAIN two : two[i] \in S
  BY <1>2, <1>3
<1>5. \A x \in S : CutsNothing(x)
  OBVIOUS
<1>6. /\ \A i \in DOMAIN one : CutsNothing(one[i])
      /\ \A i \in DOMAIN two : CutsNothing(two[i])
  BY <1>4, <1>5
<1> QED
  BY <1>6 DEF one, two

-----------------------------------------------------------------------------
(* The loop over poll() *)

(* What is served is alive, and ready for it.  A wait that times out       *)
(* leaves nobody who is interested in something that is there, and one     *)
(* that exits nobody who is interested (eventloop.cc:120-222).             *)
LEMMA PollOutcome ==
  ASSUME NEW rs, NEW fs, NEW wait, wait = PollWait(rs, fs)
  PROVE  /\ wait.pass.rules = [k \in DOMAIN rs |-> wait.pass.rules[k]]
         /\ \A k \in DOMAIN rs : wait.pass.rules[k] = rs[k] \/ wait.pass.rules[k] = Gone
         /\ \A k \in wait.pass.served : /\ k \in DOMAIN rs /\ Live(rs[k])
                                        /\ rs[k].direction \in Conditions(fs[rs[k].file])
         /\ wait.result \in {"Exit", "Timeout", "Success"}
         /\ wait.result # "Success" => wait.pass.served = {}
         /\ wait.result = "Exit" =>
                \A k \in DOMAIN rs : Live(wait.pass.rules[k]) => ~rs[k].interested
         /\ wait.result = "Timeout" =>
                \A k \in DOMAIN rs : Live(wait.pass.rules[k]) /\ rs[k].interested =>
                    rs[k].direction \notin Conditions(fs[rs[k].file])
<1> DEFINE ready == SetUp(rs, fs)
           R == ready.rules
           live == {k \in DOMAIN rs : Live(R[k])}
           fate == [k \in DOMAIN rs |-> PollRule(fs, R[k])]
           after == GoThrough(fs, ready, fate)
<1>1. /\ R = [k \in DOMAIN rs |-> R[k]]
      /\ \A k \in DOMAIN rs : R[k] = rs[k] \/ R[k] = Gone
      /\ ready.served = {}
  BY SetUpRules
<1>2. ~Live(Gone)
  BY GoneIsGood
<1>3. \A k \in live : R[k] = rs[k]
  BY <1>1, <1>2
<1>4. \A k \in DOMAIN rs : fate[k] = "served" =>
          Live(R[k]) /\ R[k].interested /\ R[k].direction \in Conditions(fs[R[k].file])
  BY DEF PollRule
<1>5. wait = IF \A k \in live : ~R[k].interested THEN [pass |-> ready, result |-> "Exit"]
             ELSE IF \A k \in live : ~PollReports(fs, R[k]) THEN [pass |-> ready, result |-> "Timeout"]
             ELSE [pass |-> after, result |-> "Success"]
  BY DEF PollWait
<1> HIDE DEF ready
<1>6. CASE \A k \in live : ~R[k].interested
  <2>1. wait.pass = ready /\ wait.result = "Exit"
    BY <1>5, <1>6
  <2> QED
    BY <1>1, <1>3, <1>6, <2>1
<1>7. CASE ~(\A k \in live : ~R[k].interested) /\ (\A k \in live : ~PollReports(fs, R[k]))
  <2>1. wait.pass = ready /\ wait.result = "Timeout"
    BY <1>5, <1>7
  <2>2. \A k \in live : R[k].interested => R[k].direction \notin Conditions(fs[R[k].file])
    BY <1>7 DEF PollReports
  <2> QED
    BY <1>1, <1>3, <2>1, <2>2
<1>8. CASE ~(\A k \in live : ~R[k].interested) /\ ~(\A k \in live : ~PollReports(fs, R[k]))
  <2>1. wait.pass = after /\ wait.result = "Success"
    BY <1>5, <1>8
  <2>2. DOMAIN fate = DOMAIN rs
    OBVIOUS
  <2> HIDE DEF fate
  <2>3. /\ after.rules = [k \in DOMAIN rs |-> after.rules[k]]
        /\ \A k \in DOMAIN rs : after.rules[k] = R[k] \/ after.rules[k] = Gone
        /\ after.served \subseteq {k \in DOMAIN rs : fate[k] = "served"}
    BY <2>2, ThroughRules
  <2>4. \A k \in DOMAIN rs : after.rules[k] = rs[k] \/ after.rules[k] = Gone
    BY <1>1, <2>3
  <2>5. \A k \in after.served : /\ k \in DOMAIN rs /\ Live(rs[k])
                                /\ rs[k].direction \in Conditions(fs[rs[k].file])
    BY <1>3, <1>4, <2>3
  <2> HIDE DEF after
  <2> QED
    BY <2>1, <2>3, <2>4, <2>5
<1> QED
  BY <1>6, <1>7, <1>8

(* What there is to read for a rule, as Call notes it. *)
Left(fs, r) ==
    IF r.direction = "In" /\ fs[r.file].open /\ ~fs[r.file].broken THEN fs[r.file].unread ELSE 0

(* Who is dropped at the beginning has nothing left to read. *)
LEMMA SetUpCutsNothing ==
  ASSUME NEW rs, NEW fs, \A k \in DOMAIN rs : GoodRule(rs[k]), \A f \in Files : GoodFile(fs[f])
  PROVE  \E c : SetUp(rs, fs).calls = Append(<<>>, c) /\ CutsNothing(c)
<1> DEFINE fate == [k \in DOMAIN rs |-> DropDead(fs, rs[k])]
           start == Pass(rs, <<>>, {})
           p == GoThrough(fs, start, fate)
<1>1. SetUp(rs, fs) = p /\ start.rules = rs /\ start.calls = <<>> /\ DOMAIN fate = DOMAIN rs
  BY DEF SetUp, Pass
<1>2. \A k \in DOMAIN rs : fate[k] \in {"cancelled", "failed"} => Left(fs, rs[k]) = 0
  <2> SUFFICES ASSUME NEW k \in DOMAIN rs, fate[k] \in {"cancelled", "failed"} PROVE Left(fs, rs[k]) = 0
    OBVIOUS
  <2> DEFINE r == rs[k]
             file == fs[r.file]
  <2>1. Live(r) /\ ((r.direction = "In" /\ file.eof) \/ ~file.open)
    BY DEF DropDead
  <2>2. r.file \in Files
    BY <2>1 DEF GoodRule
  <2>3. file.eof => file.unread = 0
    BY <2>2 DEF GoodFile
  <2> QED
    BY <2>1, <2>3 DEF Left
<1>3. \A k \in DOMAIN fate : fate[k] \in {"cancelled", "failed"} =>
          Call(fs, k, start.rules[k], "cancel").unread = 0
  BY <1>1, <1>2 DEF Call, Left
<1> HIDE DEF fate, start
<1>4. \E c : p.calls = Append(start.calls, c) /\ CutsNothing(c)
  BY <1>3, ThroughCalls
<1> QED
  BY <1>1, <1>4

(* Neither has who is cancelled after poll(): a rule for input is given up *)
(* only if it was asked for and there is none (eventloop.cc:195-205).      *)
LEMMA PollCutsNothing ==
  ASSUME NEW rs, NEW fs, \A k \in DOMAIN rs : GoodRule(rs[k]), \A f \in Files : GoodFile(fs[f]),
         NEW wait, wait = PollWait(rs, fs)
  PROVE  \A i \in DOMAIN wait.pass.calls : CutsNothing(wait.pass.calls[i])
<1> DEFINE ready == SetUp(rs, fs)
           R == ready.rules
           live == {k \in DOMAIN rs : Live(R[k])}
           fate == [k \in DOMAIN rs |-> PollRule(fs, R[k])]
           after == GoThrough(fs, ready, fate)
<1>0. /\ R = [k \in DOMAIN rs |-> R[k]]
      /\ \A k \in DOMAIN rs : R[k] = rs[k] \/ R[k] = Gone
      /\ ready.served = {}
  BY SetUpRules
<1>1. PICK c : ready.calls = Append(<<>>, c) /\ CutsNothing(c)
  BY SetUpCutsNothing
<1>2. wait.pass = ready \/ wait.pass = after
  BY DEF PollWait
<1> HIDE DEF ready
<1>3. \A k \in DOMAIN rs : GoodRule(R[k])
  BY <1>0, GoneIsGood
<1>4. \A k \in DOMAIN rs : fate[k] \in {"cancelled", "failed"} => Left(fs, R[k]) = 0
  <2> SUFFICES ASSUME NEW k \in DOMAIN rs, fate[k] \in {"cancelled", "failed"} PROVE Left(fs, R[k]) = 0
    OBVIOUS
  <2> DEFINE r == R[k]
             file == fs[r.file]
  <2>1. Live(r) /\ (file.broken \/ r.direction = "Out" \/ r.direction \notin Conditions(file))
    BY DEF PollRule
  <2>2. r.file \in Files /\ r.direction \in Directions
    BY <1>3, <2>1 DEF GoodRule
  <2>3. file.unread \in Nat
    BY <2>2 DEF GoodFile
  <2>4. r.direction = "In" /\ r.direction \notin Conditions(file) => file.unread = 0
    BY <2>3 DEF Conditions
  <2>5. r.direction = "Out" => r.direction # "In"
    OBVIOUS
  <2> HIDE DEF r, file
  <2>6. (IF r.direction = "In" /\ file.open /\ ~file.broken THEN file.unread ELSE 0) = 0
    BY <2>1, <2>4, <2>5
  <2> QED
    BY <2>6 DEF Left, r, file
<1>5. \A k \in DOMAIN fate : fate[k] \in {"cancelled", "failed"} => Call(fs, k, R[k], "cancel").unread = 0
  BY <1>4 DEF Call, Left
<1> HIDE DEF fate
<1>6. PICK d : after.calls = Append(ready.calls, d) /\ CutsNothing(d)
  BY <1>5, ThroughCalls
<1> HIDE DEF after
<1>7. /\ \A i \in DOMAIN ready.calls : CutsNothing(ready.calls[i])
      /\ \A i \in DOMAIN after.calls : CutsNothing(after.calls[i])
  BY <1>1, <1>6, SeveralLoops
<1> QED
  BY <1>2, <1>7

-----------------------------------------------------------------------------
(* The loop over epoll *)

States == [known : BOOLEAN, in_epoll : BOOLEAN, registered : SUBSET Directions]
Watches == [watched : BOOLEAN, mask : SUBSET Directions]

(* The record and the kernel agree on a file. *)
Agree(state, watch) ==
    /\ state \in States /\ watch \in Watches
    /\ state.in_epoll => state.known /\ watch = [watched |-> TRUE, mask |-> state.registered]
    /\ ~state.in_epoll => state.registered = {} /\ watch = NoWatch

(* sync_fd_registration brings record and kernel in line                   *)
(* (epoll_eventloop.cc:116-147).                                           *)
LEMMA SyncAgrees ==
  ASSUME NEW g, g = Registration(g.state, g.watch), g.state \in States, g.watch \in Watches,
         g.state.known, InStepFor(g.state, g.watch, TRUE), NEW desired \in SUBSET Directions
  PROVE  LET s == Sync(g, desired)
         IN  Agree(s.state, s.watch) /\ s.state.known /\ s.state.in_epoll /\ s.state.registered = desired
<1> DEFINE s == Sync(g, desired)
           new == Registration([known |-> TRUE, in_epoll |-> TRUE, registered |-> desired],
                               [watched |-> TRUE, mask |-> desired])
<1>1. CASE g.state.in_epoll /\ g.state.registered = desired
  <2>1. s = g
    BY <1>1 DEF Sync
  <2>2. Agree(g.state, g.watch)
    BY <1>1 DEF Agree, InStepFor
  <2> QED
    BY <1>1, <2>1, <2>2
<1>2. CASE ~(g.state.in_epoll /\ g.state.registered = desired)
  <2>1. s = new
    BY <1>2 DEF Sync
  <2>2. /\ new.state = [known |-> TRUE, in_epoll |-> TRUE, registered |-> desired]
        /\ new.watch = [watched |-> TRUE, mask |-> desired]
    BY DEF Registration
  <2> HIDE DEF new
  <2>3. new.state \in States /\ new.watch \in Watches
    BY <2>2 DEF States, Watches
  <2>4. new.state.known /\ new.state.in_epoll /\ new.state.registered = desired
    BY <2>2
  <2>5. Agree(new.state, new.watch)
    BY <2>2, <2>3, <2>4 DEF Agree
  <2> QED
    BY <2>1, <2>4, <2>5
<1> QED
  BY <1>1, <1>2

(* A rule that is alive after the first loop, with the record of its file. *)
ReadyRule(r, fs, regs) ==
    Live(r) => /\ r.file \in Files /\ fs[r.file].open /\ ~r.cancel_requested
               /\ r.direction \in Directions
               /\ regs[r.file].state.known

GoodRegs(fs, regs) ==
    /\ DOMAIN regs = Files
    /\ \A f \in Files : /\ regs[f] = Registration(regs[f].state, regs[f].watch)
                        /\ regs[f].state \in States /\ regs[f].watch \in Watches
                        /\ InStepFor(regs[f].state, regs[f].watch, fs[f].open)

(* After the second loop record and kernel agree on every file, a closed   *)
(* file is not watched, and what a rule is interested in is               *)
(* (epoll_eventloop.cc:203-226).                                           *)
LEMMA RegisteredAgrees ==
  ASSUME NEW rs, NEW fs, NEW regs, GoodRegs(fs, regs), \A k \in DOMAIN rs : ReadyRule(rs[k], fs, regs),
         NEW g, g = Registered(rs, regs), NEW f \in Files
  PROVE  /\ Agree(g[f].state, g[f].watch)
         /\ ~fs[f].open => g[f].watch = NoWatch
         /\ \A k \in DOMAIN rs : Live(rs[k]) /\ rs[k].file = f =>
                /\ g[f].state.known /\ g[f].state.in_epoll
                /\ rs[k].interested => rs[k].direction \in g[f].state.registered
<1> DEFINE x == regs[f]
           desired == Desired(rs, f)
<1>1. /\ x = Registration(x.state, x.watch) /\ x.state \in States /\ x.watch \in Watches
      /\ InStepFor(x.state, x.watch, fs[f].open)
  BY DEF GoodRegs
<1>2. g[f] = IF x.state.known /\ RulesOn(rs, f) # {} THEN Sync(x, desired)
             ELSE Registration(NoState, IF x.state.in_epoll THEN NoWatch ELSE x.watch)
  BY DEF Registered, GoodRegs
<1>3. CASE x.state.known /\ RulesOn(rs, f) # {}
  <2>1. PICK k \in DOMAIN rs : Live(rs[k]) /\ rs[k].file = f
    BY <1>3 DEF RulesOn
  <2>2. fs[f].open
    BY <2>1 DEF ReadyRule
  <2>3. desired \in SUBSET Directions
    BY DEF Desired, RulesOn, ReadyRule
  <2>4. \A j \in DOMAIN rs : Live(rs[j]) /\ rs[j].file = f /\ rs[j].interested => rs[j].direction \in desired
    BY DEF Desired, RulesOn, ReadyRule
  <2>5. g[f] = Sync(x, desired)
    BY <1>2, <1>3
  <2>6. InStepFor(x.state, x.watch, TRUE)
    BY <1>1, <2>2 DEF InStepFor
  <2> HIDE DEF x, desired
  <2>7. /\ Agree(g[f].state, g[f].watch) /\ g[f].state.known /\ g[f].state.in_epoll
        /\ g[f].state.registered = desired
    BY <1>1, <1>3, <2>3, <2>5, <2>6, SyncAgrees
  <2> QED
    BY <2>2, <2>4, <2>7
<1>4. CASE ~(x.state.known /\ RulesOn(rs, f) # {})
  <2>1. g[f] = Registration(NoState, NoWatch)
    BY <1>1, <1>2, <1>4 DEF InStepFor
  <2>2. g[f].state = NoState /\ g[f].watch = NoWatch
    BY <2>1 DEF Registration
  <2>3. Agree(NoState, NoWatch)
    BY DEF Agree, NoState, NoWatch, States, Watches
  <2>4. \A k \in DOMAIN rs : ~(Live(rs[k]) /\ rs[k].file = f)
    BY <1>4 DEF RulesOn, ReadyRule
  <2> QED
    BY <2>2, <2>3, <2>4
<1> QED
  BY <1>3, <1>4

(* What is served is alive and ready for it; what is left alive is on      *)
(* record; record and kernel agree.  A wait that exits leaves nobody       *)
(* interested, one that times out nobody who could be served, and one that *)
(* succeeds nobody whose file is broken (epoll_eventloop.cc:182-365).      *)
LEMMA EpollOutcome ==
  ASSUME NEW rs, NEW fs, NEW regs, NEW first \in Files \cup {NoFile}, DOMAIN fs = Files,
         \A k \in DOMAIN rs : GoodRule(rs[k]),
         \A k \in DOMAIN rs : Live(rs[k]) => regs[rs[k].file].state.known,
         GoodRegs(fs, regs), NEW wait, wait = EpollWait(rs, fs, regs, first)
  PROVE  /\ wait.pass.rules = [k \in DOMAIN rs |-> wait.pass.rules[k]]
         /\ \A k \in DOMAIN rs : wait.pass.rules[k] = rs[k] \/ wait.pass.rules[k] = Gone
         /\ \A k \in wait.pass.served : /\ k \in DOMAIN rs /\ Live(rs[k])
                                        /\ rs[k].direction \in Conditions(fs[rs[k].file])
         /\ wait.result \in {"Exit", "Interrupted", "Timeout", "Success"}
         /\ wait.result # "Success" => wait.pass.served = {}
         /\ \A f \in Files : Agree(wait.reg[f].state, wait.reg[f].watch)
                             /\ (~fs[f].open => wait.reg[f].watch = NoWatch)
         /\ \A k \in DOMAIN rs : Live(wait.pass.rules[k]) => wait.reg[rs[k].file].state.known
         /\ wait.result = "Exit" =>
                \A k \in DOMAIN rs : Live(wait.pass.rules[k]) => ~rs[k].interested
         /\ wait.result = "Timeout" =>
                \A k \in DOMAIN rs : Live(wait.pass.rules[k]) /\ rs[k].interested =>
                    rs[k].direction \notin Conditions(fs[rs[k].file])
         /\ wait.result = "Success" =>
                \A k \in DOMAIN rs : Live(wait.pass.rules[k]) => ~fs[rs[k].file].broken
<1> DEFINE ready == SetUp(rs, fs)
           R == ready.rules
           reg == Registered(R, regs)
           revents == [f \in DOMAIN fs |-> Revents(fs[f], reg[f].watch)]
           fates1 == [k \in DOMAIN rs |-> FailBroken(revents, R[k])]
           failed == GoThrough(fs, ready, fates1)
           F == failed.rules
           fates2 == [k \in DOMAIN rs |-> EpollRule(first, revents[first], F[k])]
           searched == GoThrough(fs, failed, fates2)
           able == {f \in DOMAIN fs : revents[f] # {} /\ "ERR" \notin revents[f]}
           after == [f \in DOMAIN fs |-> IF "ERR" \in revents[f] THEN Registration(NoState, NoWatch)
                                         ELSE reg[f]]
           nothing == \A f \in DOMAIN fs : reg[f].state.registered = {}
           quiet == \A f \in DOMAIN fs : revents[f] = {}
<1>1. wait = IF nothing THEN [pass |-> ready, result |-> "Exit", reg |-> reg, able |-> able]
             ELSE IF first = NoFile
                  THEN [pass |-> ready, result |-> "Interrupted", reg |-> reg, able |-> able]
             ELSE IF quiet THEN [pass |-> ready, result |-> "Timeout", reg |-> reg, able |-> able]
             ELSE [pass |-> IF able = {} THEN failed ELSE searched, result |-> "Success",
                   reg |-> after, able |-> able]
  BY DEF EpollWait
<1>2. ~Live(Gone)
  BY GoneIsGood
<1>3. /\ R = [k \in DOMAIN rs |-> R[k]]
      /\ \A k \in DOMAIN rs : R[k] = rs[k] \/ R[k] = Gone
      /\ ready.served = {}
      /\ \A k \in DOMAIN rs : Live(R[k]) => ~rs[k].cancel_requested /\ fs[rs[k].file].open
  BY SetUpRules
<1> HIDE DEF ready
<1>4. DOMAIN R = DOMAIN rs /\ \A k \in DOMAIN rs : Live(R[k]) => R[k] = rs[k]
  BY <1>2, <1>3
<1>5. \A k \in DOMAIN rs : ReadyRule(R[k], fs, regs)
  BY <1>3, <1>4 DEF ReadyRule, GoodRule
<1> HIDE DEF R
<1>6. \A f \in Files :
         /\ Agree(reg[f].state, reg[f].watch)
         /\ ~fs[f].open => reg[f].watch = NoWatch
         /\ \A k \in DOMAIN rs : Live(R[k]) /\ R[k].file = f =>
                /\ reg[f].state.known /\ reg[f].state.in_epoll
                /\ R[k].interested => R[k].direction \in reg[f].state.registered
  BY <1>4, <1>5, RegisteredAgrees
<1> HIDE DEF reg
<1>7. \A k \in DOMAIN rs : Live(R[k]) =>
         /\ R[k] = rs[k] /\ rs[k].file \in Files /\ rs[k].direction \in Directions
         /\ reg[rs[k].file].state.known
         /\ reg[rs[k].file].watch.watched
         /\ rs[k].interested => /\ rs[k].direction \in reg[rs[k].file].state.registered
                                /\ rs[k].direction \in reg[rs[k].file].watch.mask
  <2> SUFFICES ASSUME NEW k \in DOMAIN rs, Live(R[k])
               PROVE  /\ R[k] = rs[k] /\ rs[k].file \in Files /\ rs[k].direction \in Directions
                      /\ reg[rs[k].file].state.known
                      /\ reg[rs[k].file].watch.watched
                      /\ rs[k].interested => /\ rs[k].direction \in reg[rs[k].file].state.registered
                                             /\ rs[k].direction \in reg[rs[k].file].watch.mask
    OBVIOUS
  <2> DEFINE f == rs[k].file
  <2>1. R[k] = rs[k] /\ f \in Files /\ rs[k].direction \in Directions
    BY <1>4, <1>5 DEF ReadyRule
  <2>2. /\ reg[f].state.known /\ reg[f].state.in_epoll
        /\ rs[k].interested => rs[k].direction \in reg[f].state.registered
    BY <1>6, <2>1
  <2>3. reg[f].watch = [watched |-> TRUE, mask |-> reg[f].state.registered]
    BY <1>6, <2>1, <2>2 DEF Agree
  <2> QED
    BY <2>1, <2>2, <2>3
<1>8. \A f \in Files : /\ "In" \in revents[f] => "In" \in Conditions(fs[f])
                       /\ "Out" \in revents[f] => "Out" \in Conditions(fs[f])
                       /\ reg[f].watch.watched /\ fs[f].broken => "ERR" \in revents[f]
                       /\ reg[f].watch.watched => (reg[f].watch.mask \cap Conditions(fs[f])) \subseteq revents[f]
  BY DEF Revents
<1>9. DOMAIN after = Files /\ \A f \in Files : /\ "ERR" \in revents[f] => after[f] = Registration(NoState, NoWatch)
                                               /\ "ERR" \notin revents[f] => after[f] = reg[f]
  OBVIOUS
<1>10. DOMAIN fates1 = DOMAIN rs /\ DOMAIN fates2 = DOMAIN rs
  OBVIOUS
<1>11. \A k \in DOMAIN rs : /\ fates1[k] # "served"
                            /\ Live(R[k]) /\ "ERR" \in revents[R[k].file] => fates1[k] \in Erased
  BY DEF FailBroken, Erased
<1>12. \A k \in DOMAIN rs : fates2[k] = "served" =>
          Live(F[k]) /\ F[k].file = first /\ F[k].direction \in revents[first]
  BY DEF EpollRule
<1> HIDE DEF revents, after, able, fates1, fates2
<1>13. /\ F = [k \in DOMAIN rs |-> F[k]]
       /\ \A k \in DOMAIN rs : F[k] = R[k] \/ F[k] = Gone
       /\ \A k \in DOMAIN rs : fates1[k] \in Erased => F[k] = Gone
       /\ failed.served = {}
  BY <1>10, <1>11, ThroughRules DEF R
<1> HIDE DEF failed
<1>14. /\ searched.rules = [k \in DOMAIN rs |-> searched.rules[k]]
       /\ \A k \in DOMAIN rs : searched.rules[k] = F[k] \/ searched.rules[k] = Gone
       /\ searched.served \subseteq {k \in DOMAIN rs : fates2[k] = "served"}
  BY <1>10, ThroughRules
<1> HIDE DEF searched, F
<1>15. \A k \in DOMAIN rs : Live(F[k]) => /\ F[k] = rs[k] /\ Live(R[k]) /\ "ERR" \notin revents[rs[k].file]
  BY <1>2, <1>4, <1>11, <1>13
<1>16. CASE nothing
  <2>1. wait.pass = ready /\ wait.result = "Exit" /\ wait.reg = reg
    BY <1>1, <1>16
  <2>2. \A k \in DOMAIN rs : Live(R[k]) => ~rs[k].interested
    BY <1>7, <1>16
  <2> HIDE DEF nothing, quiet
  <2> QED
    BY <1>3, <1>6, <1>7, <2>1, <2>2 DEF R
<1>17. CASE ~nothing /\ first = NoFile
  <2>1. wait.pass = ready /\ wait.result = "Interrupted" /\ wait.reg = reg
    BY <1>1, <1>17
  <2> HIDE DEF nothing, quiet
  <2> QED
    BY <1>3, <1>6, <1>7, <2>1 DEF R
<1>18. CASE ~nothing /\ first # NoFile /\ quiet
  <2>1. wait.pass = ready /\ wait.result = "Timeout" /\ wait.reg = reg
    BY <1>1, <1>18
  <2>2. \A k \in DOMAIN rs : Live(R[k]) /\ rs[k].interested => rs[k].direction \notin Conditions(fs[rs[k].file])
    <3> SUFFICES ASSUME NEW k \in DOMAIN rs, Live(R[k]), rs[k].interested,
                        rs[k].direction \in Conditions(fs[rs[k].file])
                 PROVE  FALSE
      OBVIOUS
    <3>1. rs[k].direction \in revents[rs[k].file]
      BY <1>7, <1>8
    <3> QED
      BY <1>7, <1>18, <3>1
  <2> HIDE DEF nothing, quiet
  <2> QED
    BY <1>3, <1>6, <1>7, <2>1, <2>2 DEF R
<1>19. CASE ~nothing /\ first # NoFile /\ ~quiet
  <2> DEFINE end == IF able = {} THEN failed ELSE searched
  <2>1. wait.pass = end /\ wait.result = "Success" /\ wait.reg = after
    BY <1>1, <1>19
  <2> HIDE DEF nothing, quiet
  <2>2. /\ end.rules = [k \in DOMAIN rs |-> end.rules[k]]
        /\ \A k \in DOMAIN rs : end.rules[k] = F[k] \/ end.rules[k] = Gone
        /\ end.served \subseteq {k \in DOMAIN rs : fates2[k] = "served"}
    <3>1. CASE able = {}
      BY <1>13, <3>1 DEF F
    <3>2. CASE able # {}
      BY <1>14, <3>2
    <3> QED
      BY <3>1, <3>2
  <2> HIDE DEF end
  <2>3. \A k \in DOMAIN rs : end.rules[k] = rs[k] \/ end.rules[k] = Gone
    BY <1>3, <1>13, <2>2 DEF R
  <2>4. \A k \in DOMAIN rs : Live(end.rules[k]) => Live(F[k])
    BY <1>2, <2>2
  <2>5. \A k \in end.served : /\ k \in DOMAIN rs /\ Live(rs[k])
                              /\ rs[k].direction \in Conditions(fs[rs[k].file])
    <3> SUFFICES ASSUME NEW k \in end.served
                 PROVE  /\ k \in DOMAIN rs /\ Live(rs[k])
                        /\ rs[k].direction \in Conditions(fs[rs[k].file])
      OBVIOUS
    <3>1. k \in DOMAIN rs /\ Live(F[k]) /\ F[k].file = first /\ F[k].direction \in revents[first]
      BY <1>12, <2>2
    <3>2. first \in Files
      BY <1>19
    <3>3. F[k] = rs[k] /\ Live(rs[k]) /\ rs[k].direction \in Directions
      BY <1>7, <1>15, <3>1
    <3> QED
      BY <1>8, <3>1, <3>2, <3>3 DEF Directions
  <2>6. \A f \in Files : Agree(after[f].state, after[f].watch) /\ (~fs[f].open => after[f].watch = NoWatch)
    <3> SUFFICES ASSUME NEW f \in Files
                 PROVE  Agree(after[f].state, after[f].watch) /\ (~fs[f].open => after[f].watch = NoWatch)
      OBVIOUS
    <3>1. CASE "ERR" \in revents[f]
      <4>1. after[f].state = NoState /\ after[f].watch = NoWatch
        BY <1>9, <3>1 DEF Registration
      <4>2. Agree(NoState, NoWatch)
        BY DEF Agree, NoState, NoWatch, States, Watches
      <4> QED
        BY <4>1, <4>2
    <3>2. CASE "ERR" \notin revents[f]
      BY <1>6, <1>9, <3>2
    <3> QED
      BY <3>1, <3>2
  <2>7. \A k \in DOMAIN rs : Live(end.rules[k]) => after[rs[k].file].state.known
    BY <1>7, <1>9, <1>15, <2>4
  <2>8. \A k \in DOMAIN rs : Live(end.rules[k]) => ~fs[rs[k].file].broken
    BY <1>7, <1>8, <1>15, <2>4
  <2> QED
    BY <2>1, <2>2, <2>3, <2>5, <2>6, <2>7, <2>8
<1> QED
  BY <1>16, <1>17, <1>18, <1>19

-----------------------------------------------------------------------------
(* The invariant *)

(* The callback of a served rule leaves a good file: it reads what is      *)
(* there, and finds the end only where there is one.  It neither closes    *)
(* nor mends a file.                                                       *)
LEMMA AfterReadIsGood ==
  ASSUME Types, NEW pass, NEW fs, fs = AfterRead(pass),
         \A k \in pass.served : /\ k \in Slots /\ Live(rules[k])
                                /\ rules[k].direction \in Conditions(files[rules[k].file])
  PROVE  /\ fs = [f \in Files |-> fs[f]]
         /\ \A f \in Files : /\ GoodFile(fs[f])
                             /\ fs[f].open = files[f].open
                             /\ fs[f].broken = files[f].broken
         /\ pass.served = {} => \A f \in Files : fs[f] = files[f]
<1> DEFINE read(f) == \E k \in pass.served : rules[k].direction = "In" /\ rules[k].file = f
<1>1. fs = [f \in Files |-> IF ~read(f) THEN files[f]
                            ELSE IF files[f].unread > 0 THEN [files[f] EXCEPT !.unread = @ - 1]
                            ELSE [files[f] EXCEPT !.eof = TRUE]]
  BY DEF AfterRead
<1>2. fs = [f \in Files |-> fs[f]]
  BY <1>1
<1>3. pass.served = {} => \A f \in Files : fs[f] = files[f]
  BY <1>1
<1>4. \A f \in Files : read(f) => files[f].unread > 0 \/ files[f].ended
  BY DEF Conditions
<1> HIDE DEF read
<1>5. ASSUME NEW f \in Files
      PROVE  GoodFile(fs[f]) /\ fs[f].open = files[f].open /\ fs[f].broken = files[f].broken
  <2> DEFINE file == files[f]
  <2>1. GoodFile(file)
    BY DEF Types
  <2>2. fs[f] = IF ~read(f) THEN file
                ELSE IF file.unread > 0 THEN [file EXCEPT !.unread = @ - 1]
                ELSE [file EXCEPT !.eof = TRUE]
    BY <1>1
  <2>3. read(f) => file.unread > 0 \/ file.ended
    BY <1>4
  <2> HIDE DEF file
  <2>4. CASE ~read(f)
    BY <2>1, <2>2, <2>4 DEF file
  <2>5. CASE read(f) /\ file.unread > 0
    <3>1. fs[f] = [file EXCEPT !.unread = @ - 1]
      BY <2>2, <2>5
    <3>2. file.unread \in Nat /\ file.unread - 1 \in Nat /\ ~file.eof
      BY <2>1, <2>5 DEF GoodFile
    <3>3. GoodFile(fs[f])
      BY <2>1, <3>1, <3>2 DEF GoodFile
    <3>4. fs[f].open = file.open /\ fs[f].broken = file.broken
      BY <2>1, <3>1 DEF GoodFile
    <3> QED
      BY <3>3, <3>4 DEF file
  <2>6. CASE read(f) /\ ~(file.unread > 0)
    <3>1. fs[f] = [file EXCEPT !.eof = TRUE]
      BY <2>2, <2>6
    <3>2. file.unread = 0 /\ file.ended
      BY <2>1, <2>3, <2>6 DEF GoodFile
    <3>3. GoodFile(fs[f])
      BY <2>1, <3>1, <3>2 DEF GoodFile
    <3>4. fs[f].open = file.open /\ fs[f].broken = file.broken
      BY <2>1, <3>1 DEF GoodFile
    <3> QED
      BY <3>3, <3>4 DEF file
  <2> QED
    BY <2>4, <2>5, <2>6
<1> QED
  BY <1>2, <1>3, <1>5

(* What the runs check. *)
Promises == /\ NothingUnreadIsAbandoned /\ RegistrationIsCurrent
            /\ NoLostWakeup /\ ErrorsAreHandledEagerly

(* The initial states *)
LEMMA LoopStarts == Init => LoopInv /\ Promises
<1> SUFFICES ASSUME Init PROVE LoopInv /\ Promises
  OBVIOUS
<1>1. GoodRule(NoRule) /\ ~Live(NoRule)
  BY DEF GoodRule, NoRule, Live, Directions
<1>2. GoodFile(NewFile)
  BY DEF GoodFile, NewFile
<1>3. NoState \in [known : BOOLEAN, in_epoll : BOOLEAN, registered : SUBSET Directions]
  BY DEF NoState
<1>4. NoWatch \in [watched : BOOLEAN, mask : SUBSET Directions]
  BY DEF NoWatch
<1>5. Types
  <2>1. backend \in {"poll", "epoll"}
    BY EventLoopAssumption DEF Init
  <2>2. rules = [k \in Slots |-> rules[k]] /\ \A k \in Slots : GoodRule(rules[k])
    BY <1>1 DEF Init
  <2>3. files = [f \in Files |-> files[f]] /\ \A f \in Files : GoodFile(files[f])
    BY <1>2 DEF Init
  <2>4. fd_states \in [Files -> [known : BOOLEAN, in_epoll : BOOLEAN, registered : SUBSET Directions]]
    BY <1>3 DEF Init
  <2>5. kernel \in [Files -> [watched : BOOLEAN, mask : SUBSET Directions]]
    BY <1>4 DEF Init
  <2> QED
    BY <2>1, <2>2, <2>3, <2>4, <2>5 DEF Types
<1>6. \A k \in Slots : ~Live(rules[k])
  BY <1>1 DEF Init
<1>7. \A f \in Files : fd_states[f] = NoState /\ kernel[f] = NoWatch
  BY DEF Init
<1>8. ~NoState.in_epoll /\ NoState.registered = {}
  BY DEF NoState
<1>9. InStep
  BY <1>7, <1>8 DEF InStep, InStepFor
<1>10. Promises
  BY <1>6 DEF Promises, NothingUnreadIsAbandoned, CutsNothingOff, RegistrationIsCurrent, NoLostWakeup,
              ErrorsAreHandledEagerly, Init
<1> QED
  BY <1>5, <1>6, <1>9, <1>10 DEF LoopInv, RulesKnown

(* Between two calls there is nothing to promise. *)
LEMMA BetweenPromises == Between => Promises'
<1> SUFFICES ASSUME Between PROVE Promises'
  OBVIOUS
<1>1. result' = "none" /\ calls' = <<>>
  BY DEF Between
<1>2. NothingUnreadIsAbandoned'
  BY <1>1 DEF NothingUnreadIsAbandoned, CutsNothingOff
<1>3. RegistrationIsCurrent'
  BY <1>1 DEF RegistrationIsCurrent
<1>4. NoLostWakeup'
  BY <1>1 DEF NoLostWakeup
<1>5. ErrorsAreHandledEagerly'
  BY <1>1 DEF ErrorsAreHandledEagerly
<1> QED
  BY <1>2, <1>3, <1>4, <1>5 DEF Promises

(* The actions of the owner and of the world keep what has to hold at all  *)
(* times.  The first three change files or records, ...                    *)
LEMMA FilesStep ==
  ASSUME LoopInv, NEW f \in Files, CloseFile(f) \/ OpenFile(f) \/ FileEvent(f)
  PROVE  LoopInv'
<1>1. rules' = rules /\ fd_states' = fd_states /\ backend' = backend
  BY DEF CloseFile, OpenFile, FileEvent, Between
<1>2. /\ files = [x \in Files |-> files[x]] /\ \A x \in Files : GoodFile(files[x])
      /\ kernel \in [Files -> [watched : BOOLEAN, mask : SUBSET Directions]]
  BY DEF LoopInv, Types
<1>3. PICK file : files' = [files EXCEPT ![f] = file] /\ GoodFile(file)
                  /\ file.open = IF CloseFile(f) THEN FALSE ELSE TRUE
  <2>1. CASE CloseFile(f)
    <3> DEFINE file == [NewFile EXCEPT !.open = FALSE]
    <3>1. files' = [files EXCEPT ![f] = file]
      BY <2>1 DEF CloseFile
    <3>2. GoodFile(file) /\ file.open = FALSE
      BY DEF GoodFile, NewFile
    <3> HIDE DEF file
    <3> QED
      BY <2>1, <3>1, <3>2
  <2>2. CASE OpenFile(f)
    <3>1. files' = [files EXCEPT ![f] = NewFile] /\ ~files[f].open
      BY <2>2 DEF OpenFile
    <3>2. GoodFile(NewFile) /\ NewFile.open = TRUE
      BY DEF GoodFile, NewFile
    <3>3. ~CloseFile(f)
      BY <3>1 DEF CloseFile
    <3> QED
      BY <3>1, <3>2, <3>3
  <2>3. CASE FileEvent(f)
    <3> DEFINE old == files[f]
    <3>1. GoodFile(old) /\ old.open = TRUE
      BY <1>2, <2>3 DEF FileEvent, GoodFile
    <3>2. \/ old.unread < MaxUnread /\ ~old.ended /\ files' = [files EXCEPT ![f] = [old EXCEPT !.unread = @ + 1]]
          \/ files' = [files EXCEPT ![f] = [old EXCEPT !.ended = TRUE]]
          \/ files' = [files EXCEPT ![f] = [old EXCEPT !.room = ~@]]
          \/ files' = [files EXCEPT ![f] = [old EXCEPT !.hung = TRUE]]
          \/ files' = [files EXCEPT ![f] = [old EXCEPT !.broken = TRUE]]
      BY <2>3 DEF FileEvent
    <3> HIDE DEF old
    <3>3. ~old.ended => GoodFile([old EXCEPT !.unread = @ + 1])
      BY <3>1 DEF GoodFile
    <3>4. /\ GoodFile([old EXCEPT !.ended = TRUE]) /\ GoodFile([old EXCEPT !.room = ~@])
          /\ GoodFile([old EXCEPT !.hung = TRUE]) /\ GoodFile([old EXCEPT !.broken = TRUE])
      BY <3>1 DEF GoodFile
    <3>5. /\ [old EXCEPT !.unread = @ + 1].open = TRUE
          /\ [old EXCEPT !.ended = TRUE].open = TRUE /\ [old EXCEPT !.room = ~@].open = TRUE
          /\ [old EXCEPT !.hung = TRUE].open = TRUE /\ [old EXCEPT !.broken = TRUE].open = TRUE
      BY <3>1 DEF GoodFile
    <3>6. PICK file : files' = [files EXCEPT ![f] = file] /\ GoodFile(file) /\ file.open = TRUE
      BY <3>2, <3>3, <3>4, <3>5
    <3>7. ~CloseFile(f)
      <4>1. files'[f] = file
        BY <1>2, <3>6
      <4>2. CloseFile(f) => files'[f].open = FALSE
        BY <1>2 DEF CloseFile, NewFile
      <4> QED
        BY <3>6, <4>1, <4>2
    <3> QED
      BY <3>6, <3>7
  <2> QED
    BY <2>1, <2>2, <2>3
<1>4. kernel' = IF CloseFile(f) THEN [kernel EXCEPT ![f] = NoWatch] ELSE kernel
  BY DEF CloseFile, OpenFile, FileEvent
<1>5. /\ files' = [x \in Files |-> files'[x]] /\ \A x \in Files : GoodFile(files'[x])
      /\ \A x \in Files : x # f => files'[x] = files[x]
      /\ files'[f] = file
  BY <1>2, <1>3
<1>6. NoWatch \in [watched : BOOLEAN, mask : SUBSET Directions]
  BY DEF NoWatch
<1>7. /\ kernel' \in [Files -> [watched : BOOLEAN, mask : SUBSET Directions]]
      /\ \A x \in Files : x # f => kernel'[x] = kernel[x]
      /\ CloseFile(f) => kernel'[f] = NoWatch
      /\ ~CloseFile(f) => kernel'[f] = kernel[f]
  BY <1>2, <1>4, <1>6
<1>8. Types'
  BY <1>1, <1>5, <1>7 DEF LoopInv, Types
<1>9. \A x \in Files : InStepFor(fd_states[x], kernel'[x], files'[x].open)
  <2> SUFFICES ASSUME NEW x \in Files PROVE InStepFor(fd_states[x], kernel'[x], files'[x].open)
    OBVIOUS
  <2>1. InStepFor(fd_states[x], kernel[x], files[x].open)
    BY DEF LoopInv, InStep
  <2>2. CASE x # f
    BY <1>5, <1>7, <2>1, <2>2
  <2>3. CASE x = f /\ CloseFile(f)
    <3>1. files'[x].open = FALSE /\ kernel'[x] = NoWatch
      BY <1>3, <1>5, <1>7, <2>3
    <3> QED
      BY <2>1, <3>1 DEF InStepFor
  <2>4. CASE x = f /\ OpenFile(f)
    <3>1. ~fd_states[x].known /\ ~files[x].open
      BY <2>4 DEF OpenFile
    <3>2. ~fd_states[x].in_epoll /\ fd_states[x].registered = {} /\ kernel[x] = NoWatch
      BY <2>1, <3>1 DEF InStepFor
    <3>3. files'[x].open = TRUE /\ kernel'[x] = NoWatch
      BY <1>3, <1>5, <1>7, <2>4, <3>1, <3>2 DEF CloseFile
    <3> QED
      BY <3>2, <3>3 DEF InStepFor
  <2>5. CASE x = f /\ FileEvent(f) /\ ~CloseFile(f)
    <3>1. files'[x].open = TRUE /\ kernel'[x] = kernel[x] /\ files[x].open
      BY <1>3, <1>5, <1>7, <2>5 DEF FileEvent
    <3> QED
      BY <2>1, <3>1 DEF InStepFor
  <2> QED
    BY <2>2, <2>3, <2>4, <2>5
<1>10. InStep' /\ RulesKnown'
  BY <1>1, <1>9 DEF LoopInv, InStep, RulesKnown
<1> QED
  BY <1>8, <1>10 DEF LoopInv

(* ... the others rules.  A file that gets a rule gets a record. *)
LEMMA RulesStep ==
  ASSUME LoopInv, NEW k \in Slots,
         (\E f \in Files, direction \in {"In", "Out"} : AddRule(k, f, direction))
            \/ RequestCancel(k) \/ ChangeInterest(k)
  PROVE  LoopInv'
<1>1. /\ rules = [j \in Slots |-> rules[j]] /\ \A j \in Slots : GoodRule(rules[j])
      /\ fd_states \in [Files -> States] /\ backend \in {"poll", "epoll"}
  BY DEF LoopInv, Types, States
<1>2. files' = files /\ kernel' = kernel /\ backend' = backend
  BY DEF AddRule, RequestCancel, ChangeInterest, Between
<1>3. CASE RequestCancel(k) \/ ChangeInterest(k)
  <2> DEFINE old == rules[k]
  <2>1. /\ fd_states' = fd_states /\ Live(old)
        /\ \/ rules' = [rules EXCEPT ![k] = [old EXCEPT !.cancel_requested = TRUE]]
           \/ rules' = [rules EXCEPT ![k] = [old EXCEPT !.interested = ~@]]
    BY <1>3 DEF RequestCancel, ChangeInterest
  <2>2. GoodRule(old)
    BY <1>1
  <2> HIDE DEF old
  <2>3. /\ GoodRule([old EXCEPT !.cancel_requested = TRUE])
        /\ [old EXCEPT !.cancel_requested = TRUE].file = old.file
        /\ GoodRule([old EXCEPT !.interested = ~@]) /\ [old EXCEPT !.interested = ~@].file = old.file
    BY <2>2 DEF GoodRule, Live
  <2>4. PICK new : rules' = [rules EXCEPT ![k] = new] /\ GoodRule(new) /\ new.file = old.file
    BY <2>1, <2>3
  <2>5. /\ rules' = [j \in Slots |-> rules'[j]] /\ rules'[k] = new
        /\ \A j \in Slots : j # k => rules'[j] = rules[j]
    BY <1>1, <2>4
  <2>6. \A j \in Slots : /\ GoodRule(rules'[j])
                         /\ Live(rules'[j]) => Live(rules[j]) /\ rules'[j].file = rules[j].file
    BY <1>1, <2>1, <2>4, <2>5 DEF old
  <2>7. Types'
    BY <1>2, <2>1, <2>5, <2>6 DEF LoopInv, Types
  <2>8. InStep' /\ RulesKnown'
    BY <1>2, <2>1, <2>6 DEF LoopInv, InStep, RulesKnown
  <2> QED
    BY <2>7, <2>8 DEF LoopInv
<1>4. CASE \E f \in Files, direction \in {"In", "Out"} : AddRule(k, f, direction)
  <2>1. PICK f \in Files, direction \in {"In", "Out"} : AddRule(k, f, direction)
    BY <1>4
  <2> DEFINE new == [NoRule EXCEPT !.state = "live", !.file = f, !.direction = direction, !.interested = TRUE]
             known == backend = "epoll"
             state == [fd_states[f] EXCEPT !.known = known]
  <2>2. rules' = [rules EXCEPT ![k] = new]
    BY <2>1 DEF AddRule
  <2>3. fd_states' = [fd_states EXCEPT ![f] = state]
    BY <2>1 DEF AddRule
  <2>4. GoodRule(new) /\ new.file = f
    BY DEF GoodRule, NoRule, Live, Directions
  <2>5. known \in BOOLEAN
    OBVIOUS
  <2>6. fd_states[f] \in States
    BY <1>1
  <2>7. state \in States /\ state.in_epoll = fd_states[f].in_epoll
        /\ state.registered = fd_states[f].registered /\ (state.known <=> backend = "epoll")
    <3> HIDE DEF known
    <3>1. state.known = known
      BY <2>6 DEF States
    <3>2. state \in States /\ state.in_epoll = fd_states[f].in_epoll /\ state.registered = fd_states[f].registered
      BY <2>5, <2>6 DEF States
    <3> QED
      BY <3>1, <3>2 DEF known
  <2> HIDE DEF new, state, known
  <2>8. /\ rules' = [j \in Slots |-> rules'[j]] /\ rules'[k] = new
        /\ \A j \in Slots : j # k => rules'[j] = rules[j]
    BY <1>1, <2>2
  <2>9. /\ fd_states' \in [Files -> States] /\ fd_states'[f] = state
        /\ \A x \in Files : x # f => fd_states'[x] = fd_states[x]
    BY <1>1, <2>3, <2>7
  <2>10. \A j \in Slots : GoodRule(rules'[j])
    BY <1>1, <2>4, <2>8
  <2>11. Types'
    BY <1>2, <2>8, <2>9, <2>10 DEF LoopInv, Types, States
  <2>12. RulesKnown'
    <3> SUFFICES ASSUME backend = "epoll", NEW j \in Slots, Live(rules'[j])
                 PROVE  fd_states'[rules'[j].file].known
      BY <1>2 DEF RulesKnown
    <3>1. CASE rules'[j].file = f
      BY <2>7, <2>9, <3>1
    <3>2. CASE rules'[j].file # f
      <4>1. j # k /\ rules'[j] = rules[j]
        BY <2>4, <2>8, <3>2
      <4>2. rules[j].file \in Files /\ fd_states[rules[j].file].known
        BY <1>1, <4>1 DEF LoopInv, RulesKnown, GoodRule
      <4> QED
        BY <2>9, <3>2, <4>1, <4>2
    <3> QED
      BY <3>1, <3>2
  <2>13. InStep'
    <3>1. \A x \in Files : InStepFor(fd_states[x], kernel[x], files[x].open)
      BY DEF LoopInv, InStep
    <3>2. backend = "poll" => ~fd_states[f].in_epoll
      BY DEF LoopInv, InStep
    <3>3. InStepFor(state, kernel[f], files[f].open)
      BY <1>1, <2>7, <3>1, <3>2 DEF InStepFor
    <3>4. \A x \in Files : InStepFor(fd_states'[x], kernel[x], files[x].open)
      BY <2>9, <3>1, <3>3
    <3>5. backend = "poll" => \A x \in Files : ~fd_states'[x].in_epoll
      BY <2>7, <2>9 DEF LoopInv, InStep
    <3> QED
      BY <1>2, <3>4, <3>5 DEF InStep
  <2> QED
    BY <2>11, <2>12, <2>13 DEF LoopInv
<1> QED
  BY <1>3, <1>4

(* A wait of the loop over poll(). *)
LEMMA WaitPollStep ==
  ASSUME LoopInv, WaitPoll
  PROVE  LoopInv' /\ Promises'
<1> DEFINE wait == PollWait(rules, files)
<1>1. /\ backend = "poll" /\ backend' = backend /\ fd_states' = fd_states /\ kernel' = kernel
      /\ rules' = wait.pass.rules /\ calls' = wait.pass.calls /\ result' = wait.result
      /\ files' = AfterRead(wait.pass)
  BY DEF WaitPoll, Returns
<1>2. /\ DOMAIN rules = Slots /\ \A k \in Slots : GoodRule(rules[k])
      /\ \A f \in Files : GoodFile(files[f])
      /\ Types
  BY DEF LoopInv, Types
<1>3. \A i \in DOMAIN wait.pass.calls : CutsNothing(wait.pass.calls[i])
  BY <1>2, PollCutsNothing
<1>4. /\ wait.pass.rules = [k \in Slots |-> wait.pass.rules[k]]
      /\ \A k \in Slots : wait.pass.rules[k] = rules[k] \/ wait.pass.rules[k] = Gone
      /\ \A k \in wait.pass.served : /\ k \in Slots /\ Live(rules[k])
                                     /\ rules[k].direction \in Conditions(files[rules[k].file])
      /\ wait.result \in {"Exit", "Timeout", "Success"}
      /\ wait.result # "Success" => wait.pass.served = {}
      /\ wait.result = "Exit" =>
             \A k \in Slots : Live(wait.pass.rules[k]) => ~rules[k].interested
      /\ wait.result = "Timeout" =>
             \A k \in Slots : Live(wait.pass.rules[k]) /\ rules[k].interested =>
                 rules[k].direction \notin Conditions(files[rules[k].file])
  BY <1>2, PollOutcome
<1> HIDE DEF wait
<1>5. /\ files' = [f \in Files |-> files'[f]]
      /\ \A f \in Files : /\ GoodFile(files'[f])
                          /\ files'[f].open = files[f].open
                          /\ files'[f].broken = files[f].broken
      /\ wait.pass.served = {} => \A f \in Files : files'[f] = files[f]
  BY <1>1, <1>2, <1>4, AfterReadIsGood
<1>6. \A k \in Slots : GoodRule(rules'[k]) /\ (Live(rules'[k]) => rules'[k] = rules[k] /\ rules[k].file \in Files)
  BY <1>1, <1>2, <1>4, GoneIsGood DEF GoodRule
<1>7. Types'
  BY <1>1, <1>4, <1>5, <1>6 DEF LoopInv, Types
<1>8. RulesKnown' /\ InStep'
  BY <1>1, <1>5 DEF LoopInv, RulesKnown, InStep
<1>9. NothingUnreadIsAbandoned'
  BY <1>1, <1>3 DEF NothingUnreadIsAbandoned, CutsNothingOff, CutsNothing
<1>10. RegistrationIsCurrent'
  <2> SUFFICES ASSUME NEW f \in Files
               PROVE  kernel[f] = [watched |-> fd_states[f].in_epoll, mask |-> fd_states[f].registered]
    BY <1>1 DEF RegistrationIsCurrent
  <2>1. ~fd_states[f].in_epoll /\ fd_states[f].registered = {} /\ kernel[f] = NoWatch
    BY <1>1 DEF LoopInv, InStep, InStepFor
  <2>2. fd_states[f].in_epoll = FALSE
    BY <2>1 DEF LoopInv, Types
  <2> QED
    BY <2>1, <2>2 DEF NoWatch
<1>11. NoLostWakeup'
  <2> SUFFICES ASSUME NEW k \in Slots, Live(rules'[k]), rules'[k].interested
               PROVE  /\ result' # "Exit"
                      /\ result' = "Timeout" =>
                             rules'[k].direction \notin Conditions(files'[rules'[k].file])
    BY DEF NoLostWakeup
  <2>1. rules'[k] = rules[k] /\ rules[k].file \in Files /\ rules[k].interested
    BY <1>6
  <2>2. result' = "Timeout" => files'[rules[k].file] = files[rules[k].file]
    BY <1>1, <1>4, <1>5, <2>1
  <2> QED
    BY <1>1, <1>4, <2>1, <2>2
<1>12. ErrorsAreHandledEagerly'
  BY <1>1 DEF ErrorsAreHandledEagerly
<1> QED
  BY <1>7, <1>8, <1>9, <1>10, <1>11, <1>12 DEF LoopInv, Promises

(* A wait of the loop over epoll. *)
LEMMA WaitEpollStep ==
  ASSUME LoopInv, NEW first \in Files \cup {NoFile}, WaitEpoll(first)
  PROVE  LoopInv' /\ Promises'
<1> DEFINE regs == [f \in Files |-> Registration(fd_states[f], kernel[f])]
           wait == EpollWait(rules, files, regs, first)
<1>1. /\ backend = "epoll" /\ backend' = backend
      /\ fd_states' = [f \in Files |-> wait.reg[f].state]
      /\ kernel' = [f \in Files |-> wait.reg[f].watch]
      /\ rules' = wait.pass.rules /\ calls' = wait.pass.calls /\ result' = wait.result
      /\ files' = AfterRead(wait.pass)
  BY DEF WaitEpoll, Returns
<1>2. /\ DOMAIN rules = Slots /\ \A k \in Slots : GoodRule(rules[k])
      /\ DOMAIN files = Files
      /\ Types
  BY DEF LoopInv, Types
<1>3. \A f \in Files : regs[f].state = fd_states[f] /\ regs[f].watch = kernel[f]
  BY DEF Registration
<1>4. GoodRegs(files, regs)
  <2>1. \A f \in Files : /\ fd_states[f] \in States /\ kernel[f] \in Watches
                         /\ InStepFor(fd_states[f], kernel[f], files[f].open)
    BY DEF LoopInv, Types, InStep, States, Watches
  <2>2. DOMAIN regs = Files /\ \A f \in Files : regs[f] = Registration(fd_states[f], kernel[f])
    OBVIOUS
  <2> HIDE DEF regs
  <2> QED
    BY <1>3, <2>1, <2>2 DEF GoodRegs
<1>5. \A k \in Slots : Live(rules[k]) => regs[rules[k].file].state.known
  <2> HIDE DEF regs
  <2> QED
    BY <1>1, <1>2, <1>3 DEF LoopInv, RulesKnown, GoodRule
<1> HIDE DEF regs
<1>6. /\ wait.pass.rules = [k \in Slots |-> wait.pass.rules[k]]
      /\ \A k \in Slots : wait.pass.rules[k] = rules[k] \/ wait.pass.rules[k] = Gone
      /\ \A k \in wait.pass.served : /\ k \in Slots /\ Live(rules[k])
                                     /\ rules[k].direction \in Conditions(files[rules[k].file])
      /\ wait.result \in {"Exit", "Interrupted", "Timeout", "Success"}
      /\ wait.result # "Success" => wait.pass.served = {}
      /\ \A f \in Files : Agree(wait.reg[f].state, wait.reg[f].watch)
                          /\ (~files[f].open => wait.reg[f].watch = NoWatch)
      /\ \A k \in Slots : Live(wait.pass.rules[k]) => wait.reg[rules[k].file].state.known
      /\ wait.result = "Exit" =>
             \A k \in Slots : Live(wait.pass.rules[k]) => ~rules[k].interested
      /\ wait.result = "Timeout" =>
             \A k \in Slots : Live(wait.pass.rules[k]) /\ rules[k].interested =>
                 rules[k].direction \notin Conditions(files[rules[k].file])
      /\ wait.result = "Success" =>
             \A k \in Slots : Live(wait.pass.rules[k]) => ~files[rules[k].file].broken
  BY <1>2, <1>4, <1>5, EpollOutcome
<1> HIDE DEF wait
<1>7. /\ files' = [f \in Files |-> files'[f]]
      /\ \A f \in Files : /\ GoodFile(files'[f])
                          /\ files'[f].open = files[f].open
                          /\ files'[f].broken = files[f].broken
      /\ wait.pass.served = {} => \A f \in Files : files'[f] = files[f]
  BY <1>1, <1>2, <1>6, AfterReadIsGood
<1>8. \A k \in Slots : GoodRule(rules'[k]) /\ (Live(rules'[k]) => rules'[k] = rules[k] /\ rules[k].file \in Files)
  BY <1>1, <1>2, <1>6, GoneIsGood DEF GoodRule
<1>9. /\ DOMAIN fd_states' = Files /\ DOMAIN kernel' = Files
      /\ fd_states' = [f \in Files |-> fd_states'[f]] /\ kernel' = [f \in Files |-> kernel'[f]]
      /\ \A f \in Files : /\ fd_states'[f] = wait.reg[f].state /\ kernel'[f] = wait.reg[f].watch
                          /\ Agree(fd_states'[f], kernel'[f])
                          /\ ~files'[f].open => kernel'[f] = NoWatch
  BY <1>1, <1>6, <1>7
<1>10. fd_states' \in [Files -> States] /\ kernel' \in [Files -> Watches]
  BY <1>9 DEF Agree
<1>11. Types'
  BY <1>1, <1>6, <1>7, <1>8, <1>10 DEF LoopInv, Types, States, Watches
<1>12. RulesKnown'
  BY <1>1, <1>6, <1>8, <1>9 DEF RulesKnown
<1>13. InStep'
  <2>1. \A f \in Files : InStepFor(fd_states'[f], kernel'[f], files'[f].open)
    BY <1>9 DEF Agree, InStepFor
  <2> QED
    BY <1>1, <2>1 DEF InStep
<1>14. NothingUnreadIsAbandoned'
  BY <1>1 DEF NothingUnreadIsAbandoned
<1>15. RegistrationIsCurrent'
  <2> SUFFICES ASSUME NEW f \in Files
               PROVE  kernel'[f] = [watched |-> fd_states'[f].in_epoll, mask |-> fd_states'[f].registered]
    BY DEF RegistrationIsCurrent
  <2>1. Agree(fd_states'[f], kernel'[f])
    BY <1>9
  <2>2. CASE fd_states'[f].in_epoll
    <3>1. fd_states'[f].in_epoll = TRUE /\ kernel'[f] = [watched |-> TRUE, mask |-> fd_states'[f].registered]
      BY <2>1, <2>2 DEF Agree, States
    <3> QED
      BY <3>1
  <2>3. CASE ~fd_states'[f].in_epoll
    <3>1. fd_states'[f].in_epoll = FALSE /\ fd_states'[f].registered = {} /\ kernel'[f] = NoWatch
      BY <2>1, <2>3 DEF Agree, States
    <3> QED
      BY <3>1 DEF NoWatch
  <2> QED
    BY <2>2, <2>3
<1>16. NoLostWakeup'
  <2> SUFFICES ASSUME NEW k \in Slots, Live(rules'[k]), rules'[k].interested
               PROVE  /\ result' # "Exit"
                      /\ result' = "Timeout" =>
                             rules'[k].direction \notin Conditions(files'[rules'[k].file])
    BY DEF NoLostWakeup
  <2>1. rules'[k] = rules[k] /\ rules[k].file \in Files /\ rules[k].interested
    BY <1>8
  <2>2. result' = "Timeout" => files'[rules[k].file] = files[rules[k].file]
    BY <1>1, <1>6, <1>7, <2>1
  <2> QED
    BY <1>1, <1>6, <2>1, <2>2
<1>17. ErrorsAreHandledEagerly'
  BY <1>1, <1>6, <1>7, <1>8 DEF ErrorsAreHandledEagerly
<1> QED
  BY <1>11, <1>12, <1>13, <1>14, <1>15, <1>16, <1>17 DEF LoopInv, Promises

(* Every step keeps the invariant and the promises. *)
LEMMA LoopStep == LoopInv /\ Promises /\ [Next]_vars => LoopInv' /\ Promises'
<1> SUFFICES ASSUME LoopInv, Promises, [Next]_vars PROVE LoopInv' /\ Promises'
  OBVIOUS
<1>1. CASE WaitPoll
  BY <1>1, WaitPollStep
<1>2. CASE \E first \in Files \cup {NoFile} : WaitEpoll(first)
  BY <1>2, WaitEpollStep
<1>3. CASE \E f \in Files : CloseFile(f) \/ OpenFile(f) \/ FileEvent(f)
  <2>1. LoopInv'
    BY <1>3, FilesStep
  <2>2. Between
    BY <1>3 DEF CloseFile, OpenFile, FileEvent
  <2> QED
    BY <2>1, <2>2, BetweenPromises
<1>4. CASE \E k \in Slots : (\E f \in Files, direction \in {"In", "Out"} : AddRule(k, f, direction))
                            \/ RequestCancel(k) \/ ChangeInterest(k)
  <2>1. LoopInv'
    BY <1>4, RulesStep
  <2>2. Between
    BY <1>4 DEF AddRule, RequestCancel, ChangeInterest
  <2> QED
    BY <2>1, <2>2, BetweenPromises
<1>5. CASE UNCHANGED vars
  <2>1. LoopInv'
    BY <1>5 DEF LoopInv, Types, RulesKnown, InStep, vars
  <2>2. Promises'
    BY <1>5 DEF Promises, NothingUnreadIsAbandoned, CutsNothingOff, RegistrationIsCurrent, NoLostWakeup,
                ErrorsAreHandledEagerly, vars
  <2> QED
    BY <2>1, <2>2
<1> QED
  BY <1>1, <1>2, <1>3, <1>4, <1>5 DEF Next

LEMMA LoopKeepsPromises == Spec => []Promises
<1>1. Init => LoopInv /\ Promises
  BY LoopStarts
<1>2. (LoopInv /\ Promises) /\ [Next]_vars => (LoopInv /\ Promises)'
  BY LoopStep
<1> QED
  BY <1>1, <1>2, PTL DEF Spec

(* A hangup does not cut off input in the loop over poll(): whoever's      *)
(* cancel() is called there has nothing left to read (eventloop.cc:120-143,*)
(* 167-222).                                                               *)
THEOREM HangupCutsNothingOff == Spec => []NothingUnreadIsAbandoned
<1>1. Promises => NothingUnreadIsAbandoned
  BY DEF Promises
<1> QED
  BY <1>1, LoopKeepsPromises, PTL

(* Whatever was closed, cancelled or changed its mind in between, the mask *)
(* the epoll loop has on record is the one in the kernel after each wait   *)
(* (epoll_eventloop.cc:116-147, 203-226, 285-313).                         *)
THEOREM RegistrationStaysCurrent == Spec => []RegistrationIsCurrent
<1>1. Promises => RegistrationIsCurrent
  BY DEF Promises
<1> QED
  BY <1>1, LoopKeepsPromises, PTL

(* Neither loop times out on a rule that it could serve or exits although  *)
(* somebody is interested (eventloop.cc:120-164,                           *)
(* epoll_eventloop.cc:180-258).                                            *)
THEOREM NoWakeupIsLost == Spec => []NoLostWakeup
<1>1. Promises => NoLostWakeup
  BY DEF Promises
<1> QED
  BY <1>1, LoopKeepsPromises, PTL

(* A wait of the epoll loop that finds anything leaves no rule on a file   *)
(* with an error (epoll_eventloop.cc:246-313, with at most kMaxEvents      *)
(* files: an error beyond the batch waits for the next call).              *)
THEOREM ErrorsLeaveNoRule == Spec => []ErrorsAreHandledEagerly
<1>1. Promises => ErrorsAreHandledEagerly
  BY DEF Promises
<1> QED
  BY <1>1, LoopKeepsPromises, PTL

-----------------------------------------------------------------------------
(* The worker pool *)

Places == {"pop", "not_empty", "handler", "returned", "idle", "push", "not_full"}

(* Producers are at push() or elsewhere, workers at pop() or elsewhere. *)
InRole ==
    /\ \A p \in Producers : at[p] \in {"idle", "push", "not_full"}
    /\ \A w \in Workers : at[w] \in {"pop", "not_empty", "handler", "returned"}

(* What producers have in hand is new, and no two have the same. *)
OnOffer ==
    /\ \A p \in Producers : at[p] # "idle" =>
           item[p] \in Items /\ item[p] \notin refused /\ item[p] \notin Range(accepted)
    /\ \A p, r \in Producers : at[p] # "idle" /\ at[r] # "idle" /\ item[p] = item[r] => p = r

(* The queue is closed once shutdown() has begun; it returns last. *)
OwnerInStep ==
    /\ closed_ <=> owner # "up"
    /\ owner = "down" => \A w \in Workers : at[w] = "returned"

PoolInv == TypeOK /\ InRole /\ OnOffer /\ OwnerInStep /\ EveryItemHasItsPlace

-----------------------------------------------------------------------------
(* Sequences *)

(* Append adds its element to the range. *)
LEMMA RangeOfAppend ==
  ASSUME NEW S, NEW s \in Seq(S), NEW x \in S
  PROVE  Range(Append(s, x)) = Range(s) \cup {x}
<1> DEFINE a == Append(s, x)
<1>1. DOMAIN a = DOMAIN s \cup {Len(s) + 1} /\ a[Len(s) + 1] = x
  OBVIOUS
<1>2. \A i \in DOMAIN s : a[i] = s[i]
  OBVIOUS
<1> HIDE DEF a
<1> QED BY <1>1, <1>2 DEF Range

(* Appending an element that is not there keeps a sequence injective. *)
LEMMA InjectiveAppend ==
  ASSUME NEW S, NEW s \in Seq(S), NEW x \in S, IsInjective(s), x \notin Range(s)
  PROVE  IsInjective(Append(s, x))
BY DEF Range, IsInjective

(* Appending to a concatenation is appending to its second part. *)
LEMMA AppendToSecond ==
  \A s, t \in Seq(Items), x \in Items : Append(s \o t, x) = s \o Append(t, x)
<1> SUFFICES ASSUME NEW s \in Seq(Items), NEW t \in Seq(Items), NEW x \in Items
             PROVE  Append(s \o t, x) = s \o Append(t, x)
  OBVIOUS
<1> QED OBVIOUS

(* Concatenating the empty sequence changes nothing. *)
LEMMA EmptySecond ==
  ASSUME NEW S, NEW s \in Seq(S)
  PROVE  s \o <<>> = s
OBVIOUS

(* The head of the second part may move to the end of the first. *)
LEMMA HeadMoves ==
  ASSUME NEW S, NEW s \in Seq(S), NEW t \in Seq(S), t # <<>>
  PROVE  s \o t = Append(s, Head(t)) \o Tail(t)
OBVIOUS

(* In an injective concatenation the second part's head is not in the first. *)
LEMMA HeadIsNew ==
  ASSUME NEW S, NEW s \in Seq(S), NEW t \in Seq(S), t # <<>>, IsInjective(s \o t)
  PROVE  Head(t) \notin Range(s)
<1>1. (s \o t)[Len(s) + 1] = Head(t) /\ Len(s) + 1 \in DOMAIN (s \o t)
  OBVIOUS
<1>2. \A i \in DOMAIN s : (s \o t)[i] = s[i] /\ i \in DOMAIN (s \o t) /\ i # Len(s) + 1
  OBVIOUS
<1> QED BY <1>1, <1>2 DEF Range, IsInjective

-----------------------------------------------------------------------------
(* Condition variables *)

(* A notification moves at most sleepers on that variable, into their call. *)
LEMMA NotifyOneMoves ==
  ASSUME TypeOK, NEW cv \in {"not_empty", "not_full"},
         NEW where \in [Threads -> Places], NEW after \in NotifyOne(cv, where)
  PROVE  /\ after \in [Threads -> Places]
         /\ \A t \in Threads : after[t] = where[t] \/ (at[t] = cv /\ after[t] = CallOf(cv))
<1>1. CASE Waiting(cv) = {}
  BY <1>1 DEF NotifyOne
<1>2. CASE Waiting(cv) # {}
  <2>1. PICK t \in Waiting(cv) : after = [where EXCEPT ![t] = CallOf(cv)]
    BY <1>2 DEF NotifyOne
  <2>2. t \in Threads /\ at[t] = cv
    BY DEF Waiting
  <2> QED BY <2>1, <2>2 DEF CallOf, Places
<1> QED BY <1>1, <1>2

-----------------------------------------------------------------------------
(* The invariant holds of the pool that the constructor starts. *)
LEMMA PoolStarts == PoolInit => PoolInv
<1> SUFFICES ASSUME PoolInit PROVE PoolInv
  OBVIOUS
<1> USE DEF PoolInit
<1>1. TypeOK
  <2>1. at \in [Threads -> Places] /\ item \in [Threads -> Items \cup {NoItem}]
    BY DEF Places
  <2>2. q_ \in Seq(Items) /\ accepted \in Seq(Items) /\ taken \in Seq(Items)
    OBVIOUS
  <2> QED BY <2>1, <2>2 DEF TypeOK, Places
<1>2. InRole /\ OnOffer
  BY PoolAssumption DEF InRole, OnOffer, Threads
<1>3. OwnerInStep
  BY DEF OwnerInStep
<1>4. KeptInOrder
  BY PoolAssumption DEF KeptInOrder, IsInjective
<1>5. EachInOnePlace
  <2>1. Busy = {}
    BY DEF Busy, Threads
  <2>2. Range(taken) = {} /\ Range(accepted) = {}
    BY DEF Range
  <2> QED BY <2>1, <2>2 DEF EachInOnePlace
<1>6. NothingIsLeft
  BY DEF NothingIsLeft, Threads
<1> QED BY <1>1, <1>2, <1>3, <1>4, <1>5, <1>6 DEF PoolInv, EveryItemHasItsPlace

-----------------------------------------------------------------------------
(* Steps that move threads, without an item changing hands. *)

(* A step that moves threads, keeps the items where they are, and neither
   makes a producer busy nor starts or ends a handler, keeps the invariant. *)
LEMMA OnlyMoves ==
  ASSUME PoolInv,
         UNCHANGED <<q_, item, accepted, taken, finished, refused>>,
         at' \in [Threads -> Places],
         closed_' \in BOOLEAN, owner' \in {"up", "closed", "half notified", "joining", "down"},
         InRole', OwnerInStep', NothingIsLeft',
         \A p \in Producers : at'[p] # "idle" => at[p] # "idle",
         \A w \in Workers : at'[w] = "handler" <=> at[w] = "handler"
  PROVE  PoolInv'
<1> USE DEF PoolInv
<1>1. TypeOK'
  BY DEF TypeOK, Places
<1>2. OnOffer'
  BY DEF OnOffer
<1>3. KeptInOrder'
  BY DEF EveryItemHasItsPlace, KeptInOrder
<1>4. Busy' = Busy
  BY DEF Busy
<1>5. EachInOnePlace'
  BY <1>4 DEF EveryItemHasItsPlace, EachInOnePlace
<1> QED BY <1>1, <1>2, <1>3, <1>5 DEF EveryItemHasItsPlace

(* A spurious wake-up keeps the invariant. *)
LEMMA WakeUpKeeps ==
  ASSUME PoolInv, NEW t \in Threads, WakeUp(t)
  PROVE  PoolInv'
<1> USE DEF PoolInv
<1>1. at' \in [Threads -> Places] /\ closed_' \in BOOLEAN
  BY DEF TypeOK, Places, WakeUp, CallOf
<1>2. owner' \in {"up", "closed", "half notified", "joining", "down"}
  BY DEF TypeOK, WakeUp
<1>3. InRole'
  BY PoolAssumption DEF TypeOK, InRole, WakeUp, CallOf, Threads
<1>4. OwnerInStep' /\ NothingIsLeft'
  BY DEF TypeOK, OwnerInStep, EveryItemHasItsPlace, NothingIsLeft, WakeUp, CallOf, Threads
<1>5. \A p \in Producers : at'[p] # "idle" => at[p] # "idle"
  BY DEF TypeOK, WakeUp, CallOf, Threads
<1>6. \A w \in Workers : at'[w] = "handler" <=> at[w] = "handler"
  BY DEF TypeOK, WakeUp, CallOf, Threads
<1> QED BY <1>1, <1>2, <1>3, <1>4, <1>5, <1>6, OnlyMoves DEF WakeUp

(* A push() that waits for room keeps the invariant. *)
LEMMA PushWaitsKeeps ==
  ASSUME PoolInv, NEW p \in Producers, PushWaits(p)
  PROVE  PoolInv'
<1> USE DEF PoolInv
<1>1. at' \in [Threads -> Places] /\ closed_' \in BOOLEAN
  BY DEF TypeOK, Places, PushWaits
<1>2. owner' \in {"up", "closed", "half notified", "joining", "down"}
  BY DEF TypeOK, PushWaits
<1>3. \A w \in Workers : at'[w] = at[w]
  BY PoolAssumption DEF TypeOK, PushWaits, Threads
<1>4. InRole' /\ OwnerInStep' /\ NothingIsLeft'
  BY <1>3 DEF TypeOK, InRole, OwnerInStep, EveryItemHasItsPlace, NothingIsLeft, PushWaits, Threads
<1>5. \A r \in Producers : at'[r] # "idle" => at[r] # "idle"
  BY DEF TypeOK, PushWaits, Threads
<1> QED BY <1>1, <1>2, <1>3, <1>4, <1>5, OnlyMoves DEF PushWaits

(* A pop() that waits, or returns nothing, keeps the invariant. *)
LEMMA PopWaitsKeeps ==
  ASSUME PoolInv, NEW w \in Workers, PopWaits(w) \/ PopEnds(w)
  PROVE  PoolInv'
<1> USE DEF PoolInv, PopWaits, PopEnds
<1>1. at' \in [Threads -> Places] /\ closed_' \in BOOLEAN
  BY DEF TypeOK, Places
<1>2. owner' \in {"up", "closed", "half notified", "joining", "down"}
  BY DEF TypeOK
<1>3. \A p \in Producers : at'[p] = at[p]
  BY PoolAssumption DEF TypeOK, Threads
<1>4. \A v \in Workers : /\ at'[v] = "handler" <=> at[v] = "handler"
                         /\ at[v] = "returned" => at'[v] = "returned"
                         /\ at'[v] \in {"pop", "not_empty", "handler", "returned"}
                         /\ at'[v] = "returned" => at[v] = "returned" \/ (closed_ /\ q_ = <<>>)
  BY DEF TypeOK, InRole, Threads
<1>5. InRole' /\ OwnerInStep' /\ NothingIsLeft'
  BY <1>3, <1>4 DEF InRole, OwnerInStep, EveryItemHasItsPlace, NothingIsLeft
<1> QED BY <1>1, <1>2, <1>3, <1>4, <1>5, OnlyMoves

(* close(), its notifications and the join keep the invariant; that nothing
   is left after the join comes from the workers that have returned. *)
LEMMA OwnerKeeps ==
  ASSUME PoolInv, Close \/ Shutdown
  PROVE  PoolInv'
<1> USE DEF PoolInv, Close, Shutdown, CloseNotifiesWorkers, CloseNotifiesProducers, Join, NotifyAll
<1>1. at' \in [Threads -> Places] /\ closed_' \in BOOLEAN
  BY DEF TypeOK, Places, CallOf
<1>2. owner' \in {"up", "closed", "half notified", "joining", "down"}
  BY DEF TypeOK
<1>3. \A t \in Threads : \/ at'[t] = at[t]
                         \/ at[t] = "not_empty" /\ at'[t] = "pop"
                         \/ at[t] = "not_full" /\ at'[t] = "push"
  BY DEF TypeOK, CallOf
<1>4. InRole'
  BY <1>3, PoolAssumption DEF InRole, Threads
<1>5. OwnerInStep'
  BY <1>3 DEF OwnerInStep, Threads, TypeOK
<1>6. NothingIsLeft'
  <2>1. \A w \in Workers : at'[w] = "returned" => closed_' /\ q_' = <<>>
    <3>1. \A w \in Workers : at'[w] = "returned" => at[w] = "returned"
      BY <1>3 DEF Threads
    <3>2. q_' = q_
      OBVIOUS
    <3>3. \A w \in Workers : at[w] = "returned" => closed_ /\ q_ = <<>>
      BY DEF EveryItemHasItsPlace, NothingIsLeft
    <3>4. closed_ => closed_'
      BY Zenon
    <3> QED BY <3>1, <3>2, <3>3, <3>4, Zenon
  <2>2. ASSUME owner' = "down" PROVE finished' = Range(accepted')
    <3>1. Join \/ owner = "down"
      BY <2>2
    <3>2. \A w \in Workers : at[w] = "returned"
      BY <3>1 DEF OwnerInStep
    <3>3. Busy = {} /\ q_ = <<>>
      BY <3>2, PoolAssumption DEF Busy, EveryItemHasItsPlace, NothingIsLeft
    <3>4. accepted = taken
      <4>1. accepted = taken \o q_ /\ taken \in Seq(Items)
        BY DEF EveryItemHasItsPlace, KeptInOrder, TypeOK
      <4> QED BY <3>3, <4>1, EmptySecond
    <3>5. Range(taken) = finished
      BY <3>3 DEF EveryItemHasItsPlace, EachInOnePlace
    <3> QED BY <3>4, <3>5
  <2> QED BY <2>1, <2>2 DEF NothingIsLeft
<1> QED BY <1>1, <1>2, <1>3, <1>4, <1>5, <1>6, OnlyMoves DEF Threads

-----------------------------------------------------------------------------
(* Steps in which an item changes hands. *)

(* A call of submit() brings in a new item. *)
LEMMA SubmitKeeps ==
  ASSUME PoolInv, NEW p \in Producers, NEW i \in Items, Submit(p, i)
  PROVE  PoolInv'
<1> USE DEF PoolInv, Submit
<1>1. TypeOK'
  BY DEF TypeOK, Threads
<1>2. \A w \in Workers : at'[w] = at[w] /\ item'[w] = item[w]
  BY PoolAssumption DEF TypeOK, Threads
<1>3. \A r \in Producers \ {p} : at'[r] = at[r] /\ item'[r] = item[r]
  BY DEF TypeOK, Threads
<1>4. at'[p] = "push" /\ item'[p] = i
  BY DEF TypeOK, Threads
<1>5. InRole'
  BY <1>2, <1>3, <1>4 DEF InRole
<1>6. OnOffer'
  <2>1. i \notin refused /\ i \notin Range(accepted) /\ \A r \in Producers : item[r] # i
    BY DEF Submitted
  <2> QED BY <1>3, <1>4, <2>1 DEF OnOffer
<1>7. OwnerInStep' /\ NothingIsLeft'
  BY <1>2 DEF OwnerInStep, EveryItemHasItsPlace, NothingIsLeft
<1>8. KeptInOrder'
  BY DEF EveryItemHasItsPlace, KeptInOrder
<1>9. EachInOnePlace'
  <2>1. Busy' = Busy /\ \A w \in Busy : item'[w] = item[w]
    BY <1>2 DEF Busy
  <2> QED BY <2>1 DEF EveryItemHasItsPlace, EachInOnePlace
<1> QED BY <1>1, <1>5, <1>6, <1>7, <1>8, <1>9 DEF EveryItemHasItsPlace

(* A refused item goes nowhere else. *)
LEMMA PushRefusesKeeps ==
  ASSUME PoolInv, NEW p \in Producers, PushRefuses(p)
  PROVE  PoolInv'
<1> USE DEF PoolInv, PushRefuses
<1>1. item[p] \in Items /\ item[p] \notin Range(accepted)
  BY DEF OnOffer
<1>2. TypeOK'
  BY <1>1 DEF TypeOK, Threads
<1>3. \A w \in Workers : at'[w] = at[w] /\ item'[w] = item[w]
  BY PoolAssumption DEF TypeOK, Threads
<1>4. \A r \in Producers \ {p} : at'[r] = at[r] /\ item'[r] = item[r]
  BY DEF TypeOK, Threads
<1>5. at'[p] = "idle"
  BY DEF TypeOK, Threads
<1>6. InRole'
  BY <1>3, <1>4, <1>5 DEF InRole
<1>7. OnOffer'
  BY <1>4, <1>5 DEF OnOffer
<1>8. OwnerInStep' /\ NothingIsLeft'
  BY <1>3 DEF OwnerInStep, EveryItemHasItsPlace, NothingIsLeft
<1>9. KeptInOrder'
  BY DEF EveryItemHasItsPlace, KeptInOrder
<1>10. EachInOnePlace'
  <2>1. Busy' = Busy /\ \A w \in Busy : item'[w] = item[w]
    BY <1>3 DEF Busy
  <2> QED BY <1>1, <2>1 DEF EveryItemHasItsPlace, EachInOnePlace
<1> QED BY <1>2, <1>6, <1>7, <1>8, <1>9, <1>10 DEF EveryItemHasItsPlace

(* An accepted item is the last of the queue, and was not there before. *)
LEMMA PushAcceptsKeeps ==
  ASSUME PoolInv, NEW p \in Producers, PushAccepts(p)
  PROVE  PoolInv'
<1> DEFINE back == [at EXCEPT ![p] = "idle"]
           i == item[p]
<1> USE DEF PoolInv, PushAccepts
<1>a. /\ q_ \in Seq(Items) /\ accepted \in Seq(Items) /\ taken \in Seq(Items)
      /\ at \in [Threads -> Places] /\ TypeOK
  BY DEF TypeOK, Places
<1>b. /\ q_' = Append(q_, i) /\ accepted' = Append(accepted, i) /\ taken' = taken
      /\ at' \in NotifyOne("not_empty", back) /\ Len(q_) < Capacity
  OBVIOUS
<1>c. accepted = taken \o q_ /\ IsInjective(accepted)
  BY DEF EveryItemHasItsPlace, KeptInOrder
<1>1. i \in Items /\ i \notin refused /\ i \notin Range(accepted)
  BY DEF OnOffer
<1>2. /\ at' \in [Threads -> Places]
      /\ \A t \in Threads : at'[t] = back[t] \/ (at[t] = "not_empty" /\ at'[t] = "pop")
  <2> HIDE DEF PoolInv, PushAccepts
  <2>1. back \in [Threads -> Places]
    BY <1>a DEF Places
  <2> HIDE DEF back
  <2> QED BY <1>a, <1>b, <2>1, NotifyOneMoves DEF CallOf
<1>3. at'[p] = "idle" /\ \A r \in Producers \ {p} : at'[r] = at[r] /\ item'[r] = item[r]
  BY <1>2 DEF TypeOK, InRole, Threads
<1>4. \A w \in Workers : /\ item'[w] = item[w]
                         /\ at'[w] = at[w] \/ (at[w] = "not_empty" /\ at'[w] = "pop")
  BY <1>2, PoolAssumption DEF TypeOK, Threads
<1>5. TypeOK'
  <2>1. q_' \in Seq(Items) /\ accepted' \in Seq(Items)
    <3> HIDE DEF PoolInv, PushAccepts, i
    <3> QED BY <1>a, <1>b, <1>1
  <2>2. item' \in [Threads -> Items \cup {NoItem}]
    BY DEF TypeOK
  <2> QED BY <1>2, <2>1, <2>2 DEF TypeOK, Places
<1>6. InRole'
  BY <1>3, <1>4 DEF InRole
<1>7. Range(accepted') = Range(accepted) \cup {i}
  <2> HIDE DEF PoolInv, PushAccepts, i
  <2> QED BY <1>a, <1>b, <1>1, RangeOfAppend
<1>8. OnOffer'
  <2>0. /\ at[p] # "idle" /\ refused' = refused
        /\ \A r \in Producers : at[r] # "idle" =>
               item[r] \in Items /\ item[r] \notin refused /\ item[r] \notin Range(accepted)
        /\ \A r, u \in Producers : at[r] # "idle" /\ at[u] # "idle" /\ item[r] = item[u] => r = u
    BY DEF OnOffer
  <2> HIDE DEF PoolInv, PushAccepts
  <2>1. ASSUME NEW r \in Producers, at'[r] # "idle"
        PROVE  r # p /\ at[r] # "idle" /\ item'[r] = item[r]
    BY <1>3, <2>1
  <2>2. ASSUME NEW r \in Producers, at'[r] # "idle"
        PROVE  item'[r] \in Items /\ item'[r] \notin refused' /\ item'[r] \notin Range(accepted')
    <3>1. r # p /\ at[r] # "idle" /\ item'[r] = item[r]
      BY <2>1, <2>2
    <3>2. item[r] # i
      BY <2>0, <3>1
    <3> QED BY <1>7, <2>0, <3>1, <3>2
  <2>3. ASSUME NEW r \in Producers, NEW u \in Producers,
               at'[r] # "idle", at'[u] # "idle", item'[r] = item'[u]
        PROVE  r = u
    <3>1. /\ at[r] # "idle" /\ item'[r] = item[r]
          /\ at[u] # "idle" /\ item'[u] = item[u]
      BY <2>1, <2>3
    <3> QED BY <2>0, <2>3, <3>1
  <2> QED BY <2>2, <2>3, Zenon DEF OnOffer
<1>9. OwnerInStep'
  BY <1>4 DEF OwnerInStep
<1>10. KeptInOrder'
  <2> HIDE DEF PoolInv, PushAccepts, i
  <2>1. accepted' = taken' \o q_'
    <3>1. Append(taken \o q_, i) = taken \o Append(q_, i)
      <4>1. taken \in Seq(Items) /\ q_ \in Seq(Items) /\ i \in Items
        BY <1>a, <1>1
      <4> QED BY <4>1, AppendToSecond, Zenon
    <3> QED BY <1>b, <1>c, <3>1, Zenon
  <2>2. IsInjective(accepted')
    BY <1>a, <1>b, <1>c, <1>1, InjectiveAppend
  <2>3. Len(q_') <= Capacity
    BY <1>a, <1>b, <1>1, PoolAssumption
  <2> QED BY <2>1, <2>2, <2>3 DEF KeptInOrder
<1>11. EachInOnePlace'
  <2>1. Busy' = Busy /\ \A w \in Busy : item'[w] = item[w]
    BY <1>4 DEF Busy
  <2> QED BY <1>1, <1>7, <2>1 DEF EveryItemHasItsPlace, EachInOnePlace
<1>12. NothingIsLeft'
  BY <1>4 DEF EveryItemHasItsPlace, NothingIsLeft, OwnerInStep
<1> QED BY <1>5, <1>6, <1>8, <1>9, <1>10, <1>11, <1>12 DEF EveryItemHasItsPlace

(* The item at the front goes to one worker, and to no other. *)
LEMMA PopTakesKeeps ==
  ASSUME PoolInv, NEW w \in Workers, PopTakes(w)
  PROVE  PoolInv'
<1> DEFINE there == [at EXCEPT ![w] = "handler"]
           i == Head(q_)
<1> USE DEF PoolInv, PopTakes
<1>a. /\ q_ \in Seq(Items) /\ accepted \in Seq(Items) /\ taken \in Seq(Items)
      /\ at \in [Threads -> Places] /\ TypeOK
  BY DEF TypeOK, Places
<1>b. /\ q_ # <<>> /\ q_' = Tail(q_) /\ accepted' = accepted /\ taken' = Append(taken, i)
      /\ at' \in NotifyOne("not_full", there)
  OBVIOUS
<1>c. accepted = taken \o q_ /\ IsInjective(accepted) /\ Len(q_) <= Capacity
  BY DEF EveryItemHasItsPlace, KeptInOrder
<1>1. i \in Items /\ i \notin Range(taken)
  <2> HIDE DEF PoolInv, PopTakes
  <2>1. i \in Items
    BY <1>a, <1>b
  <2>2. i \notin Range(taken)
    BY <1>a, <1>b, <1>c, HeadIsNew
  <2> QED BY <2>1, <2>2
<1>2. /\ at' \in [Threads -> Places]
      /\ \A t \in Threads : at'[t] = there[t] \/ (at[t] = "not_full" /\ at'[t] = "push")
  <2> HIDE DEF PoolInv, PopTakes
  <2>1. there \in [Threads -> Places]
    BY <1>a DEF Places
  <2> HIDE DEF there
  <2> QED BY <1>a, <1>b, <2>1, NotifyOneMoves DEF CallOf
<1>3. /\ at'[w] = "handler" /\ item'[w] = i
      /\ \A v \in Workers \ {w} : at'[v] = at[v] /\ item'[v] = item[v]
  BY <1>2 DEF TypeOK, InRole, Threads
<1>4. \A p \in Producers : /\ item'[p] = item[p]
                           /\ at'[p] = at[p] \/ (at[p] = "not_full" /\ at'[p] = "push")
  BY <1>2, PoolAssumption DEF TypeOK, Threads
<1>5. TypeOK'
  <2>1. q_' \in Seq(Items) /\ taken' \in Seq(Items)
    <3> HIDE DEF PoolInv, PopTakes
    <3> QED BY <1>a, <1>b, <1>1
  <2>2. item' \in [Threads -> Items \cup {NoItem}]
    BY <1>1 DEF TypeOK
  <2> QED BY <1>2, <2>1, <2>2 DEF TypeOK, Places
<1>6. InRole'
  BY <1>3, <1>4 DEF InRole
<1>7. OnOffer'
  BY <1>4 DEF OnOffer
<1>8. at[w] = "pop" /\ owner # "down"
  BY DEF OwnerInStep
<1>9. OwnerInStep'
  BY <1>8 DEF OwnerInStep
<1>10. KeptInOrder'
  <2> HIDE DEF PoolInv, PopTakes
  <2>1. accepted' = taken' \o q_'
    BY <1>a, <1>b, <1>c, HeadMoves
  <2>2. Len(q_') <= Capacity
    BY <1>a, <1>b, <1>c, PoolAssumption
  <2> QED BY <1>b, <1>c, <2>1, <2>2 DEF KeptInOrder
<1>11. EachInOnePlace'
  <2>1. Busy' = Busy \cup {w} /\ w \notin Busy
    BY <1>3, <1>8 DEF Busy
  <2>2. Range(taken') = Range(taken) \cup {i}
    BY <1>1, RangeOfAppend DEF TypeOK
  <2>3. \A v \in Busy : item'[v] = item[v] /\ item[v] # i
    BY <1>1, <1>3, <2>1 DEF Busy, EveryItemHasItsPlace, EachInOnePlace
  <2>4. {item'[v] : v \in Busy'} = {item[v] : v \in Busy} \cup {i}
    BY <1>3, <2>1, <2>3
  <2> QED BY <1>1, <1>3, <2>1, <2>2, <2>3, <2>4 DEF EveryItemHasItsPlace, EachInOnePlace
<1>12. NothingIsLeft'
  BY <1>3, <1>8 DEF EveryItemHasItsPlace, NothingIsLeft
<1> QED BY <1>5, <1>6, <1>7, <1>9, <1>10, <1>11, <1>12 DEF EveryItemHasItsPlace

(* When the handler returns the item is finished, and in nobody's hands. *)
LEMMA HandleKeeps ==
  ASSUME PoolInv, NEW w \in Workers, Handle(w)
  PROVE  PoolInv'
<1> DEFINE i == item[w]
<1> USE DEF PoolInv, Handle
<1>1. w \in Busy /\ i \in Range(taken) /\ i \in Items
  <2>1. w \in Busy
    BY DEF Busy
  <2>2. i \in Range(taken)
    BY <2>1 DEF EveryItemHasItsPlace, EachInOnePlace
  <2>3. taken \in Seq(Items)
    BY DEF TypeOK
  <2> HIDE DEF PoolInv, Handle, i
  <2>4. i \in Items
    BY <2>2, <2>3 DEF Range
  <2> QED BY <2>1, <2>2, <2>4
<1>2. /\ at'[w] = "pop"
      /\ \A v \in Workers \ {w} : at'[v] = at[v] /\ item'[v] = item[v]
  BY DEF TypeOK, Threads
<1>3. \A p \in Producers : at'[p] = at[p] /\ item'[p] = item[p]
  BY PoolAssumption DEF TypeOK, Threads
<1>4. TypeOK'
  BY <1>1 DEF TypeOK, Threads
<1>5. InRole'
  BY <1>2, <1>3 DEF InRole
<1>6. OnOffer'
  BY <1>3 DEF OnOffer
<1>7. owner # "down"
  BY DEF OwnerInStep
<1>8. OwnerInStep'
  BY <1>7 DEF OwnerInStep
<1>9. KeptInOrder'
  BY DEF EveryItemHasItsPlace, KeptInOrder
<1>10. EachInOnePlace'
  <2>1. Busy' = Busy \ {w} /\ \A v \in Busy' : item'[v] = item[v]
    BY <1>2 DEF Busy
  <2>2. finished' \cup {item'[v] : v \in Busy'} = finished \cup {item[v] : v \in Busy}
    BY <1>1, <2>1
  <2> QED BY <1>1, <2>1, <2>2 DEF EveryItemHasItsPlace, EachInOnePlace
<1>11. NothingIsLeft'
  BY <1>2, <1>7 DEF EveryItemHasItsPlace, NothingIsLeft
<1> QED BY <1>4, <1>5, <1>6, <1>8, <1>9, <1>10, <1>11 DEF EveryItemHasItsPlace

-----------------------------------------------------------------------------
(* Every step keeps the invariant. *)
LEMMA PoolStep == PoolInv /\ [PoolNext]_poolVars => PoolInv'
<1> SUFFICES ASSUME PoolInv, [PoolNext]_poolVars PROVE PoolInv'
  OBVIOUS
<1>1. ASSUME NEW p \in Producers, NEW i \in Items, Submit(p, i) PROVE PoolInv'
  BY <1>1, SubmitKeeps
<1>2. ASSUME NEW p \in Producers, Push(p) PROVE PoolInv'
  BY <1>2, PushWaitsKeeps, PushRefusesKeeps, PushAcceptsKeeps DEF Push
<1>3. ASSUME NEW w \in Workers, Run(w) PROVE PoolInv'
  BY <1>3, PopWaitsKeeps, PopTakesKeeps, HandleKeeps DEF Run
<1>4. ASSUME NEW t \in Threads, WakeUp(t) PROVE PoolInv'
  BY <1>4, WakeUpKeeps
<1>5. CASE Close \/ Shutdown
  BY <1>5, OwnerKeeps
<1>6. CASE UNCHANGED poolVars
  <2> USE <1>6 DEF poolVars, PoolInv
  <2>1. TypeOK' /\ InRole' /\ OnOffer'
    BY DEF TypeOK, InRole, OnOffer
  <2>2. OwnerInStep'
    BY Zenon DEF OwnerInStep
  <2>3. KeptInOrder'
    BY DEF EveryItemHasItsPlace, KeptInOrder
  <2>4. EachInOnePlace'
    BY DEF EveryItemHasItsPlace, EachInOnePlace, Busy
  <2>5. NothingIsLeft'
    BY Zenon DEF EveryItemHasItsPlace, NothingIsLeft
  <2> QED BY <2>1, <2>2, <2>3, <2>4, <2>5 DEF EveryItemHasItsPlace
<1> QED BY <1>1, <1>2, <1>3, <1>4, <1>5, <1>6 DEF PoolNext

(* Whatever the number of threads and items and the capacity: types, and   *)
(* every item that submit() accepts is in order, in one place only, and    *)
(* done when shutdown() returns (bounded_queue.hh:26-66,                   *)
(* worker_pool.hh:44-74).                                                  *)
THEOREM PoolLosesNothing == PoolSpec => [](TypeOK /\ EveryItemHasItsPlace)
<1>1. PoolInv => TypeOK /\ EveryItemHasItsPlace
  BY DEF PoolInv
<1> QED BY <1>1, PoolStarts, PoolStep, PTL DEF PoolSpec

-----------------------------------------------------------------------------
(* Who sleeps, and who is awake.  Nothing but counting: a step that takes  *)
(* an item or a place away takes one awake thread away with it, or wakes   *)
(* one more.                                                               *)

(* The threads that are at a place. *)
In(place, where) == {t \in Threads : where[t] = place}

(* NobodyIsLeftAsleep, of any position of the threads.  The queue is open  *)
(* as long as the owner is up.                                             *)
Rested(where, len, own) ==
    /\ In("not_empty", where) # {} =>
           len <= Cardinality(In("pop", where)) /\ own \in {"up", "closed"}
    /\ In("not_full", where) # {} =>
           /\ own = "up" => Capacity - len <= Cardinality(In("push", where))
           /\ own \in {"up", "closed", "half notified"}

(* It is NobodyIsLeftAsleep, in every state. *)
LEMMA RestedIsIt == OwnerInStep => (NobodyIsLeftAsleep <=> Rested(at, Len(q_), owner))
<1> SUFFICES ASSUME OwnerInStep PROVE NobodyIsLeftAsleep <=> Rested(at, Len(q_), owner)
  OBVIOUS
<1>1. /\ Waiting("not_empty") = In("not_empty", at) /\ Inside("not_empty") = Cardinality(In("pop", at))
      /\ Waiting("not_full") = In("not_full", at) /\ Inside("not_full") = Cardinality(In("push", at))
  BY DEF Waiting, Inside, In, CallOf
<1>2. closed_ <=> owner # "up"
  BY DEF OwnerInStep
<1>3. CASE owner = "up"
  BY <1>1, <1>2, <1>3 DEF NobodyIsLeftAsleep, Rested
<1>4. CASE owner # "up"
  BY <1>1, <1>2, <1>4 DEF NobodyIsLeftAsleep, Rested
<1> QED BY <1>3, <1>4

(* The threads at a place are finitely many. *)
LEMMA InIsFinite ==
  ASSUME NEW place, NEW where
  PROVE  IsFiniteSet(In(place, where)) /\ Cardinality(In(place, where)) \in Nat
<1>1. IsFiniteSet(Threads)
  <2>1. IsFiniteSet(Workers) /\ IsFiniteSet(Producers)
    BY PoolAssumption
  <2> QED BY <2>1, FS_Union DEF Threads
<1>2. In(place, where) \in SUBSET Threads
  BY DEF In
<1>3. IsFiniteSet(In(place, where))
  BY <1>1, <1>2, FS_Subset
<1> QED BY <1>3, FS_CardinalityType

(* Who stays is counted again. *)
LEMMA NoneFewer ==
  ASSUME NEW place, NEW a, NEW b, \A t \in Threads : a[t] = place => b[t] = place
  PROVE  Cardinality(In(place, a)) <= Cardinality(In(place, b))
<1>1. In(place, a) \in SUBSET In(place, b)
  BY DEF In
<1> QED BY <1>1, InIsFinite, FS_Subset

(* One that leaves is one fewer. *)
LEMMA OneFewer ==
  ASSUME NEW place, NEW a, NEW b, NEW x,
         \A t \in Threads \ {x} : a[t] = place => b[t] = place
  PROVE  Cardinality(In(place, a)) <= Cardinality(In(place, b)) + 1
<1> DEFINE S == In(place, a)
           T == In(place, b)
<1>1. IsFiniteSet(S) /\ IsFiniteSet(T) /\ Cardinality(S) \in Nat /\ Cardinality(T) \in Nat
  BY InIsFinite
<1>2. S \in SUBSET (T \cup {x})
  BY DEF In
<1> HIDE DEF S, T
<1>3. /\ IsFiniteSet(T \cup {x})
      /\ Cardinality(T \cup {x}) = IF x \in T THEN Cardinality(T) ELSE Cardinality(T) + 1
  BY <1>1, FS_AddElement
<1>4. Cardinality(S) <= Cardinality(T \cup {x})
  BY <1>2, <1>3, FS_Subset
<1>5. Cardinality(S) <= Cardinality(T) + 1
  BY <1>1, <1>3, <1>4
<1> QED BY <1>5 DEF S, T

(* One that comes is one more. *)
LEMMA OneMore ==
  ASSUME NEW place, NEW a, NEW b, NEW y \in Threads, a[y] # place, b[y] = place,
         \A t \in Threads : a[t] = place => b[t] = place
  PROVE  Cardinality(In(place, a)) + 1 <= Cardinality(In(place, b))
<1> DEFINE S == In(place, a)
           T == In(place, b)
<1>1. IsFiniteSet(S) /\ IsFiniteSet(T) /\ Cardinality(S) \in Nat /\ Cardinality(T) \in Nat
  BY InIsFinite
<1>2. S \cup {y} \in SUBSET T /\ y \notin S
  BY DEF In
<1> HIDE DEF S, T
<1>3. Cardinality(S \cup {y}) = Cardinality(S) + 1
  BY <1>1, <1>2, FS_AddElement
<1>4. Cardinality(S \cup {y}) <= Cardinality(T)
  BY <1>1, <1>2, FS_Subset
<1> QED BY <1>3, <1>4 DEF S, T

(* notify_one wakes a sleeper if there is one. *)
LEMMA NotifyOneWakes ==
  ASSUME NEW cv, NEW where, NEW after \in NotifyOne(cv, where), In(cv, at) # {}
  PROVE  \E y \in Threads : at[y] = cv /\ after = [where EXCEPT ![y] = CallOf(cv)]
<1>1. Waiting(cv) # {}
  BY DEF In, Waiting
<1>2. PICK y \in Waiting(cv) : after = [where EXCEPT ![y] = CallOf(cv)]
  BY <1>1 DEF NotifyOne
<1> QED BY <1>2 DEF Waiting

(* Threads that wake up, or come into a call, leave nobody behind. *)
LEMMA ComingIsSafe ==
  ASSUME NEW a, NEW b, NEW len \in Nat, NEW own, Rested(a, len, own),
         \A t \in Threads : /\ b[t] \in {"not_empty", "not_full"} => a[t] = b[t]
                            /\ a[t] \in {"pop", "push"} => b[t] = a[t]
  PROVE  Rested(b, len, own)
<1>1. /\ In("not_empty", b) # {} => In("not_empty", a) # {}
      /\ In("not_full", b) # {} => In("not_full", a) # {}
  BY DEF In
<1>2. /\ Cardinality(In("pop", a)) <= Cardinality(In("pop", b))
      /\ Cardinality(In("push", a)) <= Cardinality(In("push", b))
  BY NoneFewer
<1>3. /\ Cardinality(In("pop", a)) \in Nat /\ Cardinality(In("pop", b)) \in Nat
      /\ Cardinality(In("push", a)) \in Nat /\ Cardinality(In("push", b)) \in Nat
      /\ Capacity \in Nat
  BY InIsFinite, PoolAssumption
<1>5. ASSUME In("not_empty", b) # {}
      PROVE  len <= Cardinality(In("pop", b)) /\ own \in {"up", "closed"}
  <2>1. In("not_empty", a) # {}
    BY <1>1, <1>5
  <2>2. len <= Cardinality(In("pop", a)) /\ own \in {"up", "closed"}
    BY <2>1 DEF Rested
  <2>3. len <= Cardinality(In("pop", b))
    BY <1>2, <1>3, <2>2
  <2> QED BY <2>2, <2>3
<1>6. ASSUME In("not_full", b) # {}
      PROVE  /\ own = "up" => Capacity - len <= Cardinality(In("push", b))
             /\ own \in {"up", "closed", "half notified"}
  <2>1. CASE own = "up"
    BY <1>1, <1>2, <1>3, <1>6, <2>1 DEF Rested
  <2>2. CASE own # "up"
    BY <1>1, <1>2, <1>3, <1>6, <2>2 DEF Rested
  <2> QED BY <2>1, <2>2
<1> QED BY <1>5, <1>6 DEF Rested

(* A producer that leaves push() with its item accepted: one item more,    *)
(* one worker more awake, if any slept; one place and one producer fewer.  *)
LEMMA AcceptingIsSafe ==
  ASSUME NEW a, NEW b, NEW len \in Nat, NEW own, Rested(a, len, own), own = "up", NEW p \in Threads,
         \A t \in Threads : /\ b[t] \in {"not_empty", "not_full"} => a[t] = b[t]
                            /\ a[t] = "pop" => b[t] = "pop"
                            /\ a[t] = "push" /\ t # p => b[t] = "push",
         In("not_empty", a) # {} => \E y \in Threads : a[y] # "pop" /\ b[y] = "pop"
  PROVE  Rested(b, len + 1, own)
<1>1. /\ In("not_empty", b) # {} => In("not_empty", a) # {}
      /\ In("not_full", b) # {} => In("not_full", a) # {}
  BY DEF In
<1>2. In("not_empty", a) # {} => Cardinality(In("pop", a)) + 1 <= Cardinality(In("pop", b))
  BY OneMore
<1>3. Cardinality(In("push", a)) <= Cardinality(In("push", b)) + 1
  BY OneFewer
<1>4. /\ Cardinality(In("pop", a)) \in Nat /\ Cardinality(In("pop", b)) \in Nat
      /\ Cardinality(In("push", a)) \in Nat /\ Cardinality(In("push", b)) \in Nat
      /\ Capacity \in Nat
  BY InIsFinite, PoolAssumption
<1> QED BY <1>1, <1>2, <1>3, <1>4 DEF Rested

(* A worker that leaves pop() with an item: one item and one worker fewer, *)
(* one place more and one producer more awake, if any slept.               *)
LEMMA TakingIsSafe ==
  ASSUME NEW a, NEW b, NEW len \in Nat, NEW own, Rested(a, len, own),
         NEW w \in Threads, len # 0,
         \A t \in Threads : /\ b[t] \in {"not_empty", "not_full"} => a[t] = b[t]
                            /\ a[t] = "push" => b[t] = "push"
                            /\ a[t] = "pop" /\ t # w => b[t] = "pop",
         In("not_full", a) # {} => \E y \in Threads : a[y] # "push" /\ b[y] = "push"
  PROVE  Rested(b, len - 1, own)
<1>1. /\ In("not_empty", b) # {} => In("not_empty", a) # {}
      /\ In("not_full", b) # {} => In("not_full", a) # {}
  BY DEF In
<1>2. In("not_full", a) # {} => Cardinality(In("push", a)) + 1 <= Cardinality(In("push", b))
  BY OneMore
<1>3. Cardinality(In("pop", a)) <= Cardinality(In("pop", b)) + 1
  BY OneFewer
<1>4. /\ Cardinality(In("pop", a)) \in Nat /\ Cardinality(In("pop", b)) \in Nat
      /\ Cardinality(In("push", a)) \in Nat /\ Cardinality(In("push", b)) \in Nat
      /\ Capacity \in Nat
  BY InIsFinite, PoolAssumption
<1>5. ASSUME In("not_empty", b) # {}
      PROVE  (len - 1) <= Cardinality(In("pop", b)) /\ own \in {"up", "closed"}
  <2>1. In("not_empty", a) # {}
    BY <1>1, <1>5
  <2>2. len <= Cardinality(In("pop", a)) /\ own \in {"up", "closed"}
    BY <2>1 DEF Rested
  <2>3. (len - 1) <= Cardinality(In("pop", b))
    BY <1>3, <1>4, <2>2
  <2> QED BY <2>2, <2>3
<1>6. ASSUME In("not_full", b) # {}
      PROVE  /\ own = "up" => Capacity - (len - 1) <= Cardinality(In("push", b))
             /\ own \in {"up", "closed", "half notified"}
  <2>1. CASE own = "up"
    BY <1>1, <1>2, <1>3, <1>4, <1>6, <2>1 DEF Rested
  <2>2. CASE own # "up"
    BY <1>1, <1>2, <1>3, <1>4, <1>6, <2>2 DEF Rested
  <2> QED BY <2>1, <2>2
<1> QED BY <1>5, <1>6 DEF Rested

(* A worker that finds the queue empty sleeps, or returns, with nothing to *)
(* wake up for.                                                            *)
LEMMA FindingNothingIsSafe ==
  ASSUME NEW a, NEW b, NEW own, Rested(a, 0, own),
         \A t \in Threads : /\ b[t] = "not_full" => a[t] = b[t]
                            /\ b[t] = "not_empty" => a[t] = b[t] \/ own = "up"
                            /\ a[t] = "push" => b[t] = "push"
  PROVE  Rested(b, 0, own)
<1>1. /\ In("not_empty", b) # {} => In("not_empty", a) # {} \/ own = "up"
      /\ In("not_full", b) # {} => In("not_full", a) # {}
  BY DEF In
<1>2. Cardinality(In("push", a)) <= Cardinality(In("push", b))
  BY NoneFewer
<1>3. /\ Cardinality(In("pop", b)) \in Nat /\ Capacity \in Nat
      /\ Cardinality(In("push", a)) \in Nat /\ Cardinality(In("push", b)) \in Nat
  BY InIsFinite, PoolAssumption
<1>5. ASSUME In("not_empty", b) # {}
      PROVE  0 <= Cardinality(In("pop", b)) /\ own \in {"up", "closed"}
  <2>1. own \in {"up", "closed"}
    BY <1>1, <1>5, Zenon DEF Rested
  <2> QED BY <1>3, <2>1
<1>6. ASSUME In("not_full", b) # {}
      PROVE  /\ own = "up" => Capacity - 0 <= Cardinality(In("push", b))
             /\ own \in {"up", "closed", "half notified"}
  <2>1. CASE own = "up"
    BY <1>1, <1>2, <1>3, <1>6, <2>1 DEF Rested
  <2>2. CASE own # "up"
    BY <1>1, <1>2, <1>3, <1>6, <2>2 DEF Rested
  <2> QED BY <2>1, <2>2
<1> QED BY <1>5, <1>6 DEF Rested

(* A producer that finds the queue full sleeps, and one that finds it      *)
(* closed leaves.                                                          *)
LEMMA FindingNoRoomIsSafe ==
  ASSUME NEW a, NEW b, NEW len \in Nat, NEW own, Rested(a, len, own),
         own = "up" => len >= Capacity,
         \A t \in Threads : /\ b[t] = "not_empty" => a[t] = b[t]
                            /\ b[t] = "not_full" => a[t] = b[t] \/ own = "up"
                            /\ a[t] = "pop" => b[t] = "pop"
  PROVE  Rested(b, len, own)
<1>1. /\ In("not_empty", b) # {} => In("not_empty", a) # {}
      /\ In("not_full", b) # {} => In("not_full", a) # {} \/ own = "up"
  BY DEF In
<1>2. Cardinality(In("pop", a)) <= Cardinality(In("pop", b))
  BY NoneFewer
<1>3. /\ Cardinality(In("push", b)) \in Nat /\ Capacity \in Nat
      /\ Cardinality(In("pop", a)) \in Nat /\ Cardinality(In("pop", b)) \in Nat
  BY InIsFinite, PoolAssumption
<1>5. ASSUME In("not_empty", b) # {}
      PROVE  len <= Cardinality(In("pop", b)) /\ own \in {"up", "closed"}
  <2>1. In("not_empty", a) # {}
    BY <1>1, <1>5
  <2>2. len <= Cardinality(In("pop", a)) /\ own \in {"up", "closed"}
    BY <2>1 DEF Rested
  <2>3. len <= Cardinality(In("pop", b))
    BY <1>2, <1>3, <2>2
  <2> QED BY <2>2, <2>3
<1>6. ASSUME In("not_full", b) # {}
      PROVE  /\ own = "up" => Capacity - len <= Cardinality(In("push", b))
             /\ own \in {"up", "closed", "half notified"}
  <2>1. CASE own = "up"
    BY <1>1, <1>2, <1>3, <1>6, <2>1 DEF Rested
  <2>2. CASE own # "up"
    BY <1>1, <1>2, <1>3, <1>6, <2>2 DEF Rested
  <2> QED BY <2>1, <2>2
<1> QED BY <1>5, <1>6 DEF Rested

(* The steps of the pool. *)
LEMMA AsleepStep == PoolInv /\ PoolInv' /\ NobodyIsLeftAsleep /\ [PoolNext]_poolVars => NobodyIsLeftAsleep'
<1> DEFINE b == at'
           len == Len(q_)
<1> SUFFICES ASSUME PoolInv, PoolInv', NobodyIsLeftAsleep, [PoolNext]_poolVars
             PROVE  Rested(b, Len(q_'), owner')
  <2>1. OwnerInStep' => (NobodyIsLeftAsleep' <=> Rested(at, Len(q_), owner)')
    BY RestedIsIt, PTL
  <2> QED BY <2>1 DEF PoolInv
<1>0. /\ Rested(at, len, owner) /\ (closed_ <=> owner # "up") /\ q_ \in Seq(Items) /\ len \in Nat
      /\ Capacity \in Nat \ {0}
      /\ owner \in {"up", "closed", "half notified", "joining", "down"}
      /\ at \in [Threads -> Places] /\ Producers \subseteq Threads /\ Workers \subseteq Threads
  <2>1. Rested(at, len, owner) /\ (closed_ <=> owner # "up")
    BY RestedIsIt, Zenon DEF PoolInv, OwnerInStep
  <2>2. q_ \in Seq(Items) /\ Capacity \in Nat \ {0}
    BY PoolAssumption DEF PoolInv, TypeOK
  <2>3. len \in Nat
    BY <2>2
  <2>4. /\ at \in [Threads -> Places] /\ Producers \subseteq Threads /\ Workers \subseteq Threads
        /\ owner \in {"up", "closed", "half notified", "joining", "down"}
    BY DEF PoolInv, TypeOK, Places, Threads
  <2> QED BY <2>1, <2>2, <2>3, <2>4, Zenon
<1>1. ASSUME NEW p \in Producers, NEW i \in Items, Submit(p, i) PROVE Rested(b, Len(q_'), owner')
  <2>1. \A t \in Threads : /\ b[t] \in {"not_empty", "not_full"} => at[t] = b[t]
                           /\ at[t] \in {"pop", "push"} => b[t] = at[t]
    BY <1>0, <1>1 DEF Submit
  <2>2. q_' = q_ /\ owner' = owner
    BY <1>1 DEF Submit
  <2> QED BY <1>0, <2>1, <2>2, ComingIsSafe
<1>2. ASSUME NEW w \in Workers, Handle(w) PROVE Rested(b, Len(q_'), owner')
  <2>1. \A t \in Threads : /\ b[t] \in {"not_empty", "not_full"} => at[t] = b[t]
                           /\ at[t] \in {"pop", "push"} => b[t] = at[t]
    BY <1>0, <1>2 DEF Handle
  <2>2. q_' = q_ /\ owner' = owner
    BY <1>2 DEF Handle
  <2> QED BY <1>0, <2>1, <2>2, ComingIsSafe
<1>3. ASSUME NEW x \in Threads, WakeUp(x) PROVE Rested(b, Len(q_'), owner')
  <2>1. \A t \in Threads : /\ b[t] \in {"not_empty", "not_full"} => at[t] = b[t]
                           /\ at[t] \in {"pop", "push"} => b[t] = at[t]
    BY <1>0, <1>3 DEF WakeUp, CallOf
  <2>2. q_' = q_ /\ owner' = owner
    BY <1>3 DEF WakeUp
  <2> QED BY <1>0, <2>1, <2>2, ComingIsSafe
<1>4. ASSUME NEW p \in Producers, PushWaits(p) \/ PushRefuses(p) PROVE Rested(b, Len(q_'), owner')
  <2>1. \A t \in Threads : /\ b[t] = "not_empty" => at[t] = b[t]
                           /\ b[t] = "not_full" => at[t] = b[t] \/ owner = "up"
                           /\ at[t] = "pop" => b[t] = "pop"
    <3>1. CASE PushWaits(p)
      BY <1>0, <3>1 DEF PushWaits
    <3>2. CASE PushRefuses(p)
      BY <1>0, <3>2 DEF PushRefuses
    <3> QED BY <1>4, <3>1, <3>2
  <2>2. q_' = q_ /\ owner' = owner
    BY <1>4 DEF PushWaits, PushRefuses
  <2>3. owner = "up" => len >= Capacity
    BY <1>0, <1>4 DEF PushWaits, PushRefuses
  <2> QED BY <1>0, <2>1, <2>2, <2>3, FindingNoRoomIsSafe
<1>5. ASSUME NEW w \in Workers, PopWaits(w) \/ PopEnds(w) PROVE Rested(b, Len(q_'), owner')
  <2>1. \A t \in Threads : /\ b[t] = "not_full" => at[t] = b[t]
                           /\ b[t] = "not_empty" => at[t] = b[t] \/ owner = "up"
                           /\ at[t] = "push" => b[t] = "push"
    <3>1. CASE PopWaits(w)
      BY <1>0, <3>1 DEF PopWaits
    <3>2. CASE PopEnds(w)
      BY <1>0, <3>2 DEF PopEnds
    <3> QED BY <1>5, <3>1, <3>2
  <2>2. q_' = q_ /\ owner' = owner /\ len = 0
    BY <1>0, <1>5 DEF PopWaits, PopEnds
  <2> QED BY <1>0, <2>1, <2>2, FindingNothingIsSafe
<1>6. ASSUME NEW p \in Producers, PushAccepts(p) PROVE Rested(b, Len(q_'), owner')
  <2> DEFINE back == [at EXCEPT ![p] = "idle"]
  <2>1. b \in NotifyOne("not_empty", back) /\ back \in [Threads -> Places] /\ TypeOK
    BY <1>0, <1>6 DEF PushAccepts, Places, PoolInv
  <2>2. \A t \in Threads : back[t] = IF t = p THEN "idle" ELSE at[t]
    BY <1>0
  <2> HIDE DEF back
  <2>3. \A t \in Threads : b[t] = back[t] \/ (at[t] = "not_empty" /\ b[t] = "pop")
    BY <2>1, NotifyOneMoves DEF CallOf
  <2>4. \A t \in Threads : /\ b[t] \in {"not_empty", "not_full"} => at[t] = b[t]
                           /\ at[t] = "pop" => b[t] = "pop"
                           /\ at[t] = "push" /\ t # p => b[t] = "push"
    BY <1>0, <1>6, <2>2, <2>3 DEF PushAccepts
  <2>5. In("not_empty", at) # {} => \E y \in Threads : at[y] # "pop" /\ b[y] = "pop"
    <3> SUFFICES ASSUME In("not_empty", at) # {} PROVE \E y \in Threads : at[y] # "pop" /\ b[y] = "pop"
      OBVIOUS
    <3>1. PICK y \in Threads : at[y] = "not_empty" /\ b = [back EXCEPT ![y] = CallOf("not_empty")]
      BY <2>1, NotifyOneWakes
    <3>2. b[y] = "pop"
      BY <2>1, <3>1 DEF CallOf
    <3> QED BY <3>1, <3>2
  <2>6. Len(q_') = len + 1 /\ owner' = owner /\ owner = "up" /\ p \in Threads
    <3>1. item[p] \in Items
      BY <1>6 DEF PoolInv, OnOffer, PushAccepts
    <3>2. q_' = Append(q_, item[p]) /\ owner' = owner /\ ~closed_
      BY <1>6 DEF PushAccepts
    <3>3. owner = "up"
      BY <1>0, <3>2, Zenon
    <3> QED BY <1>0, <3>1, <3>2, <3>3
  <2> QED BY <1>0, <2>4, <2>5, <2>6, AcceptingIsSafe
<1>7. ASSUME NEW w \in Workers, PopTakes(w) PROVE Rested(b, Len(q_'), owner')
  <2> DEFINE there == [at EXCEPT ![w] = "handler"]
  <2>1. b \in NotifyOne("not_full", there) /\ there \in [Threads -> Places] /\ TypeOK
    BY <1>0, <1>7 DEF PopTakes, Places, PoolInv
  <2>2. \A t \in Threads : there[t] = IF t = w THEN "handler" ELSE at[t]
    BY <1>0
  <2> HIDE DEF there
  <2>3. \A t \in Threads : b[t] = there[t] \/ (at[t] = "not_full" /\ b[t] = "push")
    BY <2>1, NotifyOneMoves DEF CallOf
  <2>4. \A t \in Threads : /\ b[t] \in {"not_empty", "not_full"} => at[t] = b[t]
                           /\ at[t] = "push" => b[t] = "push"
                           /\ at[t] = "pop" /\ t # w => b[t] = "pop"
    BY <1>0, <1>7, <2>2, <2>3 DEF PopTakes
  <2>5. In("not_full", at) # {} => \E y \in Threads : at[y] # "push" /\ b[y] = "push"
    <3> SUFFICES ASSUME In("not_full", at) # {} PROVE \E y \in Threads : at[y] # "push" /\ b[y] = "push"
      OBVIOUS
    <3>1. PICK y \in Threads : at[y] = "not_full" /\ b = [there EXCEPT ![y] = CallOf("not_full")]
      BY <2>1, NotifyOneWakes
    <3>2. b[y] = "push"
      BY <2>1, <3>1 DEF CallOf
    <3> QED BY <3>1, <3>2
  <2>6. Len(q_') = len - 1 /\ owner' = owner /\ w \in Threads /\ len # 0
    <3>1. q_' = Tail(q_) /\ owner' = owner /\ q_ # <<>>
      BY <1>7 DEF PopTakes
    <3>2. q_ \in Seq(Items) /\ w \in Threads
      BY <1>0
    <3> QED BY <3>1, <3>2
  <2>7. Rested(at, len, owner) /\ len \in Nat
    BY <1>0
  <2> HIDE DEF b, len
  <2>8. Rested(b, len - 1, owner)
    BY <2>4, <2>5, <2>6, <2>7, TakingIsSafe
  <2> QED BY <2>6, <2>8
<1>8. CASE Close
  BY <1>0, <1>8 DEF Close, Rested
<1>9. CASE CloseNotifiesWorkers
  <2>1. /\ \A t \in Threads : /\ b[t] # "not_empty" /\ (b[t] = "not_full" => at[t] = "not_full")
        /\ owner = "closed" /\ owner' = "half notified"
    BY <1>0, <1>9 DEF CloseNotifiesWorkers, NotifyAll, CallOf
  <2>2. In("not_empty", b) = {}
    BY <2>1 DEF In
  <2> QED BY <2>1, <2>2 DEF Rested
<1>10. CASE CloseNotifiesProducers
  <2>1. /\ \A t \in Threads : /\ b[t] # "not_full" /\ (b[t] = "not_empty" => at[t] = "not_empty")
        /\ owner = "half notified" /\ owner' = "joining"
    BY <1>0, <1>10 DEF CloseNotifiesProducers, NotifyAll, CallOf
  <2>2. In("not_full", b) = {} /\ In("not_empty", at) = {}
    BY <1>0, <2>1 DEF In, Rested
  <2>3. In("not_empty", b) = {}
    BY <2>1, <2>2 DEF In
  <2> QED BY <2>2, <2>3 DEF Rested
<1>11. CASE Join
  BY <1>0, <1>11 DEF Join, Rested
<1>12. CASE UNCHANGED poolVars
  BY <1>0, <1>12 DEF poolVars
<1> QED
  BY <1>1, <1>2, <1>3, <1>4, <1>5, <1>6, <1>7, <1>8, <1>9, <1>10, <1>11, <1>12
     DEF PoolNext, Push, Run, Shutdown

(* However many threads there are: no wake-up is lost when push() and      *)
(* pop() notify one thread each, and close() misses nobody                 *)
(* (bounded_queue.hh:29-34, 43-49, 59-64).                                 *)
THEOREM NobodyStaysAsleep == PoolSpec => []NobodyIsLeftAsleep
<1>1. PoolInit => PoolInv /\ NobodyIsLeftAsleep
  <2>1. PoolInit => NobodyIsLeftAsleep
    BY DEF PoolInit, NobodyIsLeftAsleep, Waiting
  <2> QED BY <2>1, PoolStarts
<1>2. PoolInv /\ NobodyIsLeftAsleep /\ [PoolNext]_poolVars => (PoolInv /\ NobodyIsLeftAsleep)'
  BY PoolStep, AsleepStep
<1> QED BY <1>1, <1>2, PTL DEF PoolSpec
=============================================================================
