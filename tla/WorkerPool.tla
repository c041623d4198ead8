----------------------------- MODULE WorkerPool -----------------------------
(***************************************************************************)
(* The pool of worker threads, demo/worker_pool.hh, over the bounded queue *)
(* with its mutex and two condition variables, demo/bounded_queue.hh.      *)
(* Producers submit items, as main() of demo/server.cpp submits the        *)
(* clients that it accepts; workers pop them and run the handler; the      *)
(* owner shuts the pool down at some time.                                 *)
(*                                                                         *)
(* The mutex is held from the beginning of push() or pop(), or from a      *)
(* wake-up, to the return or the next wait: that is one step.  close()     *)
(* notifies after it has let go of the mutex: these are steps of its own.  *)
(***************************************************************************)
EXTENDS Naturals, Sequences, FiniteSets, Functions

CONSTANTS
    Workers,        \* the worker threads
    Producers,      \* the threads that call submit()
    Items,          \* what may be submitted, each once: items are moved
    Capacity,       \* of the queue
    NoItem

ASSUME PoolAssumption ==
    /\ Workers # {} /\ Workers \cap Producers = {}
    /\ IsFiniteSet(Workers) /\ IsFiniteSet(Producers)
    /\ Capacity \in Nat \ {0}
    /\ NoItem \notin Items

VARIABLES
    q_, closed_,    \* the queue
    at,             \* where each worker and producer is: in a call, waiting
                    \* for a condition variable, elsewhere
    item,           \* the item that each of them has in hand
    owner,          \* how far the owner is with shutdown()
    accepted,       \* items that submit() accepted, in order
    taken,          \* items that workers took, in order
    finished,       \* items whose handler has returned
    refused         \* items that submit() refused

poolVars == <<q_, closed_, at, item, owner, accepted, taken, finished, refused>>

Threads == Workers \cup Producers
Submitted == Range(accepted) \cup refused \cup {item[p] : p \in Producers}

TypeOK ==
    /\ q_ \in Seq(Items) /\ closed_ \in BOOLEAN
    /\ at \in [Threads -> {"pop", "not_empty", "handler", "returned", "idle", "push", "not_full"}]
    /\ item \in [Threads -> Items \cup {NoItem}]
    /\ owner \in {"up", "closed", "half notified", "joining", "down"}
    /\ accepted \in Seq(Items) /\ taken \in Seq(Items)
    /\ finished \subseteq Items /\ refused \subseteq Items

(* The constructor starts the workers. *)
PoolInit ==
    /\ q_ = <<>> /\ closed_ = FALSE
    /\ at = [t \in Threads |-> IF t \in Workers THEN "pop" ELSE "idle"]
    /\ item = [t \in Threads |-> NoItem]
    /\ owner = "up"
    /\ accepted = <<>> /\ taken = <<>> /\ finished = {} /\ refused = {}

-----------------------------------------------------------------------------
(* Condition variables.  A thread that waits for `cv' is back in its call  *)
(* once it is woken, and looks at the condition again.                     *)
Waiting(cv) == {t \in Threads : at[t] = cv}
CallOf(cv) == IF cv = "not_empty" THEN "pop" ELSE "push"

(* Where the threads may be after notify_one, and are after notify_all. *)
NotifyOne(cv, where) ==
    IF Waiting(cv) = {} THEN {where}
    ELSE {[where EXCEPT ![t] = CallOf(cv)] : t \in Waiting(cv)}
NotifyAll(cv) == [t \in Threads |-> IF at[t] = cv THEN CallOf(cv) ELSE at[t]]

(* C++ permits a wait to end for no reason. *)
WakeUp(t) ==
    /\ at[t] \in {"not_empty", "not_full"}
    /\ at' = [at EXCEPT ![t] = CallOf(@)]
    /\ UNCHANGED <<q_, closed_, item, owner, accepted, taken, finished, refused>>

-----------------------------------------------------------------------------
(* A producer calls submit(), that is push(). *)
Submit(p, i) ==
    /\ at[p] = "idle" /\ i \notin Submitted
    /\ at' = [at EXCEPT ![p] = "push"]
    /\ item' = [item EXCEPT ![p] = i]
    /\ UNCHANGED <<q_, closed_, owner, accepted, taken, finished, refused>>

PushWaits(p) ==
    /\ at[p] = "push"
    /\ Len(q_) >= Capacity /\ ~closed_
    /\ at' = [at EXCEPT ![p] = "not_full"]
    /\ UNCHANGED <<q_, closed_, item, owner, accepted, taken, finished, refused>>

PushRefuses(p) ==
    /\ at[p] = "push" /\ closed_
    /\ at' = [at EXCEPT ![p] = "idle"]
    /\ item' = [item EXCEPT ![p] = NoItem]
    /\ refused' = refused \cup {item[p]}
    /\ UNCHANGED <<q_, closed_, owner, accepted, taken, finished>>

(* A plausible slip: only a push into an empty queue notifies. *)
PushAcceptsQuietly(p) ==
    LET back == [at EXCEPT ![p] = "idle"]
    IN  /\ at[p] = "push"
        /\ Len(q_) < Capacity /\ ~closed_
        /\ q_' = Append(q_, item[p])
        /\ accepted' = Append(accepted, item[p])
        /\ item' = [item EXCEPT ![p] = NoItem]
        /\ at' \in IF q_ = <<>> THEN NotifyOne("not_empty", back) ELSE {back}
        /\ UNCHANGED <<closed_, owner, taken, finished, refused>>

PushAccepts(p) ==
    /\ at[p] = "push"
    /\ Len(q_) < Capacity /\ ~closed_
    /\ q_' = Append(q_, item[p])
    /\ accepted' = Append(accepted, item[p])
    /\ item' = [item EXCEPT ![p] = NoItem]
    /\ at' \in NotifyOne("not_empty", [at EXCEPT ![p] = "idle"])
    /\ UNCHANGED <<closed_, owner, taken, finished, refused>>

Push(p) == PushWaits(p) \/ PushRefuses(p) \/ PushAccepts(p)

-----------------------------------------------------------------------------
(* run(): a worker calls pop(), ... *)
PopWaits(w) ==
    /\ at[w] = "pop"
    /\ q_ = <<>> /\ ~closed_
    /\ at' = [at EXCEPT ![w] = "not_empty"]
    /\ UNCHANGED <<q_, closed_, item, owner, accepted, taken, finished, refused>>

PopTakes(w) ==
    /\ at[w] = "pop"
    /\ q_ # <<>>
    /\ q_' = Tail(q_)
    /\ taken' = Append(taken, Head(q_))
    /\ item' = [item EXCEPT ![w] = Head(q_)]
    /\ at' \in NotifyOne("not_full", [at EXCEPT ![w] = "handler"])
    /\ UNCHANGED <<closed_, owner, accepted, finished, refused>>

(* A plausible slip: a closed queue is not drained. *)
PopEndsAtOnce(w) ==
    /\ at[w] = "pop"
    /\ closed_
    /\ at' = [at EXCEPT ![w] = "returned"]
    /\ UNCHANGED <<q_, closed_, item, owner, accepted, taken, finished, refused>>

PopEnds(w) ==
    /\ at[w] = "pop"
    /\ q_ = <<>> /\ closed_
    /\ at' = [at EXCEPT ![w] = "returned"]
    /\ UNCHANGED <<q_, closed_, item, owner, accepted, taken, finished, refused>>

(* ... and the handler returns, or throws what run() catches. *)
Handle(w) ==
    /\ at[w] = "handler"
    /\ at' = [at EXCEPT ![w] = "pop"]
    /\ item' = [item EXCEPT ![w] = NoItem]
    /\ finished' = finished \cup {item[w]}
    /\ UNCHANGED <<q_, closed_, owner, accepted, taken, refused>>

Run(w) == PopWaits(w) \/ PopTakes(w) \/ PopEnds(w) \/ Handle(w)

-----------------------------------------------------------------------------
(* shutdown(): close(), which notifies after it has set closed_, and join. *)
Close ==
    /\ owner = "up"
    /\ closed_' = TRUE
    /\ owner' = "closed"
    /\ UNCHANGED <<q_, at, item, accepted, taken, finished, refused>>

(* A plausible slip: only one worker is told. *)
CloseNotifiesOne ==
    /\ owner = "closed"
    /\ at' \in NotifyOne("not_empty", at)
    /\ owner' = "half notified"
    /\ UNCHANGED <<q_, closed_, item, accepted, taken, finished, refused>>

CloseNotifiesWorkers ==
    /\ owner = "closed"
    /\ at' = NotifyAll("not_empty")
    /\ owner' = "half notified"
    /\ UNCHANGED <<q_, closed_, item, accepted, taken, finished, refused>>

CloseNotifiesProducers ==
    /\ owner = "half notified"
    /\ at' = NotifyAll("not_full")
    /\ owner' = "joining"
    /\ UNCHANGED <<q_, closed_, item, accepted, taken, finished, refused>>

Join ==
    /\ owner = "joining"
    /\ \A w \in Workers : at[w] = "returned"
    /\ owner' = "down"
    /\ UNCHANGED <<q_, closed_, at, item, accepted, taken, finished, refused>>

Shutdown == CloseNotifiesWorkers \/ CloseNotifiesProducers \/ Join

PoolNext ==
    \/ \E p \in Producers, i \in Items : Submit(p, i)
    \/ \E p \in Producers : Push(p)
    \/ \E w \in Workers : Run(w)
    \/ \E t \in Threads : WakeUp(t)
    \/ Close
    \/ Shutdown

PoolSpec == PoolInit /\ [][PoolNext]_poolVars

-----------------------------------------------------------------------------
(* Safety *)

(* The workers at work. *)
Busy == {w \in Workers : at[w] = "handler"}

KeptInOrder == accepted = taken \o q_ /\ IsInjective(accepted) /\ Len(q_) <= Capacity

EachInOnePlace ==
    /\ Range(taken) = finished \cup {item[w] : w \in Busy}
    /\ \A w \in Busy : item[w] \notin finished
    /\ \A v, w \in Busy : item[v] = item[w] => v = w
    /\ refused \cap Range(accepted) = {}

NothingIsLeft ==
    /\ \A w \in Workers : at[w] = "returned" => closed_ /\ q_ = <<>>
    /\ owner = "down" => finished = Range(accepted)

(* Items come out in the order in which they went in; each that submit()   *)
(* accepted is in the queue, in the hands of one worker or finished, and   *)
(* never in two of these places; what was refused is nowhere.  The queue   *)
(* keeps to its capacity, a worker returns only when it is closed and      *)
(* drained, and after shutdown() nothing accepted is left                  *)
(* (bounded_queue.hh:26-51, worker_pool.hh:46-74).                         *)
EveryItemHasItsPlace == KeptInOrder /\ EachInOnePlace /\ NothingIsLeft

Inside(cv) == Cardinality({t \in Threads : at[t] = CallOf(cv)})

(* No wake-up is lost, although a push and a pop notify only one thread    *)
(* and others may come first: while workers sleep, there are as many       *)
(* awake as there are items; while producers sleep, as many awake as there *)
(* is room in an open queue; and once it is closed nobody sleeps whom      *)
(* close() is not still about to wake (bounded_queue.hh:29-34, 43-49,      *)
(* 59-64).                                                                 *)
NobodyIsLeftAsleep ==
    /\ Waiting("not_empty") # {} =>
           /\ Len(q_) <= Inside("not_empty")
           /\ closed_ => owner = "closed"
    /\ Waiting("not_full") # {} =>
           /\ ~closed_ => Capacity - Len(q_) <= Inside("not_full")
           /\ closed_ => owner \in {"closed", "half notified"}

-----------------------------------------------------------------------------
(* Liveness.  Every thread runs when it can, and handlers return; nobody   *)
(* has to submit anything or to shut the pool down, and spurious wake-ups  *)
(* are never forced.                                                       *)
FairSpec ==
    /\ PoolSpec
    /\ \A p \in Producers : WF_poolVars(Push(p))
    /\ \A w \in Workers : WF_poolVars(Run(w))
    /\ WF_poolVars(Shutdown)

(* Whatever submit() accepts is handled, every submit() returns, and       *)
(* shutdown() returns: backpressure and the closing of a full queue with   *)
(* producers and workers asleep leave nobody behind                        *)
(* (worker_pool.hh:9-12).                                                  *)
AllWorkIsDone ==
    /\ \A i \in Items : i \in Range(accepted) ~> i \in finished
    /\ \A p \in Producers : at[p] # "idle" ~> at[p] = "idle"
    /\ owner = "closed" ~> owner = "down"
=============================================================================
