------------------------------- MODULE EventBus -------------------------------
(* One durable queue of the event bus (packages/shared-ts/src/events/bus.ts,   *)
(* packages/shared-py/ragspace_shared/events/bus.py): a publisher, the broker, *)
(* and the replicas of the service that consumes it, written with one of them. *)
(* A replica counts the failed attempts of a message in its own memory.        *)
(*                                                                             *)
(* The order of the queue is left out: with prefetch, requeueing and several   *)
(* replicas the broker may hand out any ready message.                         *)
EXTENDS Naturals, FiniteSets

CONSTANTS
  Messages,
  Replicas,
  Prefetch,        \* unacked deliveries a replica may hold
  MaxAttempts,     \* MAX_ATTEMPTS
  MaxFaults        \* bound: replicas killed, and channels lost by one that lives on

ASSUME SetsAssumption     == IsFiniteSet(Messages) /\ IsFiniteSet(Replicas)
ASSUME AttemptsAssumption == MaxAttempts \in Nat \ {0} /\ Prefetch \in Nat \ {0}
ASSUME BoundsAssumption   == MaxFaults \in Nat

VARIABLES
  bus,         \* the library of the consumer
  place,       \* where each message is, as the broker sees it
  dispatches,  \* calls of dispatch in progress; lost: which disconnect took its channel, 0 for none
  attempts,    \* attempts[c][m]: the counter in the memory of replica c
  effects,     \* how often the handler of m took effect: 0, 1 or 2 for more
  failures,    \* how often a dispatch of m failed
  crashes, disconnects

vars == <<bus, place, dispatches, attempts, effects, failures, crashes, disconnects>>

Libraries == {"ts", "py"}
Places    == {"unsent", "lost", "ready", "unacked", "done", "rejected", "dead"}
Dispatch  == [msg : Messages, at : Replicas, lost : 0..MaxFaults,
              pc : {"handling", "handled", "backoff"}]

TypeOK ==
  /\ bus \in Libraries
  /\ place \in [Messages -> Places]
  /\ dispatches \subseteq Dispatch
  /\ attempts \in [Replicas -> [Messages -> 0..(MaxAttempts - 1)]]
  /\ effects \in [Messages -> 0..2]
  /\ failures \in [Messages -> Nat]
  /\ crashes \in Nat
  /\ disconnects \in Nat

Init ==
  /\ bus \in Libraries
  /\ place = [m \in Messages |-> "unsent"]
  /\ dispatches = {}
  /\ attempts = [c \in Replicas |-> [m \in Messages |-> 0]]
  /\ effects = [m \in Messages |-> 0]
  /\ failures = [m \in Messages |-> 0]
  /\ crashes = 0
  /\ disconnects = 0

\* The channel the message came on still exists.
Live(d) == d.lost = 0

LiveAt(c) == {d \in dispatches : d.at = c /\ Live(d)}

\* What ack and nack do: nothing once the channel of the delivery is gone. (In Python
\* a reject or nack raises then, and the dispatch, at its end, is over all the same.)
Settle(d, where) == place' = IF Live(d) THEN [place EXCEPT ![d.msg] = where] ELSE place

Leave(d) == dispatches' = dispatches \ {d}

Turn(d, to) == dispatches' = (dispatches \ {d}) \union {[d EXCEPT !.pc = to]}

SetAttempts(d, n) == attempts' = [attempts EXCEPT ![d.at][d.msg] = n]

-------------------------------------------------------------------------------
\* A publication is confirmed or times out; one that timed out may be in the
\* queue all the same.
Publish(m) ==
  /\ place[m] = "unsent"
  /\ \E where \in {"ready", "lost"} : place' = [place EXCEPT ![m] = where]
  /\ UNCHANGED <<bus, dispatches, attempts, effects, failures, crashes, disconnects>>

\* Mutant: the queue is consumed with noAck.
DeliverAcked(c, m) ==
  /\ place[m] = "ready"
  /\ Cardinality(LiveAt(c)) < Prefetch
  /\ place' = [place EXCEPT ![m] = "done"]
  /\ dispatches' = dispatches \union {[msg |-> m, at |-> c, lost |-> 0, pc |-> "handling"]}
  /\ UNCHANGED <<bus, attempts, effects, failures, crashes, disconnects>>

Deliver(c, m) ==
  /\ place[m] = "ready"
  /\ Cardinality(LiveAt(c)) < Prefetch
  /\ place' = [place EXCEPT ![m] = "unacked"]
  /\ dispatches' = dispatches \union {[msg |-> m, at |-> c, lost |-> 0, pc |-> "handling"]}
  /\ UNCHANGED <<bus, attempts, effects, failures, crashes, disconnects>>

\* The handler does what it is for; it may still raise after that.
TakeEffect(d) ==
  /\ d.pc = "handling"
  /\ Turn(d, "handled")
  /\ effects' = [effects EXCEPT ![d.msg] = IF @ < 2 THEN @ + 1 ELSE 2]
  /\ UNCHANGED <<bus, place, attempts, failures, crashes, disconnects>>

\* The ack of the Python bus raises on a channel that is gone.
AckWouldRaise(d) == bus = "py" /\ ~Live(d)

\* The handler returned: the counter is dropped and the message acked.
Ack(d) ==
  /\ d.pc = "handled"
  /\ ~AckWouldRaise(d)
  /\ SetAttempts(d, 0)
  /\ Settle(d, "done")
  /\ Leave(d)
  /\ UNCHANGED <<bus, effects, failures, crashes, disconnects>>

\* The counter was dropped before the ack that raises, which then counts as the first
\* failure of a handler that did its work.
AckRaises(d) ==
  /\ d.pc = "handled"
  /\ AckWouldRaise(d)
  /\ failures' = [failures EXCEPT ![d.msg] = @ + 1]
  /\ IF MaxAttempts > 1
     THEN SetAttempts(d, 1) /\ Turn(d, "backoff")
     ELSE SetAttempts(d, 0) /\ Leave(d)
  /\ UNCHANGED <<bus, place, effects, crashes, disconnects>>

\* PermanentEventError, or an event that does not parse.
Reject(d) ==
  /\ d.pc \in {"handling", "handled"}
  /\ Settle(d, "rejected")
  /\ Leave(d)
  /\ UNCHANGED <<bus, attempts, effects, failures, crashes, disconnects>>

\* Mutant: the attempt is counted but not stored.
FailForgetfully(d) ==
  /\ d.pc \in {"handling", "handled"}
  /\ failures' = [failures EXCEPT ![d.msg] = @ + 1]
  /\ IF attempts[d.at][d.msg] + 1 >= MaxAttempts
     THEN Settle(d, "dead") /\ Leave(d)
     ELSE Turn(d, "backoff") /\ UNCHANGED place
  /\ UNCHANGED <<bus, attempts, effects, crashes, disconnects>>

\* Mutant: one attempt too many is allowed.
FailOnceMore(d) ==
  /\ d.pc \in {"handling", "handled"}
  /\ failures' = [failures EXCEPT ![d.msg] = @ + 1]
  /\ IF attempts[d.at][d.msg] >= MaxAttempts
     THEN SetAttempts(d, 0) /\ Settle(d, "dead") /\ Leave(d)
     ELSE SetAttempts(d, attempts[d.at][d.msg] + 1) /\ Turn(d, "backoff") /\ UNCHANGED place
  /\ UNCHANGED <<bus, effects, crashes, disconnects>>

\* The handler raised: dead-lettered at MAX_ATTEMPTS, else requeued after a pause.
Fail(d) ==
  /\ d.pc \in {"handling", "handled"}
  /\ failures' = [failures EXCEPT ![d.msg] = @ + 1]
  /\ IF attempts[d.at][d.msg] + 1 >= MaxAttempts
     THEN SetAttempts(d, 0) /\ Settle(d, "dead") /\ Leave(d)
     ELSE SetAttempts(d, attempts[d.at][d.msg] + 1) /\ Turn(d, "backoff") /\ UNCHANGED place
  /\ UNCHANGED <<bus, effects, crashes, disconnects>>

\* Mutant: the requeueing nack is forgotten.
RequeueForgotten(d) ==
  /\ d.pc = "backoff"
  /\ Leave(d)
  /\ UNCHANGED <<bus, place, attempts, effects, failures, crashes, disconnects>>

\* nack(requeue) after the backoff.
Requeue(d) ==
  /\ d.pc = "backoff"
  /\ Settle(d, "ready")
  /\ Leave(d)
  /\ UNCHANGED <<bus, attempts, effects, failures, crashes, disconnects>>

\* The broker requeues what a lost channel had not acked.
Requeued(c) == [m \in Messages |-> IF \E d \in LiveAt(c) : d.msg = m THEN "ready" ELSE place[m]]

\* A replica dies, with its calls and its counters.
Crash(c) ==
  /\ crashes + disconnects < MaxFaults
  /\ crashes' = crashes + 1
  /\ place' = Requeued(c)
  /\ dispatches' = {d \in dispatches : d.at # c}
  /\ attempts' = [attempts EXCEPT ![c] = [m \in Messages |-> 0]]
  /\ UNCHANGED <<bus, effects, failures, disconnects>>

\* A replica loses its channel: the broker requeues, while the calls go on.
Disconnect(c) ==
  /\ crashes + disconnects < MaxFaults
  /\ disconnects' = disconnects + 1
  /\ place' = Requeued(c)
  /\ dispatches' = {IF d \in LiveAt(c) THEN [d EXCEPT !.lost = disconnects'] ELSE d : d \in dispatches}
  /\ UNCHANGED <<bus, attempts, effects, failures, crashes>>

-------------------------------------------------------------------------------
DispatchStep(d) == TakeEffect(d) \/ Ack(d) \/ AckRaises(d) \/ Reject(d) \/ Fail(d) \/ Requeue(d)

Next ==
  \/ \E m \in Messages : Publish(m)
  \/ \E c \in Replicas, m \in Messages : Deliver(c, m)
  \/ \E d \in dispatches : DispatchStep(d)
  \/ \E c \in Replicas : Crash(c) \/ Disconnect(c)

Spec == Init /\ [][Next]_vars

\* The broker hands out what is ready, handlers return or raise, backoffs end.
Fairness ==
  /\ \A m \in Messages : WF_vars(\E c \in Replicas : Deliver(c, m))
  /\ \A m \in Messages, c \in Replicas : WF_vars(\E d \in dispatches : d.msg = m /\ d.at = c /\ DispatchStep(d))

FairSpec == Spec /\ Fairness

-------------------------------------------------------------------------------
(* Properties.                                                                 *)

\* A message the broker took and that is not settled is either ready or held by
\* exactly one dispatch that can still settle it, through crashes, reconnections
\* and orphaned handlers: never forgotten, and never settled twice.
OneOwner ==
  \A m \in Messages :
    LET owners == {d \in dispatches : d.msg = m /\ Live(d)}
    IN  Cardinality(owners) = (IF place[m] = "unacked" THEN 1 ELSE 0)

\* A message that always fails is dead-lettered after a bounded number of runs,
\* although every replica counts alone, a crash forgets the count, and an
\* orphaned handler may reset it.
PoisonIsBounded ==
  \A m \in Messages :
    failures[m] <= (Cardinality(Replicas) + crashes) * (MaxAttempts - 1) + disconnects * MaxAttempts + 1

\* The broker, the replicas and their crashes implement at-least-once handling.
Fate == [m \in Messages |-> IF place[m] \in {"ready", "unacked"} THEN "held" ELSE place[m]]

Promise == INSTANCE AtLeastOnce WITH
  fate <- Fate, handled <- {m \in Messages : effects[m] > 0}, Patience <- MaxAttempts

AtLeastOnceHandling == Promise!Spec

\* Every message the broker took is handled, refused or dead-lettered in the end.
EveryMessageSettles ==
  \A m \in Messages : place[m] = "ready" ~> place[m] \in {"done", "rejected", "dead"}
===============================================================================
